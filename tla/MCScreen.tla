------------------------------- MODULE MCScreen ------------------------------
(***************************************************************************)
(* The way of a picture, for TLC, in parts that share no state: the clocks *)
(* that time its lines (LcdTimer), the colours a Super Game Boy game gives *)
(* it, bit by bit over P1 (SgbPackets), the replay of its lines by the DS  *)
(* (ScanlineReplay), the commit that brings it to video memory             *)
(* (VideoCommit) and the callbacks of the VBlank (VBlankQueue).  A         *)
(* behaviour is of one part; the variables of the others stay as they are  *)
(* at the start, or 0.                                                     *)
(***************************************************************************)
EXTENDS VideoCommit, ScanlineReplay, LcdTimer, VBlankQueue

CONSTANT SuspendAnywhere
VARIABLES part,
          p1, sgbPacketBit, sgbPacket, sgbCommand, sgbPacketLength, sgbPacketsTransferred,
          sgbButtonsChecked, sgb, todo, sgbAt, pulses, meant, players, giveUps, suspends
packetVars == <<p1, sgbPacketBit, sgbPacket, sgbCommand, sgbPacketLength, sgbPacketsTransferred,
                sgbButtonsChecked, sgb, todo, sgbAt, pulses, meant, players, giveUps, suspends>>
screenVars == <<clockVars, replayVars, vars, queueVars>>
allVars == <<part, screenVars, packetVars>>

\* The callbacks that follow on a callback.
Follows == [t \in Tasks |-> IF t = "menu" THEN <<"mode", "border">> ELSE << >>]

\* Commands of the Super Game Boy, and the screen that is transferred with them.
Send(number, n, rest) ==
  [bytes |-> [i \in 1..(16 * n) |-> IF i = 1 THEN (8 * number) + n
                                        ELSE IF i - 1 <= Len(rest) THEN rest[i - 1] ELSE 0],
   screen |-> number]
Outer == <<7, 57, 2, 3, 9, 8>>
Inner == <<5, 18, 30, 1, 4, 30>>
AttrBlocks == Send(4, 2, <<4>> \o Outer \o Inner \o <<1, 2, 12, 12, 15, 17>> \o <<4, 48, 9, 9, 9, 9>>)
AttrLines == Send(5, 2, <<17>> \o [i \in 1..17 |-> (37 * i) % 256])
Chars(style) == Send(7, 2, <<18, 16, 60, 0, style>> \o [i \in 1..20 |-> (77 * i) % 256])
S == INSTANCE SgbPackets WITH s <- sgb, at <- sgbAt,
       Games <- {<<AttrBlocks, AttrLines>>, <<Send(4, 1, <<2>> \o Outer), Chars(0)>>,
                 <<Chars(1), Send(6, 1, <<\h5B, 7>>)>>, <<Send(6, 1, <<\h1B, 19>>), Send(17, 1, <<3>>)>>,
                 <<Send(17, 1, <<1>>), Send(17, 1, <<0>>)>>,
                 <<Send(21, 1, << >>), Send(22, 1, <<\h45>>), Send(23, 1, <<2>>)>>,
                 <<Send(11, 1, << >>), Send(10, 1, <<5, 0, 6, 1, 7, 0, 8, 0, \hC1>>),
                   Send(0, 1, [i \in 1..14 |-> i])>>,
                 <<Send(31, 2, << >>), Send(15, 1, <<0, 24, 0, 20>>), [Send(4, 0, << >>) EXCEPT !.bytes =
                   [i \in 1..16 |-> IF i = 1 THEN 32 ELSE 0]], Send(4, 1, <<1>> \o Inner)>>},
       ColourOf <- LAMBDA f, id, c : f + id + c, AttrOf <- LAMBDA f, i, c : (f + i + c) % 4,
       GiveUpAt <- {0, 9, 127}, MaxGiveUps <- 1, MaxSuspends <- 1
NoPackets ==
  /\ p1 = 0 /\ sgbPacketBit = 0 /\ sgbPacket = 0 /\ sgbCommand = 0 /\ sgbPacketLength = 0
  /\ sgbPacketsTransferred = 0 /\ sgbButtonsChecked = 0 /\ sgb = 0 /\ todo = 0 /\ sgbAt = 0
  /\ pulses = 0 /\ meant = 0 /\ players = 0 /\ giveUps = 0 /\ suspends = 0


ScreenInit == /\ part \in {"clocks", "replay", "commit", "queue", "packets"}
             /\ Init /\ (part # "commit" => ~fast)
             /\ ReplayInit /\ ClockInit /\ QueueInit
             /\ IF part = "packets" THEN S!Init ELSE NoPackets
ScreenNext ==
  /\ UNCHANGED part
  /\ \/ /\ UNCHANGED <<packetVars>>
        /\ \/ part = "clocks" /\ ClockNext /\ UNCHANGED <<replayVars, vars, queueVars>>
           \/ part = "replay" /\ ReplayNext /\ UNCHANGED <<clockVars, vars, queueVars>>
           \/ part = "commit" /\ Next /\ UNCHANGED <<clockVars, replayVars, queueVars>>
           \/ part = "queue" /\ QueueNext /\ UNCHANGED <<clockVars, replayVars, vars>>
     \/ part = "packets" /\ S!Next /\ UNCHANGED <<screenVars>>
ScreenSpec == ScreenInit /\ [][ScreenNext]_allVars

(* The attribute map is what the commands sent ask for (SgbPackets).         *)
AttributesAsAsked == part = "packets" => S!TypeOK /\ S!AttributesAsAsked
=============================================================================
