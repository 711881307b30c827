-------------------------------- MODULE MCLink --------------------------------
(***************************************************************************)
(* What comes to a Game Boy over radio and cable, for TLC: save data sent  *)
(* over the wireless link in fragments (two sessions, two or three         *)
(* fragments), bytes exchanged with a second Game Boy, and packets sent to *)
(* the printer.  A behaviour exercises one of them; the variables of the   *)
(* others stay as they are at the start.                                   *)
(***************************************************************************)
EXTENDS FragmentTransfer, LinkCable, GbPrinter

VARIABLE part
linkVars == <<part, vars, cableVars, printerVars>>

\* Packets of the printer: what they carry, and what it unpacks to.
PrinterPacket(c, packed, data, plain) == [command |-> c, compression |-> packed, data |-> data, plain |-> plain]
Tiles == PrinterPacket(4, 0, <<7>>, <<7>>)
PackedTiles == PrinterPacket(4, 1, <<128, 5>>, <<5, 5>>)
NoTiles == PrinterPacket(4, 0, << >>, << >>)
Sheet == PrinterPacket(2, 0, <<1, 0, 228, 64>>, << >>)
PrinterPrograms ==
  {<<Tiles, NoTiles, Sheet, Tiles>>, <<PackedTiles, Tiles, NoTiles, Sheet>>,
   <<Tiles, NoTiles, Sheet, Sheet>>, <<Tiles, Sheet, NoTiles, Sheet>>, <<Sheet, Tiles>>,
   <<PrinterPacket(4, 1, <<0, 9, 128>>, << >>), Tiles, NoTiles, Sheet>>,
   <<Tiles, NoTiles, Sheet, PrinterPacket(1, 0, << >>, << >>)>>,
   <<PrinterPacket(4, 0, <<1, 1, 1, 1, 1>>, << >>), Tiles,
     PrinterPacket(15, 0, << >>, << >>), NoTiles, PrinterPacket(2, 0, <<0, 0, 0, 0>>, << >>), Sheet>>}

LinkInit ==
  /\ part \in {"fragments", "cable", "printer"}
  /\ Init
  /\ CableInit /\ (part # "cable" => modes[Host] = {"internal", "off"})
  /\ PrinterInit /\ (part # "printer" => disk = << >> /\ packets = <<Sheet, Tiles>>)
LinkNext ==
  /\ UNCHANGED part
  /\ \/ part = "fragments" /\ Next /\ UNCHANGED <<cableVars, printerVars>>
     \/ part = "cable" /\ CableNext /\ UNCHANGED <<vars, printerVars>>
     \/ part = "printer" /\ PrinterNext /\ UNCHANGED <<vars, cableVars>>
\* The main loop runs two linked Game Boys for ever.
LinkSpec == LinkInit /\ [][LinkNext]_linkVars /\ WF_linkVars(part = "cable" /\ LinkNext)

(* A frame of two linked Game Boys ends (FrameEnds of LinkCable).            *)
LinkedFramesEnd == (part = "cable" /\ frame = "run") ~> (part = "cable" /\ frame = "over")
=============================================================================
