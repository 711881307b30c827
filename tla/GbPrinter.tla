------------------------------- MODULE GbPrinter -------------------------------
(***************************************************************************)
(* The Game Boy Printer (gbprinter.cpp).  A game sends packets byte by     *)
(* byte over the serial port; a byte may be lost, changed, or the packet   *)
(* given up at any point, VBlanks pass between any two bytes, the card     *)
(* may be full, hold other files, or be switched off while an image is     *)
(* written.  A packet takes effect after its last byte is answered; PRINT  *)
(* only asks for a file, which the next VBlank writes.                     *)
(***************************************************************************)
EXTENDS Integers, Sequences, FiniteSets

CONSTANTS MaxImage, MaxPacket,  \* 8000 and 640 bytes in the code
          RowBytes, RowAlign,   \* 40 bytes of tiles make a row; 16 rows are printed together
          IdleFrames,           \* 6 VBlanks
          Numbers,              \* numbers of files (100000)
          Programs,             \* sequences of packets [command, compression, data, plain] a game sends
          MaxFaults

Packets == [command : 0..255, compression : 0..255, data : Seq(0..255), plain : Seq(0..255)]
\* A packet has two bytes for its length.
ASSUME PrinterAssumption ==
  /\ MaxImage \in Nat /\ MaxPacket \in Nat
  /\ RowBytes \in Nat \ {0} /\ RowAlign \in Nat \ {0} /\ IdleFrames \in Nat \ {0}
  /\ IsFiniteSet(Numbers) /\ Numbers = 0..(Cardinality(Numbers) - 1)
  /\ \A program \in Programs : /\ program \in Seq(Packets)
                               /\ \A i \in DOMAIN program : Len(program[i].data) < 65536

VARIABLES image, packet, packetPhase, command, compression, packetSize, checksum, expectedChecksum,
          packetInvalid, packetIdleFrames,
          ready, requested, printing, checksumError, packetError,  \* status
          emptyDataReceived, printCounter, nextNumber, palette,
          disk,       \* the files of the card: number -> image, or other's file
          temporary,  \* numbers with a temporary file left on the card
          wire,       \* the bytes the game has still to send
          packets,    \* the packets after that
          sending,    \* the packet they belong to
          fresh,      \* it began after a whole packet or after a silence
          intact,     \* it met a printer between packets, and arrives as it was sent, in time
          quiet,      \* VBlanks since a byte reached the printer
          owed,       \* the packet that has arrived intact up to its sum, until its answer
          want,       \* the image a printer told what arrived intact would hold
          order,      \* the image of an accepted PRINT that has not been written yet
          faults
packetVars == <<packet, packetPhase, command, compression, packetSize, checksum, expectedChecksum,
                packetInvalid, packetIdleFrames>>
status == <<ready, requested, printing, checksumError, packetError>>
game == <<wire, sending, fresh, intact, quiet, owed, want, order, faults, packets>>
printerVars == <<image, packetVars, status, emptyDataReceived, printCounter, nextNumber, palette,
          disk, temporary, game>>

Other == <<"other">>  \* a file of somebody else
Sum(bytes) ==
  LET upto[i \in 0..Len(bytes)] == IF i = 0 THEN 0 ELSE (upto[i - 1] + bytes[i]) % 65536
  IN upto[Len(bytes)]

\* A packet as it goes over the cable: magic, header, data, sum, and two bytes for the answers.
Encoded(p) == LET body == <<p.command, p.compression, Len(p.data) % 256, Len(p.data) \div 256>> \o p.data
              IN <<\h88, \h33>> \o body \o <<Sum(body) % 256, Sum(body) \div 256, 0, 0>>
\* The next byte is the first of a packet; the printer should be between packets.
Starts == wire = Encoded(sending)
Fresh == (fresh /\ intact) \/ quiet = IdleFrames

\* clearPacket.  The bytes of the last packet stay in its buffer, where nothing reads them again.
ClearPacket == /\ packetPhase' = 0 /\ packet' = << >> /\ packetSize' = 0 /\ checksum' = 0
               /\ expectedChecksum' = 0 /\ packetIdleFrames' = 0 /\ packetInvalid' = FALSE
               /\ UNCHANGED <<command, compression>>
\* Mutant: the image is dropped and the status still says READY.
ClearImageReady == /\ image' = << >> /\ emptyDataReceived' = FALSE /\ printCounter' = 0
                   /\ requested' = FALSE /\ printing' = FALSE
                   /\ checksumError' = FALSE /\ packetError' = FALSE /\ UNCHANGED ready
\* clearImage.
ClearImage == /\ image' = << >> /\ emptyDataReceived' = FALSE /\ printCounter' = 0
              /\ ready' = FALSE /\ requested' = FALSE /\ printing' = FALSE
              /\ checksumError' = FALSE /\ packetError' = FALSE

PrinterInit == /\ image = << >> /\ packet = << >> /\ packetPhase = 0 /\ command = 0 /\ compression = 0
        /\ packetSize = 0 /\ checksum = 0 /\ expectedChecksum = 0 /\ packetInvalid = FALSE
        /\ packetIdleFrames = 0 /\ ready = FALSE /\ requested = FALSE /\ printing = FALSE
        /\ checksumError = FALSE /\ packetError = FALSE
        /\ emptyDataReceived = FALSE /\ printCounter = 0 /\ nextNumber = 0 /\ palette = \hE4
        /\ disk \in {<< >>, [n \in {0} |-> Other]} /\ temporary = {}
        /\ wire = << >> /\ sending = << >> /\ fresh = TRUE /\ intact = TRUE /\ quiet = 0 /\ owed = << >>
        /\ want = << >> /\ order = << >>
        /\ faults = MaxFaults /\ packets \in Programs

(***************************************************************************)
(* decodeData: literal runs and repeated bytes, one after another.  The    *)
(* data is given whole, or not at all.                                     *)
(***************************************************************************)
Refused == <<-1>>
\* One control byte and its run, at place r.at; what it unpacks to joins r.out.
UnpackRun(data, r) ==
  LET control == data[r.at]
      count == IF control < 128 THEN control + 1 ELSE control - 126
      next == IF control < 128 THEN r.at + count + 1 ELSE r.at + 2
      byte(i) == IF control < 128 THEN data[r.at + i] ELSE data[r.at + 1]
  IN IF r.at > Len(data) THEN r
     ELSE [at |-> next,
           out |-> IF next > Len(data) + 1 THEN Refused ELSE r.out \o [i \in 1..count |-> byte(i)]]
Unpacked(data) ==
  LET after[i \in 0..Len(data)] == IF i = 0 THEN [at |-> 1, out |-> << >>]
                                   ELSE UnpackRun(data, after[i - 1])
  IN after[Len(data)].out
DecodeData(data, capacity) ==
  LET result == IF compression = 0 THEN data ELSE Unpacked(data)
  IN IF result # Refused /\ Len(result) > capacity THEN Refused ELSE result

\* Mutant: DATA is taken while an image waits to be written.
ExecuteDataWhilePrinting ==
  LET decoded == DecodeData(packet, MaxImage - Len(image))
      bad == decoded = Refused
  IN /\ image' = IF bad THEN image ELSE image \o decoded
     /\ emptyDataReceived' = IF bad THEN emptyDataReceived ELSE decoded = << >>
     /\ ready' = (ready \/ (~bad /\ decoded # << >>))
     /\ packetError' = bad
     /\ UNCHANGED <<printCounter, palette, requested, printing>>
\* DATA and the empty DATA that ends an image.
ExecuteData ==
  LET decoded == DecodeData(packet, MaxImage - Len(image))
      bad == printCounter # 0 \/ decoded = Refused
  IN /\ image' = IF bad THEN image ELSE image \o decoded
     /\ emptyDataReceived' = IF bad THEN emptyDataReceived ELSE decoded = << >>
     /\ ready' = (ready \/ (~bad /\ decoded # << >>))
     /\ packetError' = bad
     /\ UNCHANGED <<printCounter, palette, requested, printing>>
\* Mutant: PRINT does not ask for the empty DATA that ends the image, nor whether it is busy.
ExecutePrintAlways ==
  /\ packetError' = FALSE
  /\ IF packet[1] = 0 THEN UNCHANGED <<printCounter, palette>>
                      ELSE printCounter' = 1 /\ palette' = packet[3]
  /\ UNCHANGED <<image, emptyDataReceived, ready, requested, printing>>
\* PRINT of one sheet asks for a file; of none, it only feeds the paper.
ExecutePrint ==
  LET sheets == packet[1]
      bad == sheets # 1 \/ image = << >> \/ ~emptyDataReceived \/ printCounter # 0
  IN /\ packetError' = (sheets # 0 /\ bad)
     /\ IF sheets = 0 \/ bad THEN UNCHANGED <<printCounter, palette>>
                             ELSE printCounter' = 1 /\ palette' = packet[3]
     /\ UNCHANGED <<image, emptyDataReceived, ready, requested, printing>>

ExecutePacket ==
  LET wrong == checksum # expectedChecksum
      invalid == packetInvalid \/ compression > 1
      same == UNCHANGED <<image, emptyDataReceived, ready, requested, printing, printCounter, palette>>
      size == packetSize
  IN IF wrong THEN checksumError' = TRUE /\ UNCHANGED packetError /\ same
     ELSE IF ~invalid /\ command = 1 /\ size = 0 THEN ClearImage /\ UNCHANGED palette
     ELSE /\ checksumError' = FALSE
          /\ \/ ~invalid /\ command = 4 /\ ExecuteData
             \/ ~invalid /\ command = 2 /\ size = 4 /\ ExecutePrint
             \/ ~invalid /\ command = 15 /\ size = 0 /\ packetError' = FALSE /\ same
             \/ /\ \/ invalid
                   \/ command \notin {2, 4, 15}
                   \/ command = 2 /\ size # 4
                   \/ command = 15 /\ size # 0
                /\ packetError' = TRUE /\ same

\* sendGbPrinterByte, without the answer, which is 81 in phase 9 and the status in phase 10.
Header == /\ packetIdleFrames' = 0 /\ UNCHANGED <<image, status, emptyDataReceived, printCounter, palette>>
Send(value) ==
  \/ /\ packetPhase = 0 /\ Header /\ packetPhase' = IF value = \h88 THEN 1 ELSE 0
     /\ UNCHANGED <<packet, command, compression, packetSize, checksum, expectedChecksum, packetInvalid>>
  \/ /\ packetPhase = 1 /\ Header
     /\ packetPhase' = CASE value = \h33 -> 2 [] value = \h88 -> 1 [] OTHER -> 0
     /\ UNCHANGED <<packet, command, compression, packetSize, checksum, expectedChecksum, packetInvalid>>
  \/ /\ packetPhase = 2 /\ Header /\ packetPhase' = 3 /\ command' = value /\ checksum' = value
     /\ UNCHANGED <<packet, compression, packetSize, expectedChecksum, packetInvalid>>
  \/ /\ packetPhase \in 3..5 /\ Header /\ checksum' = (checksum + value) % 65536
     /\ compression' = IF packetPhase = 3 THEN value ELSE compression
     /\ packetSize' = CASE packetPhase = 3 -> packetSize [] packetPhase = 4 -> value
                        [] packetPhase = 5 -> packetSize + (256 * value)
     /\ packetInvalid' = IF packetPhase = 5 THEN packetSize' > MaxPacket ELSE packetInvalid
     /\ packet' = IF packetPhase = 5 THEN << >> ELSE packet
     /\ packetPhase' = IF packetPhase = 5 /\ packetSize' = 0 THEN 7 ELSE packetPhase + 1
     /\ UNCHANGED <<command, expectedChecksum>>
  \/ /\ packetPhase = 6 /\ Header /\ checksum' = (checksum + value) % 65536
     /\ packet' = Append(packet, value)
     /\ packetPhase' = IF Len(packet') = packetSize THEN 7 ELSE 6
     /\ UNCHANGED <<command, compression, packetSize, expectedChecksum, packetInvalid>>
  \/ /\ packetPhase \in 7..9 /\ Header
     /\ expectedChecksum' = CASE packetPhase = 7 -> value [] packetPhase = 8 -> expectedChecksum + (256 * value)
                              [] packetPhase = 9 -> expectedChecksum
     /\ packetPhase' = packetPhase + 1
     /\ UNCHANGED <<packet, command, compression, packetSize, checksum, packetInvalid>>
  \/ packetPhase = 10 /\ ExecutePacket /\ ClearPacket

\* saveImage: the first free number from nextNumber on, and the file if its temporary can be made.
FirstFree == {n \in Numbers : n >= nextNumber /\ n \notin DOMAIN disk
                              /\ \A m \in Numbers : nextNumber <= m /\ m < n => m \in DOMAIN disk}
Rows == ((Len(image) + RowBytes - 1) \div RowBytes)
PrintedHeight == ((Rows + RowAlign - 1) \div RowAlign) * RowAlign
Saved(n, cardWorks) == n \notin temporary /\ PrintedHeight > 0 /\ cardWorks

\* updateGbPrinter, once per VBlank of the guest.
Timeout == packetPhase # 0 /\ packetIdleFrames + 1 >= IdleFrames
\* Mutant: a packet given up is never dropped.
UpdatePacketNever == /\ packetIdleFrames' = packetIdleFrames
                     /\ UNCHANGED <<packet, packetPhase, command, compression, packetSize, checksum,
                                    expectedChecksum, packetInvalid>>
UpdatePacket == IF Timeout THEN ClearPacket
                ELSE /\ packetIdleFrames' = packetIdleFrames + (IF packetPhase # 0 THEN 1 ELSE 0)
                     /\ UNCHANGED <<packet, packetPhase, command, compression, packetSize, checksum,
                                    expectedChecksum, packetInvalid>>
PrintDone == printCounter = 1 /\ printing
WriteFile(cardWorks) ==
  /\ printCounter = 1 /\ ~printing
  /\ nextNumber' = IF FirstFree = {} THEN Cardinality(Numbers) ELSE CHOOSE n \in FirstFree : TRUE
  /\ order' = << >>
  /\ IF \E n \in FirstFree : Saved(n, cardWorks)
       THEN /\ disk' = [n \in DOMAIN disk \cup FirstFree |-> IF n \in FirstFree THEN image ELSE disk[n]]
            /\ image' = << >> /\ want' = << >> /\ emptyDataReceived' = FALSE
            /\ ready' = FALSE /\ packetError' = FALSE /\ requested' = TRUE /\ printing' = TRUE
            /\ printCounter' = PrintedHeight
       ELSE /\ printCounter' = 0
            /\ UNCHANGED <<disk, image, want, emptyDataReceived, ready, packetError, requested, printing>>
UpdateGbPrinter ==
  /\ UpdatePacket
  /\ quiet' = IF quiet = IdleFrames THEN quiet ELSE quiet + 1
  /\ intact' = (intact /\ (wire = << >> \/ Starts \/ quiet' < IdleFrames))
  /\ owed' = IF quiet' = IdleFrames THEN << >> ELSE owed
  /\ \/ /\ printCounter # 1 \/ printing
        /\ printCounter' = IF printCounter = 0 THEN 0 ELSE printCounter - 1
        /\ printing' = (printing /\ ~PrintDone)
        /\ UNCHANGED <<image, emptyDataReceived, ready, requested, packetError, nextNumber, disk, want, order>>
     \/ \E cardWorks \in BOOLEAN : WriteFile(cardWorks)
  /\ UNCHANGED <<checksumError, palette, temporary, wire, sending, fresh, faults, packets>>

(***************************************************************************)
(* The game, the cable and the card.                                       *)
(***************************************************************************)
Begin == /\ wire = << >> /\ packets # << >> /\ packets' = Tail(packets)
         /\ sending' = Head(packets) /\ wire' = Encoded(sending')
         /\ UNCHANGED <<image, packetVars, status, emptyDataReceived, printCounter, nextNumber, palette,
                        disk, temporary, fresh, intact, quiet, owed, want, order, faults>>

\* What a printer that takes only intact packets holds once the answers to p have been clocked out.
Takes(p) == IF p.command = 4 /\ printCounter = 0 /\ Len(want) + Len(p.plain) <= MaxImage THEN want \o p.plain
            ELSE IF p.command = 1 THEN << >> ELSE want
Ordered(p) == IF p.command = 1 THEN << >>
              ELSE IF p.command = 2 /\ p.data[1] = 1 /\ printCounter = 0 /\ emptyDataReceived THEN want
              ELSE order
Reaches(value) == /\ Send(value) /\ wire' = Tail(wire) /\ quiet' = 0
                  /\ want' = IF packetPhase = 10 /\ owed # << >> THEN Takes(owed[1]) ELSE want
                  /\ order' = IF packetPhase = 10 /\ owed # << >> THEN Ordered(owed[1]) ELSE order
                  /\ owed' = IF packetPhase = 10 THEN << >>
                             ELSE IF intact' /\ Len(wire') = 2 THEN <<sending>> ELSE owed
                  /\ fresh' = IF Starts THEN Fresh ELSE fresh
                  /\ UNCHANGED <<nextNumber, disk, temporary, sending, packets>>
Arrives == /\ wire # << >> /\ UNCHANGED faults
           /\ intact' = IF Starts THEN packetPhase \in {0, 1} ELSE intact
           /\ Reaches(Head(wire))
\* The last two bytes only clock the answers out: their value does not count.
Changed == /\ wire # << >> /\ faults > 0 /\ faults' = faults - 1
           /\ intact' = (intact /\ Len(wire) <= 2)
           /\ Reaches((Head(wire) + 1) % 256)
\* One byte is lost, or all the rest (before one that is equal, the loss would not show here).
Dropped == /\ wire # << >> /\ faults > 0 /\ faults' = faults - 1
        /\ wire' \in {<< >>} \cup {Tail(w) : w \in {w \in {wire} : Len(w) > 1 /\ w[1] # w[2]}}
        /\ intact' = FALSE
        /\ UNCHANGED <<image, packetVars, status, emptyDataReceived, printCounter, nextNumber, palette,
                       disk, temporary, sending, fresh, quiet, owed, want, order, packets>>
\* The console is switched off while saveImage writes, or at another time, and on again: initGbPrinter.
PowerCycle == /\ faults > 0 /\ faults' = faults - 1
              /\ \/ UNCHANGED temporary
                 \/ printCounter = 1 /\ ~printing /\ temporary' = temporary \cup FirstFree
              /\ ClearImage /\ ClearPacket /\ nextNumber' = 0 /\ palette' = \hE4
              /\ wire' = << >> /\ want' = << >> /\ order' = << >> /\ fresh' = TRUE /\ intact' = TRUE /\ quiet' = 0 /\ owed' = << >>
              /\ UNCHANGED <<disk, sending, packets>>

PrinterNext == Begin \/ Arrives \/ Changed \/ Dropped \/ UpdateGbPrinter \/ PowerCycle
PrinterSpec == PrinterInit /\ [][PrinterNext]_printerVars

(***************************************************************************)
(* Properties.                                                             *)
(***************************************************************************)
\* The fields have their ranges, and the status byte tells the truth about the rest: READY stands
\* for an image, PRINTING for a printer whose paper moves and that holds no image.
PrinterTypeOK == /\ packetPhase \in 0..10 /\ packetIdleFrames \in 0..(IdleFrames - 1)
                 /\ Len(image) <= MaxImage /\ printCounter \in 0..(MaxImage + RowAlign)
                 /\ ready = (image # << >>)
                 /\ printing => printCounter > 0 /\ image = << >>
                 /\ nextNumber \in 0..Cardinality(Numbers)
\* A packet that starts after the game was silent for six VBlanks, or after a whole one, is read
\* from its first byte on: nothing a broken packet left behind swallows it.
InStep == wire # << >> => IF Starts THEN Fresh => packetPhase = 0 ELSE fresh /\ intact => packetPhase # 0

(* The printer finds its place again after a broken packet, and its status   *)
(* tells the truth about its image and its paper (gbprinter.cpp:342-348,     *)
(* 211, 356-361).                                                            *)
PrinterInStep == PrinterTypeOK /\ InStep

\* Whatever bytes are lost, changed or late, the printer holds exactly the data of the packets that
\* arrived intact: a packet counts whole or not at all (executePacket, gbprinter.cpp:139-209).
HoldsWhatArrived == image = want
AppearsAsOrdered ==
  /\ \A n \in DOMAIN disk : n \in DOMAIN disk' /\ disk'[n] = disk[n]
  /\ disk' # disk => /\ order # << >>
                     /\ \E n \in Numbers \ DOMAIN disk : DOMAIN disk' = DOMAIN disk \cup {n} /\ disk'[n] = order
(* The printer holds the data of the packets that arrived intact, and a file *)
(* that appears is the image the game ordered, all of it: no file that was   *)
(* there is changed, a refused PRINT is not written and a written one not    *)
(* written again (executePacket, saveImage).                                 *)
FilesAreOrders == []HoldsWhatArrived /\ [][AppearsAsOrdered]_printerVars
================================================================================
