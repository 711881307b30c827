------------------------------ MODULE SgbHostPpu ------------------------------
(***************************************************************************)
(* The picture side of the Super Game Boy's host (SgbHostPpu in            *)
(* sgb_host.cpp): three memories behind data ports whose address moves on  *)
(* with every access, character data, and the prototype objects.           *)
(***************************************************************************)
EXTENDS Integers, Sequences, FiniteSets, TLC

CONSTANTS Starts,       \* low and high address bytes that streams start at
          MaxAccesses   \* bytes in a stream

VARIABLES ppu,      \* vram, cgram, oam, the three addresses and objectEnabled
          stream    \* the accesses so far: port, start, bytes written, bytes read
vars == <<ppu, stream>>

Ports == {"vram", "cgram", "oam"}
At(f, a) == IF a \in DOMAIN f THEN f[a] ELSE 0
\* Where the next access of a port goes.
Cell(s, port) == CASE port = "vram" -> s.address.vram
                   [] port = "cgram" -> s.address.cgram % 512
                   [] port = "oam" -> s.address.oam % 544

Init == /\ ppu = [vram |-> << >>, cgram |-> << >>, oam |-> << >>,
                  address |-> [p \in Ports |-> 0], objectEnabled |-> FALSE]
        /\ stream = [port |-> "none", from |-> <<0, 0>>, written |-> << >>, read |-> << >>]

\* 0x2102, 0x2116 and 0x2121; 0x2103 and 0x2117.
SetLow(s, port, v) ==
  [s EXCEPT !.address[port] = CASE port = "vram" -> 256 * (@ \div 256) + v
                                [] port = "cgram" -> 2 * v
                                [] port = "oam" -> 256 * ((@ \div 256) % 2) + v]
SetHigh(s, port, v) ==
  [s EXCEPT !.address[port] = CASE port = "vram" -> 256 * v + (@ % 256)
                                [] port = "cgram" -> @
                                [] port = "oam" -> 256 * (v % 2) + (@ % 256)]
SetAddress(s, port, from) == SetHigh(SetLow(s, port, from[1]), port, from[2])
Moved(s, port) == [s EXCEPT !.address[port] = (@ + 1) % 65536]

\* 0x2118, 0x2119, 0x2122 and 0x2104; 0x2139, 0x213b and 0x2138.
WriteUnwrapped(s, port, v) ==     \* a mutant
  [Moved(s, port) EXCEPT ![port] = (s.address[port] :> v) @@ @]
WriteRegister(s, port, v) == [Moved(s, port) EXCEPT ![port] = (Cell(s, port) :> v) @@ @]
ReadRegister(s, port) == At(s[port], Cell(s, port))

Begin(port, from) ==
  /\ stream.port = "none" /\ ppu.vram = << >> /\ ppu.oam = << >>
  /\ ppu' = SetAddress(ppu, port, from)
  /\ stream' = [stream EXCEPT !.port = port, !.from = from]
\* The n-th byte of a stream is n.
Write ==
  /\ stream.port # "none" /\ stream.read = << >> /\ Len(stream.written) < MaxAccesses
  /\ ppu' = WriteRegister(ppu, stream.port, Len(stream.written) + 1)
  /\ stream' = [stream EXCEPT !.written = Append(@, Len(stream.written) + 1)]
\* The first read sets the address again.
Read ==
  /\ stream.port # "none" /\ Len(stream.read) < Len(stream.written)
  /\ LET s == IF stream.read = << >> THEN SetAddress(ppu, stream.port, stream.from) ELSE ppu
     IN /\ ppu' = Moved(s, stream.port)
        /\ stream' = [stream EXCEPT !.read = Append(@, ReadRegister(s, stream.port))]

\* loadCharacterData and loadPrototypeObjects put whole blocks in place; one
\* byte stands for the 4096 of a block.
LoadCharacterData(v, destination) ==
  /\ stream.port = "none"
  /\ ppu' = [ppu EXCEPT !.vram = (4096 * (destination % 2) :> v) @@ @]
  /\ UNCHANGED stream
LoadPrototypeObjects(objects) ==
  /\ stream.port = "none"
  /\ ppu' = [ppu EXCEPT !.oam = objects @@ @, !.objectEnabled = TRUE]
  /\ UNCHANGED stream

Objects == {[a \in (4 * i)..(4 * i + 3) |-> <<10, 20, 0, attr>>[a - 4 * i + 1]] :
              i \in {0, 1}, attr \in {0, \hC0}}
Next == \/ \E port \in Ports, from \in Starts : Begin(port, from)
        \/ Write \/ Read
        \/ \E v \in {1, 128}, d \in {0, 1} : LoadCharacterData(v, d)
        \/ \E o \in Objects : LoadPrototypeObjects(o)
-----------------------------------------------------------------------------
(* objectPixel: the objects that cover a point, 8 by 8, the last one first.  *)
ObjectAt(s, i, x, y) ==
  LET left == At(s.oam, 4 * i) + 256 * ((At(s.oam, 96 + i \div 4) \div 4^(i % 4)) % 2)
  IN x - left \in 0..7 /\ y - At(s.oam, 4 * i + 1) \in 0..7
PixelUnflipped(s, i, x, y) ==     \* a mutant
  LET attr == At(s.oam, 4 * i + 3)
      px == x - At(s.oam, 4 * i)
      py == y - At(s.oam, 4 * i + 1)
      column == 7 - px
      row == 7 - py
      base == 32 * At(s.oam, 4 * i + 2) + 2 * row
      plane(k) == (At(s.vram, (base + k) % 65536) \div 2^column) % 2
  IN plane(0) + 2 * plane(1) + 4 * plane(16) + 8 * plane(17)
Pixel(s, i, x, y) ==
  LET attr == At(s.oam, 4 * i + 3)
      px == x - At(s.oam, 4 * i)
      py == y - At(s.oam, 4 * i + 1)
      column == IF (attr \div 64) % 2 = 1 THEN px ELSE 7 - px
      row == IF attr > 127 THEN 7 - py ELSE py
      base == 32 * At(s.oam, 4 * i + 2) + 2 * row
      plane(k) == (At(s.vram, (base + k) % 65536) \div 2^column) % 2
  IN plane(0) + 2 * plane(1) + 4 * plane(16) + 8 * plane(17)
ObjectPixel(s, x, y) ==
  LET hits == {i \in 0..23 : ObjectAt(s, i, x, y) /\ Pixel(s, i, x, y) # 0}
  IN IF ~s.objectEnabled \/ hits = {} THEN 0
     ELSE Pixel(s, CHOOSE i \in hits : \A j \in hits : j <= i, x, y)

TypeOK == /\ \A p \in Ports : ppu.address[p] \in 0..65535
          /\ DOMAIN ppu.vram \subseteq 0..65535 /\ DOMAIN ppu.cgram \subseteq 0..511
          /\ DOMAIN ppu.oam \subseteq 0..543

(* What a program streams into a port it reads back from the same address,   *)
(* over the end of each memory too: 64 KiB, 512 and 544 bytes, the last not  *)
(* a power of two (readRegister and writeRegister).                          *)
ReadsBack == stream.read = SubSeq(stream.written, 1, Len(stream.read))

(* A character with one dot, in a corner of its first row, shows that dot    *)
(* where the object stands, and in the opposite corner when it is flipped    *)
(* both ways, whatever other object covers it (objectPixel).                 *)
OneDot ==
  LET dots == {<<x, y>> \in (8..20) \X (18..30) : ObjectPixel(ppu, x, y) # 0}
      left == At(ppu.vram, 0) = 128
      shown == {i \in 0..23 : At(ppu.oam, 4 * i) = 10}
      flipped(i) == At(ppu.oam, 4 * i + 3) # 0
      drawn == stream.port = "none" /\ ppu.objectEnabled /\ At(ppu.vram, 0) # 0
  IN drawn => dots = {<<IF left # flipped(i) THEN 10 ELSE 17, IF flipped(i) THEN 27 ELSE 20>> : i \in shown}
=============================================================================
