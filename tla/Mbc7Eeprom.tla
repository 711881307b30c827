------------------------------ MODULE Mbc7Eeprom ------------------------------
(***************************************************************************)
(* The serial EEPROM of the MBC7 cartridge (mbc7_eeprom.cpp).  The game    *)
(* drives four pins, one write each; the chip counts clock edges while it  *)
(* is selected.  The game here sends whole commands, drops the select line *)
(* at any bit, wiggles the clock while it is unselected, and a save state  *)
(* may be saved and loaded between any two writes.  Storage has Words      *)
(* words: an address beyond them reads FFFF and writes nothing.            *)
(***************************************************************************)
EXTENDS Integers, Sequences

CONSTANTS Words,        \* number of words of the storage
          Commands,     \* bit sequences a game sends: a start bit and what follows
          MaxCommands

VARIABLES phase, shift, output, bitCount, address,
          writeEnabled, chipSelected, clockHigh, dataOut, dataIn, modified,
          storage,      \* externRam as words
          command,      \* the bits the game is sending
          sent,         \* how many of them it has clocked in since it selected the chip
          read,         \* the bits it saw on dataOut
          promise,      \* what a chip given the commands clocked in to the end would hold
          left,         \* commands it may still begin
          state         \* the save state, with what the game had sent by then
pins == <<phase, shift, output, bitCount, address, writeEnabled, chipSelected, clockHigh, dataOut, dataIn>>
game == <<command, sent, read, promise>>
eepromVars == <<pins, modified, storage, game, left, state>>

NumberOf(bits) ==
  LET upto[i \in 0..Len(bits)] == IF i = 0 THEN 0 ELSE 2 * upto[i - 1] + bits[i]
  IN upto[Len(bits)]
Word(addr) == IF addr < Words THEN storage[addr] ELSE \hFFFF

EepromInit == /\ phase = "COMMAND" /\ shift = 0 /\ output = 0 /\ bitCount = 0 /\ address = 0
        /\ writeEnabled = FALSE /\ chipSelected = FALSE /\ clockHigh = FALSE /\ modified = FALSE
        /\ dataOut = TRUE /\ dataIn = FALSE
        /\ storage = [w \in 0..(Words - 1) |-> w]
        /\ command = << >> /\ sent = 0 /\ read = << >>
        /\ promise = [enabled |-> FALSE, words |-> storage]
        /\ left = MaxCommands
        /\ state = << >>

\* beginCommand, when its first bit comes at once with that.
BeginCommand(bit) == phase' = "COMMAND" /\ shift' = bit /\ bitCount' = bit /\ dataOut' = TRUE
\* Mutant: an erase does not ask whether writes are enabled.
EraseAlways(words) == /\ storage' = [w \in 0..(Words - 1) |-> IF w \in words THEN \hFFFF ELSE storage[w]]
                      /\ modified' = TRUE
Erase(words) == /\ storage' = [w \in 0..(Words - 1) |-> IF w \in words /\ writeEnabled THEN \hFFFF ELSE storage[w]]
                /\ modified' = (modified \/ (writeEnabled /\ words \cap 0..(Words - 1) # {}))

\* decodeCommand of the eleven bits that `code` is.
DecodeCommand(code) ==
  LET operation == (code \div 256) % 4
      special == (code \div 64) % 4
      at == code % 128
  IN /\ address' = at
     /\ \/ /\ operation = 2
           /\ output' = Word(at) /\ phase' = "READ_DATA" /\ shift' = 0 /\ bitCount' = 0
           /\ UNCHANGED <<dataOut, writeEnabled, storage, modified>>
        \/ /\ operation = 1 \/ (operation = 0 /\ special = 1)
           /\ phase' = IF operation = 1 THEN "WRITE_DATA" ELSE "WRITE_ALL_DATA"
           /\ shift' = 0 /\ bitCount' = 0
           /\ UNCHANGED <<output, dataOut, writeEnabled, storage, modified>>
        \/ /\ operation = 3 \/ (operation = 0 /\ special = 2)
           /\ Erase(IF operation = 3 THEN {at} ELSE 0..127)
           /\ BeginCommand(0)
           /\ UNCHANGED <<output, writeEnabled>>
        \/ /\ operation = 0 /\ special \in {0, 3}
           /\ writeEnabled' = (special = 3)
           /\ BeginCommand(0)
           /\ UNCHANGED <<output, storage, modified>>

\* The sixteenth bit of a write stores the word, or all words, if it may.
Store(v) ==
  LET words == IF phase = "WRITE_DATA" THEN {address} ELSE 0..127
  IN /\ storage' = [w \in 0..(Words - 1) |-> IF w \in words /\ writeEnabled THEN v ELSE storage[w]]
     /\ modified' = (modified \/ (writeEnabled /\ words \cap 0..(Words - 1) # {}))
     /\ BeginCommand(0)
     /\ UNCHANGED <<output, address, writeEnabled>>

ClockBit(bit) ==
  LET word == (2 * shift + bit) % 65536
  IN \/ /\ phase = "READ_DATA"
        /\ dataOut' = (output >= 32768)
        /\ output' = (2 * output) % 65536
        /\ IF bitCount = 15 THEN phase' = "COMMAND" /\ shift' = 0 /\ bitCount' = 0
           ELSE bitCount' = bitCount + 1 /\ UNCHANGED <<phase, shift>>
        /\ UNCHANGED <<address, writeEnabled, storage, modified>>
     \/ /\ phase = "COMMAND" /\ bitCount = 0 /\ bit = 0       \* no start bit yet
        /\ dataOut' = TRUE
        /\ UNCHANGED <<phase, shift, output, bitCount, address, writeEnabled, storage, modified>>
     \/ phase = "COMMAND" /\ bitCount = 10 /\ DecodeCommand(word)
     \/ phase \in {"WRITE_DATA", "WRITE_ALL_DATA"} /\ bitCount = 15 /\ Store(word)
     \/ /\ \/ phase = "COMMAND" /\ (bitCount > 0 \/ bit = 1) /\ bitCount < 10
           \/ phase \in {"WRITE_DATA", "WRITE_ALL_DATA"} /\ bitCount < 15
        /\ shift' = word /\ bitCount' = bitCount + 1
        /\ UNCHANGED <<phase, output, address, writeEnabled, dataOut, storage, modified>>

Still == UNCHANGED <<phase, shift, output, bitCount, address, writeEnabled, dataOut, storage, modified>>

\* writePins: the select line, then a rising clock edge while it is high.  The
\* first select of a command begins it anew, and so does the last release.
WritePins(select, clock, in) ==
  /\ dataIn' = (in = 1) /\ clockHigh' = clock /\ chipSelected' = select
  /\ IF ~select
     THEN IF chipSelected
          THEN BeginCommand(0) /\ UNCHANGED <<output, address, writeEnabled, storage, modified>>
          ELSE Still
     ELSE IF ~chipSelected
     THEN /\ BeginCommand(IF ~clockHigh /\ clock THEN in ELSE 0)
          /\ UNCHANGED <<output, address, writeEnabled, storage, modified>>
     ELSE IF ~clockHigh /\ clock THEN ClockBit(in)
     ELSE Still
-----------------------------------------------------------------------------
(* What a chip that is given whole commands holds, by the commands: a zero   *)
(* may come before the start bit; two bits say what to do, seven where, and  *)
(* sixteen bits of data follow some.                                         *)

Started(c) == IF c[1] = 0 THEN Tail(c) ELSE c
Reads(c) == c[2] = 1 /\ c[3] = 0
Writes(c) == c[2] = 0 /\ c[3] = 1
WritesAll(c) == c[2] = 0 /\ c[3] = 0 /\ c[4] = 0 /\ c[5] = 1
At(c) == NumberOf(SubSeq(c, 5, 11))
Data(c) == NumberOf(SubSeq(c, 12, 27))
IsCommand(c) == /\ c[1] = 1
                /\ Len(c) = IF Reads(c) \/ Writes(c) \/ WritesAll(c) THEN 27 ELSE 11
SendsCommand(c) == c \in Seq({0, 1}) \ {<< >>} /\ IsCommand(Started(c))
\* The address has seven bits, and a game sends whole commands unless it lets go of the chip.
ASSUME EepromAssumption == Words \in 1..128 /\ \A c \in Commands : SendsCommand(c)

Obey(p, sends) ==
  LET c == Started(sends)
      Stores(words) == IF p.enabled THEN [p EXCEPT !.words = words] ELSE p
      All(v) == [w \in 0..(Words - 1) |-> v]
      Only(v) == [w \in 0..(Words - 1) |-> IF w = At(c) THEN v ELSE p.words[w]]
  IN CASE Reads(c) -> p
       [] Writes(c) -> Stores(Only(Data(c)))
       [] c[2] = 1 /\ c[3] = 1 -> Stores(Only(\hFFFF))
       [] WritesAll(c) -> Stores(All(Data(c)))
       [] c[2] = 0 /\ c[3] = 0 /\ c[4] = 1 /\ c[5] = 0 -> Stores(All(\hFFFF))
       [] c[2] = 0 /\ c[3] = 0 /\ c[4] = c[5] -> [p EXCEPT !.enabled = (c[4] = 1)]
-----------------------------------------------------------------------------
(* The game: it selects the chip with the clock low or with the first edge,  *)
(* gives every bit a low and a high clock, and may let go of the chip        *)
(* whenever it likes.                                                        *)

Sending == command # << >>
Rest == sent >= Len(command)
Select(c, edge) == /\ ~chipSelected /\ left > 0
                   /\ edge => ~clockHigh
                   /\ WritePins(TRUE, edge, IF edge THEN c[1] ELSE 0)
                   /\ command' = c /\ sent' = IF edge THEN 1 ELSE 0
                   /\ read' = << >> /\ left' = left - 1
                   /\ UNCHANGED <<promise, state>>
\* The low half of a bit, and its high half; behind a command's bits come zeros.
BitLow == /\ chipSelected /\ clockHigh
          /\ WritePins(TRUE, FALSE, IF Rest THEN 0 ELSE command[sent + 1])
          /\ UNCHANGED <<game, left, state>>
BitHigh == /\ chipSelected /\ ~clockHigh /\ ~Rest
           /\ WritePins(TRUE, TRUE, command[sent + 1])
           /\ sent' = sent + 1
           /\ read' = IF phase = "READ_DATA" THEN Append(read, IF dataOut' THEN 1 ELSE 0) ELSE read
           /\ promise' = IF sent' = Len(command) THEN Obey(promise, command) ELSE promise
           /\ UNCHANGED <<command, left, state>>
Release == /\ chipSelected
           /\ \E clock \in BOOLEAN : WritePins(FALSE, clock, 0)
           /\ command' = << >> /\ sent' = 0
           /\ UNCHANGED <<read, promise, left, state>>
Glitch == /\ ~chipSelected
          /\ WritePins(FALSE, ~clockHigh, 1)
          /\ UNCHANGED <<game, left, state>>

\* consumeModified marks the save file's sector; save and load of a state.
ConsumeModified == modified /\ modified' = FALSE /\ UNCHANGED <<pins, storage, game, left, state>>
\* A bound: a state is saved in the last command, where a write may be at stake.
Save == /\ state = << >> /\ left = 0 /\ Sending /\ promise.enabled
        /\ state' = <<pins, storage, game>>
        /\ UNCHANGED <<pins, modified, storage, game, left>>
Load == /\ state # << >>
        /\ LET p == state[1]
               g == state[3]
           IN /\ phase' = p[1] /\ shift' = p[2] /\ output' = p[3] /\ bitCount' = p[4] /\ address' = p[5]
              /\ writeEnabled' = p[6] /\ chipSelected' = p[7] /\ clockHigh' = p[8]
              /\ dataOut' = p[9] /\ dataIn' = p[10]
              /\ command' = g[1] /\ sent' = g[2] /\ read' = g[3] /\ promise' = g[4]
        /\ storage' = state[2]
        /\ modified' = FALSE /\ state' = << >> /\ UNCHANGED left
EepromNext == \/ \E c \in Commands, edge \in BOOLEAN : Select(c, edge)
        \/ BitLow \/ BitHigh \/ Release \/ Glitch \/ ConsumeModified \/ Save \/ Load
EepromSpec == EepromInit /\ [][EepromNext]_eepromVars
-----------------------------------------------------------------------------
WordRange == 0..65535
EepromTypeOK == /\ phase \in {"COMMAND", "READ_DATA", "WRITE_DATA", "WRITE_ALL_DATA"}
                /\ shift \in WordRange /\ output \in WordRange
                /\ bitCount \in 0..15 /\ address \in 0..127

(* The storage holds what the commands clocked in to the end wrote, in their *)
(* order and only while writes were enabled; one that the game let go of     *)
(* midway, a clock edge of an unselected chip and a state saved and loaded   *)
(* at any bit leave no trace, and a read gives the word its address names    *)
(* (mbc7_eeprom.cpp:41-125, 151-175).                                        *)
EepromHoldsWrites ==
  /\ EepromTypeOK
  /\ storage = promise.words
  /\ Sending /\ Rest /\ Reads(Started(command)) =>
       NumberOf(read) = Word(At(Started(command)))
=============================================================================
