---------------------------- MODULE NifiLockstep ----------------------------
(***************************************************************************)
(* The running half of the wireless link (platform/ds/arm9/source/nifi.cpp *)
(* and the main loop of platform/common/gbmanager.cpp): two consoles that  *)
(* each emulate both Game Boys and must feed both of them the same buttons *)
(* in the same frame.                                                      *)
(*                                                                         *)
(* Each console repeats mgr_runFrame and mgr_updateVBlank.  The second     *)
(* calls nifiUpdateInput, which samples the buttons, sends the last        *)
(* History samples with the frame they are for, and lets the next frame    *)
(* run only when the peer's buttons for it are in the receive ring.  The   *)
(* client's buttons are for Lag frames later than the frame that samples   *)
(* them.  Packets may be lost, duplicated and reordered: net holds every   *)
(* packet ever sent and a packet may be received at any time, or never.    *)
(***************************************************************************)
EXTENDS Integers, Sequences

CONSTANTS
    Host, Client,   \* the two consoles
    Buttons,        \* the values of the joypad byte
    Idle,           \* 0xff, no button held
    Lag,            \* CLIENT_FRAME_LAG
    Ring,           \* INPUT_BUFFER_SIZE
    GiveUp,         \* waiting calls before the link is dropped (120)
    RequestEvery,   \* a missing input is requested again every so many calls (10)
    HashEvery,      \* frames between two state hashes (60)
    MaxOpens,       \* bound: calls a console skips by opening its menu
    Players,        \* bound: the consoles whose user presses any key
    StartMenus,     \* how the menu the link is started from was opened
    MaxFrame        \* bound: frames a console runs in the model

Consoles == {Host, Client}
\* Mutant: one entry fewer in the history.
ShortHistory == Lag + 1
History == Lag + 2                    \* OLD_INPUTS_BUFFER_SIZE
Slots == 0 .. Ring - 1
HashSlots == 0 .. 3

ASSUME ConsoleAssumption == Host # Client
ASSUME ButtonsAssumption == Idle \in Buttons
ASSUME MenuAssumption == StartMenus \subseteq {"open", "paused"}
\* The code's sizes are 64 and 6.  A ring no longer than the history would let
\* the slot of the frame before last hold buttons that are still to come.
ASSUME SizeAssumption ==
    /\ Lag \in Nat \ {0}
    /\ Ring \in Nat /\ Ring > History
    /\ GiveUp \in Nat \ {0} /\ RequestEvery \in Nat \ {0}
    /\ HashEvery \in Nat \ {0}
    /\ MaxOpens \in Nat /\ MaxFrame \in Nat

VARIABLES
    frame,      \* mgr_frameCounter
    nifiFrame,  \* nifiFrameCounter, -1 before the first call
    oldInputs,  \* oldInputs[0 .. History-1], the samples each packet repeats
    sent,       \* sentInput and sentInputFrame, what a request is answered from
    recv,       \* receivedInput, receivedInputFrame and receivedInputReady
    waiting,    \* nifiConsecutiveWaitingFrames
    linked,     \* isHost or isClient
    paused,     \* emulationPaused
    wasPaused,  \* nifiWasPaused
    menu,       \* "closed", "open", or "paused": opened by the key that pauses
    hashes,     \* localStateHashes
    pad,        \* the controllers byte of each Game Boy on each console
    net,        \* every packet sent so far
    applied,    \* history: the buttons each frame was run with
    stalled,    \* history: the frames a console has waited in
    skips,      \* history: the calls a console has skipped by opening its menu
    desync      \* history: the frames a state hash mismatch was logged for

inputVars == <<nifiFrame, oldInputs, sent, recv, waiting, hashes, pad>>
pauseVars == <<linked, paused, wasPaused, menu>>
vars == <<frame, inputVars, pauseVars, net, applied, stalled, skips, desync>>

Other(c) == IF c = Host THEN Client ELSE Host
LagOf(c) == IF c = Client THEN Lag ELSE 0

\* The newest frame console c has sampled its buttons for.
Newest(c) == nifiFrame[c] + LagOf(c)

-----------------------------------------------------------------------------
(* Packets.                                                                *)

InputPacket(to, first, inputs) ==
    [cmd |-> "INPUT", to |-> to, first |-> first, inputs |-> inputs]
RequestPacket(to, f) == [cmd |-> "INPUT_REQUEST", to |-> to, frame |-> f]
HashPacket(to, f, h) ==
    [cmd |-> "STATE_HASH", to |-> to, frame |-> f, hash |-> h]

\* The frames an INPUT packet carries buttons for.
Tags(p) == {p.first + i : i \in DOMAIN p.inputs}
InputFor(p, f) == p.inputs[f - p.first]

-----------------------------------------------------------------------------
(* nifiStartLink leaves both consoles in frame 0 and in the menu the link  *)
(* was started from; the host already holds idle buttons for the frames    *)
(* the client cannot sample.                                               *)

EmptySlot == [ready |-> FALSE, frame |-> 0, input |-> Idle]
UnusedSent == [frame |-> -1, input |-> Idle]
ZeroHash == [frame |-> 0, hash |-> << <<>> >>]

StartRing(c) ==
    [s \in Slots |-> IF c = Host /\ s < Lag
                     THEN [ready |-> TRUE, frame |-> s, input |-> Idle]
                     ELSE EmptySlot]

Init ==
    /\ frame = [c \in Consoles |-> 0]
    /\ nifiFrame = [c \in Consoles |-> -1]
    /\ oldInputs = [c \in Consoles |-> [i \in 0 .. History - 1 |-> Idle]]
    /\ sent = [c \in Consoles |-> [s \in Slots |-> UnusedSent]]
    /\ recv = [c \in Consoles |-> StartRing(c)]
    /\ waiting = [c \in Consoles |-> 0]
    /\ linked = [c \in Consoles |-> TRUE]
    /\ menu \in [Consoles -> StartMenus]
    /\ paused = [c \in Consoles |-> menu[c] = "paused"]
    /\ wasPaused = [c \in Consoles |-> "unset"]
    /\ hashes = [c \in Consoles |-> [k \in HashSlots |-> ZeroHash]]
    /\ pad = [c \in Consoles |-> [g \in Consoles |-> Idle]]
    /\ net = {}
    /\ applied = [c \in Consoles |-> <<>>]
    /\ stalled = [c \in Consoles |-> {}]
    /\ skips = [c \in Consoles |-> 0]
    /\ desync = [c \in Consoles |-> {}]

-----------------------------------------------------------------------------
(* One turn of the main loop is mgr_updateVBlank and then mgr_runFrame,    *)
(* which runs a frame with the buttons in pad unless the emulation is      *)
(* paused.  They are one step: the packet interrupt touches nothing the    *)
(* emulated frame reads.                                                   *)

\* mgr_runFrame, after a call that leaves the pause state and pad as given.
RunFrame(c, isPaused, buttons) ==
    IF isPaused
    THEN UNCHANGED <<frame, applied>>
    ELSE /\ frame' = [frame EXCEPT ![c] = @ + 1]
         /\ applied' = [applied EXCEPT ![c] = Append(@, buttons)]

\* Opening the menu returns from mgr_updateVBlank before nifiUpdateInput.
OpenMenu(c, how) ==
    /\ linked[c]
    /\ frame[c] < MaxFrame
    /\ menu[c] = "closed"
    /\ skips[c] < MaxOpens
    /\ menu' = [menu EXCEPT ![c] = how]
    /\ paused' = [paused EXCEPT ![c] = @ \/ how = "paused"]
    /\ skips' = [skips EXCEPT ![c] = @ + 1]
    /\ RunFrame(c, paused'[c], pad[c])
    /\ UNCHANGED <<inputVars, linked, wasPaused, net, stalled, desync>>

FramePassed(c) == nifiFrame[c] # frame[c]

\* The receive ring once the slot of the frame before last is released.
Released(slot) ==
    [ready |-> FALSE, frame |-> slot.frame, input |-> slot.input]
ReleasedRing(c) ==
    IF FramePassed(c) /\ nifiFrame[c] > 0
    THEN [recv[c] EXCEPT ![(nifiFrame[c] - 1) % Ring] = Released(@)]
    ELSE recv[c]

Holds(slot, f) == slot.ready /\ slot.frame = f
PeerReady(c) == Holds(ReleasedRing(c)[frame[c] % Ring], frame[c])

ShiftedInputs(c, b) ==
    IF FramePassed(c)
    THEN [i \in 0 .. History - 1 |->
             IF i = History - 1 THEN b ELSE oldInputs[c][i + 1]]
    ELSE oldInputs[c]

\* Mutant: the client reads the history after it is shifted.
OwnInputAfterShift(c, b) ==
    IF c = Client THEN ShiftedInputs(c, b)[History - Lag] ELSE b

\* The client plays the buttons it sampled Lag frames ago, read before the
\* history is shifted; the host plays the buttons of this very call.
OwnInput(c, b) ==
    IF c = Client THEN oldInputs[c][History - Lag] ELSE b

HashDue(c) == FramePassed(c) /\ frame[c] % HashEvery = 0
StateHash(c) == applied[c]

InputHistory(c, b) ==
    LET newest == frame[c] + LagOf(c)
    IN  InputPacket(Other(c), newest - History + 1, ShiftedInputs(c, b))

\* What a call does whether or not the peer's buttons are there.
SampleAndSend(c, b, close) ==
    /\ linked[c]
    /\ frame[c] < MaxFrame
    /\ menu[c] # "closed" => b = Idle
    /\ close => menu[c] # "closed"
    /\ c \notin Players => b = Idle /\ ~close
    /\ menu' = [menu EXCEPT ![c] = IF close THEN "closed" ELSE @]
    /\ nifiFrame' = [nifiFrame EXCEPT ![c] = frame[c]]
    /\ recv' = [recv EXCEPT ![c] = ReleasedRing(c)]
    /\ oldInputs' = [oldInputs EXCEPT ![c] = ShiftedInputs(c, b)]
    /\ LET newest == frame[c] + LagOf(c)
       IN  sent' = [sent EXCEPT ![c][newest % Ring] =
                        [frame |-> newest, input |-> b]]
    /\ hashes' = IF HashDue(c)
                 THEN [hashes EXCEPT ![c][(frame[c] \div HashEvery) % 4] =
                          [frame |-> frame[c], hash |-> StateHash(c)]]
                 ELSE hashes
    /\ UNCHANGED <<skips, desync>>

HashPackets(c) ==
    IF HashDue(c) THEN {HashPacket(Other(c), frame[c], StateHash(c))} ELSE {}

\* Closing the menu resumes the emulation before nifiUpdateInput looks.
PausedInCall(c, close) == paused[c] /\ ~close

\* nifiUpdateInput, the peer's buttons for this frame are in the ring:
\* nifiUnpause restores the pause state nifiPause saved.
UpdateInputReady(c, b, close) ==
    /\ SampleAndSend(c, b, close)
    /\ PeerReady(c)
    /\ pad' = [pad EXCEPT ![c] = [g \in Consoles |->
                  IF g = c THEN OwnInput(c, b)
                  ELSE ReleasedRing(c)[frame[c] % Ring].input]]
    /\ paused' = [paused EXCEPT ![c] =
                     PausedInCall(c, close) /\ wasPaused[c] # "running"]
    /\ wasPaused' = [wasPaused EXCEPT ![c] = "unset"]
    /\ waiting' = [waiting EXCEPT ![c] = 0]
    /\ net' = net \cup {InputHistory(c, b)} \cup HashPackets(c)
    /\ RunFrame(c, paused'[c], pad'[c])
    /\ UNCHANGED <<linked, stalled>>

\* The pause state nifiPause saves: the one it finds unless one is saved.
SavedPause(c, close) ==
    IF wasPaused[c] # "unset" THEN wasPaused[c]
    ELSE IF PausedInCall(c, close) THEN "paused" ELSE "running"

RequestPackets(c) ==
    LET n == waiting[c] + 1
    IN  IF n = 1 \/ n % RequestEvery = 0
        THEN {RequestPacket(Other(c), frame[c])} ELSE {}

\* Mutant: the wait is not counted.
WaitNotCounted(c) == 1
NextWait(c) == waiting[c] + 1

\* Mutant: the call that waits once too often does not drop the link.
AlwaysWait(c) == TRUE
MayWait(c) == NextWait(c) < GiveUp

\* Mutant: a missing input is noticed but the emulation is not paused.
NotPaused(c) == paused[c]
\* nifiPause pauses whatever the pause state was.
PausedByWait(c) == TRUE

\* nifiUpdateInput, the peer's buttons are missing and the link holds.
UpdateInputMissing(c, b, close) ==
    /\ SampleAndSend(c, b, close)
    /\ ~PeerReady(c)
    /\ MayWait(c)
    /\ waiting' = [waiting EXCEPT ![c] = NextWait(c)]
    /\ net' = net \cup {InputHistory(c, b)} \cup HashPackets(c)
                  \cup RequestPackets(c)
    /\ wasPaused' = [wasPaused EXCEPT ![c] = SavedPause(c, close)]
    /\ paused' = [paused EXCEPT ![c] = PausedByWait(c)]
    /\ pad' = [pad EXCEPT ![c][c] = OwnInput(c, b)]
    /\ stalled' = [stalled EXCEPT ![c] = @ \cup {frame[c]}]
    /\ RunFrame(c, PausedByWait(c), pad'[c])
    /\ UNCHANGED linked

\* nifiUpdateInput, the peer's buttons are missing for the GiveUp-th time:
\* nifiStop detaches the handler and nifiUnpause restores the saved pause.
\* From here on the console is an ordinary one-player emulator.
GiveUpLink(c, b, close) ==
    /\ SampleAndSend(c, b, close)
    /\ ~PeerReady(c)
    /\ ~MayWait(c)
    /\ waiting' = [waiting EXCEPT ![c] = 0]
    /\ linked' = [linked EXCEPT ![c] = FALSE]
    /\ net' = net \cup {InputHistory(c, b)} \cup RequestPackets(c)
    /\ wasPaused' = [wasPaused EXCEPT ![c] = "unset"]
    /\ paused' = [paused EXCEPT ![c] = SavedPause(c, close) = "paused"]
    /\ pad' = [pad EXCEPT ![c][c] = b]
    /\ stalled' = [stalled EXCEPT ![c] = @ \cup {frame[c]}]
    /\ RunFrame(c, paused'[c], pad'[c])

-----------------------------------------------------------------------------
(* handlePacketCommand, called by the packet interrupt.                    *)

\* Mutant: frames already run are stored as well.
InWindowStale(c, f) == f < frame[c] + Ring

InWindow(c, f) == f >= frame[c] /\ f < frame[c] + Ring

ReceiveInput(c, p) ==
    /\ linked[c]
    /\ p.cmd = "INPUT" /\ p.to = c
    /\ LET fresh(s) == {f \in Tags(p) : /\ InWindow(c, f)
                                        /\ f % Ring = s
                                        /\ ~Holds(recv[c][s], f)}
       IN  recv' = [recv EXCEPT ![c] = [s \in Slots |->
               IF fresh(s) = {} THEN recv[c][s]
               ELSE LET f == CHOOSE g \in fresh(s) : TRUE
                    IN  [ready |-> TRUE, frame |-> f,
                         input |-> InputFor(p, f)]]]
    /\ UNCHANGED <<frame, nifiFrame, oldInputs, sent, waiting, hashes, pad,
                   pauseVars, net, applied, stalled, skips, desync>>

\* nifiSendInputFrame: answered only while the ring still has that frame.
ReceiveRequest(c, p) ==
    /\ linked[c]
    /\ p.cmd = "INPUT_REQUEST" /\ p.to = c
    /\ LET slot == sent[c][p.frame % Ring]
       IN  /\ slot.frame = p.frame
           /\ net' = net \cup {InputPacket(Other(c), p.frame,
                                           [i \in {0} |-> slot.input])}
    /\ UNCHANGED <<frame, inputVars, pauseVars, applied, stalled, skips, desync>>

ReceiveHash(c, p) ==
    /\ linked[c]
    /\ p.cmd = "STATE_HASH" /\ p.to = c
    /\ LET local == hashes[c][(p.frame \div HashEvery) % 4]
       IN  /\ local.frame = p.frame
           /\ local.hash # p.hash
    /\ desync' = [desync EXCEPT ![c] = @ \cup {p.frame}]
    /\ UNCHANGED <<frame, inputVars, pauseVars, net, applied, stalled, skips>>

-----------------------------------------------------------------------------
UpdateInput(c) ==
    \E b \in Buttons, close \in BOOLEAN :
        \/ UpdateInputReady(c, b, close)
        \/ UpdateInputMissing(c, b, close)
        \/ GiveUpLink(c, b, close)

OpenTheMenu(c) == \E how \in {"open", "paused"} : OpenMenu(c, how)

Receive(c) ==
    \E p \in net : ReceiveInput(c, p) \/ ReceiveRequest(c, p) \/ ReceiveHash(c, p)

Next == \E c \in Consoles : UpdateInput(c) \/ OpenTheMenu(c) \/ Receive(c)

\* Each console's main loop never stops; nothing is assumed of the radio.
Fairness == \A c \in Consoles : WF_vars(UpdateInput(c))

Spec == Init /\ [][Next]_vars
FairSpec == Spec /\ Fairness

-----------------------------------------------------------------------------
(* Properties.                                                             *)

\* Every variable keeps the type the code gives it.
TypeOK ==
    /\ frame \in [Consoles -> Nat]
    /\ nifiFrame \in [Consoles -> Nat \cup {-1}]
    /\ oldInputs \in [Consoles -> [0 .. History - 1 -> Buttons]]
    /\ sent \in [Consoles -> [Slots -> [frame : Nat \cup {-1}, input : Buttons]]]
    /\ recv \in [Consoles -> [Slots ->
                    [ready : BOOLEAN, frame : Nat, input : Buttons]]]
    /\ waiting \in [Consoles -> 0 .. GiveUp - 1]
    /\ linked \in [Consoles -> BOOLEAN]
    /\ paused \in [Consoles -> BOOLEAN]
    /\ wasPaused \in [Consoles -> {"unset", "running", "paused"}]
    /\ menu \in [Consoles -> {"closed", "open", "paused"}]
    /\ pad \in [Consoles -> [Consoles -> Buttons]]
    /\ applied \in [Consoles -> Seq([Consoles -> Buttons])]
    /\ stalled \in [Consoles -> SUBSET Nat]
    /\ skips \in [Consoles -> Nat]
    /\ desync \in [Consoles -> SUBSET Nat]

BothLinked == linked[Host] /\ linked[Client]
NeverSkipped == skips[Host] = 0 /\ skips[Client] = 0

\* While both are linked no console runs a frame its peer has not sampled yet,
\* but for one frame for each time opening the menu skipped nifiUpdateInput.
RanWithInput ==
    BothLinked =>
        \A c \in Consoles : frame[c] <= Newest(Other(c)) + 1 + skips[c]

\* No console outruns what its packets repeat: the frame the peer is in is
\* never older than the History frames the next packet carries (but for the
\* calls the menu skipped), so that any packet that gets through serves a peer
\* that has waited since the first one was lost.  Were the history one entry
\* shorter, or the lag counted twice, a lost packet could starve a console.
HistoryCovers ==
    BothLinked =>
        \A c \in Consoles :
            frame[c] >= Newest(Other(c)) - History + 1 - skips[Other(c)]

\* In every frame both consoles have run while linked, both gave each Game Boy
\* the same buttons, except in frames whose buttons were sampled again while
\* the console was waiting.
LockstepAgreement ==
    BothLinked /\ NeverSkipped =>
        \A i \in DOMAIN applied[Host] \cap DOMAIN applied[Client] :
            /\ i - 1 \notin stalled[Host] =>
                   applied[Host][i][Host] = applied[Client][i][Host]
            /\ i - 1 \notin stalled[Client] /\ i - 1 - Lag \notin stalled[Client] =>
                   applied[Host][i][Client] = applied[Client][i][Client]

\* Duplicate, late and out-of-order packets never replace buttons that are
\* still to be used, neither by another frame's nor by other buttons for it.
PendingInputKept ==
    [][NeverSkipped =>
       \A c \in Consoles, s \in Slots :
           recv[c][s].ready /\ recv[c][s].frame >= frame[c] =>
               recv'[c][s] = recv[c][s]]_vars

\* A console that waits for its peer either gets the buttons or drops the link.
WaitEnds == \A c \in Consoles : waiting[c] > 0 ~> waiting[c] = 0
=============================================================================
