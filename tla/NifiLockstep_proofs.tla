------------------------ MODULE NifiLockstep_proofs ------------------------
(***************************************************************************)
(* Proofs about the lockstep: for every lag, ring size, give-up limit and  *)
(* set of buttons, every variable keeps its type, no console runs a frame  *)
(* its peer has not sampled, and the input history a packet repeats always *)
(* covers the frame its receiver is in.  No packet, and no release of an   *)
(* old slot, touches buttons that are still to be used.  And the lockstep  *)
(* does what it is for: both consoles feed both Game Boys the same buttons *)
(* in the same frame.                                                      *)
(***************************************************************************)
EXTENDS NifiLockstep, TLAPS

-----------------------------------------------------------------------------
(* What is known of the packets in flight.                                 *)

PacketOK(p) ==
    /\ p.to \in Consoles
    /\ p.cmd = "INPUT" =>
          /\ p.first \in Int
          /\ DOMAIN p.inputs \subseteq Int
          /\ \A i \in DOMAIN p.inputs : p.inputs[i] \in Buttons
    /\ p.cmd = "INPUT_REQUEST" => p.frame \in Nat
    /\ p.cmd = "STATE_HASH" => p.frame \in Nat

NetOK == \A p \in net : PacketOK(p)

TypeInv == TypeOK /\ NetOK

\* An index into a ring of Ring slots is one of its slots.
LEMMA SlotIndex == ASSUME NEW n \in Int PROVE n % Ring \in Slots
  BY SizeAssumption DEF Slots, History

LEMMA OtherConsole ==
    ASSUME NEW c \in Consoles
    PROVE  /\ Other(c) \in Consoles
           /\ Other(c) # c
           /\ Other(Other(c)) = c
           /\ LagOf(c) \in Nat
           /\ LagOf(c) + LagOf(Other(c)) = Lag
  BY ConsoleAssumption, SizeAssumption DEF Other, Consoles, LagOf

LEMMA HistorySize ==
    /\ History \in Nat
    /\ History >= 3
    /\ History - 1 \in 0 .. History - 1
    /\ History - Lag \in 0 .. History - 1
  BY SizeAssumption DEF History

-----------------------------------------------------------------------------
(* Type correctness.                                                       *)

LEMMA InitTypeInv == Init => TypeInv
  <1> SUFFICES ASSUME Init PROVE TypeInv
    OBVIOUS
  <1>1. recv \in [Consoles -> [Slots ->
                    [ready : BOOLEAN, frame : Nat, input : Buttons]]]
    <2>1. \A c \in Consoles : StartRing(c) \in [Slots ->
                    [ready : BOOLEAN, frame : Nat, input : Buttons]]
      BY ButtonsAssumption, SizeAssumption DEF StartRing, EmptySlot, Slots
    <2> QED BY <2>1 DEF Init
  <1>2. /\ oldInputs \in [Consoles -> [0 .. History - 1 -> Buttons]]
        /\ sent \in [Consoles ->
                        [Slots -> [frame : Nat \cup {-1}, input : Buttons]]]
        /\ pad \in [Consoles -> [Consoles -> Buttons]]
        /\ applied \in [Consoles -> Seq([Consoles -> Buttons])]
    BY ButtonsAssumption DEF Init, UnusedSent
  <1>3. menu \in [Consoles -> {"closed", "open", "paused"}]
    BY MenuAssumption DEF Init
  <1>4. waiting \in [Consoles -> 0 .. GiveUp - 1]
    BY SizeAssumption DEF Init
  <1> QED BY <1>1, <1>2, <1>3, <1>4 DEF Init, TypeInv, TypeOK, NetOK

\* The ring keeps its type when the slot of an old frame is released.
LEMMA ReleasedRingType ==
    ASSUME TypeOK, NEW c \in Consoles
    PROVE  ReleasedRing(c) \in
               [Slots -> [ready : BOOLEAN, frame : Nat, input : Buttons]]
  <1> DEFINE Cell == [ready : BOOLEAN, frame : Nat, input : Buttons]
             i == (nifiFrame[c] - 1) % Ring
  <1>1. recv[c] \in [Slots -> Cell]
    BY DEF TypeOK
  <1>2. \A slot \in Cell : Released(slot) \in Cell
    BY DEF Released
  <1>3. [recv[c] EXCEPT ![i] = Released(@)] \in [Slots -> Cell]
    <2> HIDE DEF i, Cell
    <2> QED BY <1>1, <1>2
  <1>4. ReleasedRing(c) = recv[c]
           \/ ReleasedRing(c) = [recv[c] EXCEPT ![i] = Released(@)]
    BY DEF ReleasedRing
  <1> QED BY <1>1, <1>3, <1>4

LEMMA ShiftedInputsType ==
    ASSUME TypeOK, NEW c \in Consoles, NEW b \in Buttons
    PROVE  ShiftedInputs(c, b) \in [0 .. History - 1 -> Buttons]
  <1> DEFINE D == 0 .. History - 1
             shifted == [i \in D |-> IF i = History - 1 THEN b
                                     ELSE oldInputs[c][i + 1]]
  <1>1. oldInputs[c] \in [D -> Buttons]
    BY DEF TypeOK
  <1>2. \A i \in D : i # History - 1 => i + 1 \in D
    BY HistorySize
  <1>3. shifted \in [D -> Buttons]
    <2> HIDE DEF D
    <2> QED BY <1>1, <1>2
  <1> QED BY <1>1, <1>3 DEF ShiftedInputs

\* Every packet a call sends is well formed.
LEMMA SentPacketsOK ==
    ASSUME TypeOK, NEW c \in Consoles, NEW b \in Buttons
    PROVE  /\ PacketOK(InputHistory(c, b))
           /\ \A p \in HashPackets(c) : PacketOK(p)
           /\ \A p \in RequestPackets(c) : PacketOK(p)
  <1>1. frame[c] \in Nat /\ LagOf(c) \in Nat
    BY OtherConsole DEF TypeOK
  <1>2. PacketOK(InputHistory(c, b))
    <2> DEFINE shifted == ShiftedInputs(c, b)
               first == frame[c] + LagOf(c) - History + 1
               p == InputHistory(c, b)
    <2>1. shifted \in [0 .. History - 1 -> Buttons]
      BY ShiftedInputsType
    <2>2. first \in Int /\ 0 .. History - 1 \subseteq Int
      BY <1>1, HistorySize
    <2>3. p.cmd = "INPUT" /\ p.to = Other(c) /\ p.first = first /\ p.inputs = shifted
      BY <1>1, HistorySize DEF InputHistory, InputPacket
    <2> HIDE DEF shifted, first, p
    <2>4. DOMAIN shifted = 0 .. History - 1
         /\ \A i \in 0 .. History - 1 : shifted[i] \in Buttons
      BY <2>1
    <2>5. PacketOK(p)
      BY <2>2, <2>3, <2>4, OtherConsole DEF PacketOK
    <2> QED BY <2>5 DEF p
  <1>3. \A p \in HashPackets(c) : PacketOK(p)
    BY <1>1, OtherConsole DEF HashPackets, HashPacket, PacketOK
  <1>4. \A p \in RequestPackets(c) : PacketOK(p)
    BY <1>1, OtherConsole DEF RequestPackets, RequestPacket, PacketOK
  <1> QED BY <1>2, <1>3, <1>4

\* Running a frame or not keeps the types of what mgr_runFrame changes.
LEMMA RunFrameType ==
    ASSUME TypeOK, NEW c \in Consoles, NEW q, NEW buttons \in [Consoles -> Buttons],
           RunFrame(c, q, buttons)
    PROVE  /\ frame' \in [Consoles -> Nat]
           /\ applied' \in [Consoles -> Seq([Consoles -> Buttons])]
  <1>1. frame[c] + 1 \in Nat
    BY DEF TypeOK
  <1>2. Append(applied[c], buttons) \in Seq([Consoles -> Buttons])
    BY DEF TypeOK
  <1> QED BY <1>1, <1>2 DEF TypeOK, RunFrame

\* The part of a call that does not depend on the peer's buttons.
LEMMA SampleAndSendType ==
    ASSUME TypeOK, NEW c \in Consoles, NEW b \in Buttons, NEW close \in BOOLEAN,
           SampleAndSend(c, b, close)
    PROVE  /\ nifiFrame' \in [Consoles -> Nat \cup {-1}]
           /\ oldInputs' \in [Consoles -> [0 .. History - 1 -> Buttons]]
           /\ sent' \in [Consoles ->
                            [Slots -> [frame : Nat \cup {-1}, input : Buttons]]]
           /\ recv' \in [Consoles -> [Slots ->
                            [ready : BOOLEAN, frame : Nat, input : Buttons]]]
           /\ menu' \in [Consoles -> {"closed", "open", "paused"}]
           /\ skips' \in [Consoles -> Nat]
           /\ desync' \in [Consoles -> SUBSET Nat]
           /\ OwnInput(c, b) \in Buttons
  <1>1. frame[c] \in Nat /\ frame[c] + LagOf(c) \in Nat
    BY OtherConsole DEF TypeOK
  <1>2. sent' \in [Consoles ->
                      [Slots -> [frame : Nat \cup {-1}, input : Buttons]]]
    BY <1>1 DEF TypeOK, SampleAndSend
  <1>3. oldInputs' \in [Consoles -> [0 .. History - 1 -> Buttons]]
    BY ShiftedInputsType DEF TypeOK, SampleAndSend
  <1>4. recv' \in [Consoles -> [Slots ->
                      [ready : BOOLEAN, frame : Nat, input : Buttons]]]
    BY ReleasedRingType DEF TypeOK, SampleAndSend
  <1>5. menu' \in [Consoles -> {"closed", "open", "paused"}]
    BY DEF TypeOK, SampleAndSend
  <1>6. OwnInput(c, b) \in Buttons
    BY HistorySize DEF TypeOK, OwnInput
  <1> QED BY <1>1, <1>2, <1>3, <1>4, <1>5, <1>6 DEF TypeOK, SampleAndSend

LEMMA OpenMenuType ==
    ASSUME TypeInv, NEW c \in Consoles, NEW how \in {"open", "paused"},
           OpenMenu(c, how)
    PROVE  TypeInv'
  <1> USE DEF TypeInv
  <1>1. /\ frame' \in [Consoles -> Nat]
        /\ applied' \in [Consoles -> Seq([Consoles -> Buttons])]
    <2>1. pad[c] \in [Consoles -> Buttons]
      BY DEF TypeOK
    <2> QED BY <2>1, RunFrameType DEF OpenMenu
  <1>2. /\ menu' \in [Consoles -> {"closed", "open", "paused"}]
        /\ paused' \in [Consoles -> BOOLEAN]
        /\ skips' \in [Consoles -> Nat]
    BY DEF TypeOK, OpenMenu
  <1>3. UNCHANGED <<inputVars, linked, wasPaused, net, stalled, desync>>
    BY DEF OpenMenu
  <1> QED BY <1>1, <1>2, <1>3 DEF TypeOK, NetOK, inputVars

LEMMA UpdateInputReadyType ==
    ASSUME TypeInv, NEW c \in Consoles, NEW b \in Buttons, NEW close \in BOOLEAN,
           UpdateInputReady(c, b, close)
    PROVE  TypeInv'
  <1> USE DEF TypeInv
  <1>1. SampleAndSend(c, b, close)
    BY DEF UpdateInputReady
  <1>2. pad' \in [Consoles -> [Consoles -> Buttons]]
    <2>1. ReleasedRing(c)[frame[c] % Ring].input \in Buttons
      <3>1. frame[c] % Ring \in Slots
        BY SlotIndex DEF TypeOK
      <3> QED BY <3>1, ReleasedRingType
    <2>2. OwnInput(c, b) \in Buttons
      BY <1>1, SampleAndSendType
    <2> QED BY <2>1, <2>2 DEF TypeOK, UpdateInputReady
  <1>3. /\ frame' \in [Consoles -> Nat]
        /\ applied' \in [Consoles -> Seq([Consoles -> Buttons])]
    <2>1. pad'[c] \in [Consoles -> Buttons]
      BY <1>2
    <2> QED BY <2>1, RunFrameType DEF UpdateInputReady
  <1>4. /\ paused' \in [Consoles -> BOOLEAN]
        /\ wasPaused' \in [Consoles -> {"unset", "running", "paused"}]
        /\ waiting' \in [Consoles -> 0 .. GiveUp - 1]
    BY SizeAssumption DEF TypeOK, UpdateInputReady, PausedInCall
  <1>5. NetOK'
    BY SentPacketsOK DEF NetOK, UpdateInputReady, PacketOK
  <1>6. UNCHANGED <<linked, stalled>>
    BY DEF UpdateInputReady
  <1>7. /\ nifiFrame' \in [Consoles -> Nat \cup {-1}]
        /\ oldInputs' \in [Consoles -> [0 .. History - 1 -> Buttons]]
        /\ sent' \in [Consoles ->
                         [Slots -> [frame : Nat \cup {-1}, input : Buttons]]]
        /\ recv' \in [Consoles -> [Slots ->
                         [ready : BOOLEAN, frame : Nat, input : Buttons]]]
        /\ menu' \in [Consoles -> {"closed", "open", "paused"}]
        /\ skips' \in [Consoles -> Nat]
        /\ desync' \in [Consoles -> SUBSET Nat]
    BY <1>1, SampleAndSendType
  <1> QED BY <1>2, <1>3, <1>4, <1>5, <1>6, <1>7 DEF TypeOK

LEMMA UpdateInputMissingType ==
    ASSUME TypeInv, NEW c \in Consoles, NEW b \in Buttons, NEW close \in BOOLEAN,
           UpdateInputMissing(c, b, close)
    PROVE  TypeInv'
  <1> USE DEF TypeInv
  <1>1. SampleAndSend(c, b, close)
    BY DEF UpdateInputMissing
  <1>2. pad' \in [Consoles -> [Consoles -> Buttons]]
    BY <1>1, SampleAndSendType DEF TypeOK, UpdateInputMissing
  <1>3. UNCHANGED <<frame, applied, linked>>
    BY DEF UpdateInputMissing, PausedByWait, RunFrame
  <1>4. /\ paused' \in [Consoles -> BOOLEAN]
        /\ wasPaused' \in [Consoles -> {"unset", "running", "paused"}]
    BY DEF TypeOK, UpdateInputMissing, SavedPause, PausedByWait
  <1>5. /\ waiting' \in [Consoles -> 0 .. GiveUp - 1]
        /\ stalled' \in [Consoles -> SUBSET Nat]
    BY SizeAssumption DEF TypeOK, UpdateInputMissing, MayWait, NextWait
  <1>6. NetOK'
    BY SentPacketsOK DEF NetOK, UpdateInputMissing, PacketOK
  <1>7. /\ nifiFrame' \in [Consoles -> Nat \cup {-1}]
        /\ oldInputs' \in [Consoles -> [0 .. History - 1 -> Buttons]]
        /\ sent' \in [Consoles ->
                         [Slots -> [frame : Nat \cup {-1}, input : Buttons]]]
        /\ recv' \in [Consoles -> [Slots ->
                         [ready : BOOLEAN, frame : Nat, input : Buttons]]]
        /\ menu' \in [Consoles -> {"closed", "open", "paused"}]
        /\ skips' \in [Consoles -> Nat]
        /\ desync' \in [Consoles -> SUBSET Nat]
    BY <1>1, SampleAndSendType
  <1> QED BY <1>2, <1>3, <1>4, <1>5, <1>6, <1>7 DEF TypeOK

LEMMA GiveUpLinkType ==
    ASSUME TypeInv, NEW c \in Consoles, NEW b \in Buttons, NEW close \in BOOLEAN,
           GiveUpLink(c, b, close)
    PROVE  TypeInv'
  <1> USE DEF TypeInv
  <1>1. SampleAndSend(c, b, close)
    BY DEF GiveUpLink
  <1>2. pad' \in [Consoles -> [Consoles -> Buttons]]
    BY DEF TypeOK, GiveUpLink
  <1>3. /\ frame' \in [Consoles -> Nat]
        /\ applied' \in [Consoles -> Seq([Consoles -> Buttons])]
    <2>1. pad'[c] \in [Consoles -> Buttons]
      BY <1>2
    <2> QED BY <2>1, RunFrameType DEF GiveUpLink
  <1>4. /\ paused' \in [Consoles -> BOOLEAN]
        /\ wasPaused' \in [Consoles -> {"unset", "running", "paused"}]
        /\ linked' \in [Consoles -> BOOLEAN]
    BY DEF TypeOK, GiveUpLink
  <1>5. /\ waiting' \in [Consoles -> 0 .. GiveUp - 1]
        /\ stalled' \in [Consoles -> SUBSET Nat]
    BY SizeAssumption DEF TypeOK, GiveUpLink
  <1>6. NetOK'
    BY SentPacketsOK DEF NetOK, GiveUpLink, PacketOK
  <1>7. /\ nifiFrame' \in [Consoles -> Nat \cup {-1}]
        /\ oldInputs' \in [Consoles -> [0 .. History - 1 -> Buttons]]
        /\ sent' \in [Consoles ->
                         [Slots -> [frame : Nat \cup {-1}, input : Buttons]]]
        /\ recv' \in [Consoles -> [Slots ->
                         [ready : BOOLEAN, frame : Nat, input : Buttons]]]
        /\ menu' \in [Consoles -> {"closed", "open", "paused"}]
        /\ skips' \in [Consoles -> Nat]
        /\ desync' \in [Consoles -> SUBSET Nat]
    BY <1>1, SampleAndSendType
  <1> QED BY <1>2, <1>3, <1>4, <1>5, <1>6, <1>7 DEF TypeOK

LEMMA ReceiveInputType ==
    ASSUME TypeInv, NEW c \in Consoles, NEW p \in net, ReceiveInput(c, p)
    PROVE  TypeInv'
  <1> USE DEF TypeInv
  <1> DEFINE Cell == [ready : BOOLEAN, frame : Nat, input : Buttons]
             fresh(s) == {f \in Tags(p) : /\ InWindow(c, f)
                                          /\ f % Ring = s
                                          /\ ~Holds(recv[c][s], f)}
             cell(s) == IF fresh(s) = {} THEN recv[c][s]
                        ELSE LET f == CHOOSE g \in fresh(s) : TRUE
                             IN  [ready |-> TRUE, frame |-> f,
                                  input |-> InputFor(p, f)]
  <1>1. p.first \in Int /\ DOMAIN p.inputs \subseteq Int
        /\ \A i \in DOMAIN p.inputs : p.inputs[i] \in Buttons
    BY DEF NetOK, PacketOK, ReceiveInput
  <1>2. \A f \in Tags(p) : f \in Int /\ InputFor(p, f) \in Buttons
    <2> TAKE f \in Tags(p)
    <2>1. PICK i \in DOMAIN p.inputs : f = p.first + i
      BY DEF Tags
    <2>2. f - p.first = i
      BY <2>1, <1>1
    <2> QED BY <1>1, <2>1, <2>2 DEF InputFor
  <1>3. ASSUME NEW s \in Slots PROVE cell(s) \in Cell
    <2>1. CASE fresh(s) = {}
      BY <2>1 DEF TypeOK
    <2>2. CASE fresh(s) # {}
      <3> DEFINE f == CHOOSE g \in fresh(s) : TRUE
      <3>1. f \in fresh(s)
        BY <2>2
      <3>2. f \in Tags(p) /\ f >= frame[c]
        BY <3>1 DEF InWindow
      <3>3. f \in Nat /\ InputFor(p, f) \in Buttons
        BY <3>2, <1>2 DEF TypeOK
      <3>4. cell(s) = [ready |-> TRUE, frame |-> f, input |-> InputFor(p, f)]
        BY <2>2
      <3> HIDE DEF f, cell
      <3> QED BY <3>3, <3>4
    <2> QED BY <2>1, <2>2
  <1>4. recv' = [recv EXCEPT ![c] = [s \in Slots |-> cell(s)]]
    BY DEF ReceiveInput
  <1>5. recv' \in [Consoles -> [Slots -> Cell]]
    <2> HIDE DEF cell
    <2> QED BY <1>3, <1>4 DEF TypeOK
  <1>6. UNCHANGED <<frame, nifiFrame, oldInputs, sent, waiting, hashes, pad,
                    pauseVars, net, applied, stalled, skips, desync>>
    BY DEF ReceiveInput
  <1> QED BY <1>5, <1>6 DEF TypeOK, NetOK, pauseVars

LEMMA ReceiveRequestType ==
    ASSUME TypeInv, NEW c \in Consoles, NEW p \in net, ReceiveRequest(c, p)
    PROVE  TypeInv'
  <1> USE DEF TypeInv
  <1> DEFINE slot == sent[c][p.frame % Ring]
             q == InputPacket(Other(c), p.frame, [i \in {0} |-> slot.input])
  <1>1. p.frame \in Nat
    BY DEF NetOK, PacketOK, ReceiveRequest
  <1>2. slot.input \in Buttons
    <2>1. p.frame % Ring \in Slots
      BY <1>1, SlotIndex
    <2> QED BY <2>1 DEF TypeOK
  <1>3. PacketOK(q)
    <2>1. /\ q.cmd = "INPUT" /\ q.to = Other(c) /\ q.first = p.frame
          /\ q.inputs = [i \in {0} |-> slot.input]
      BY DEF InputPacket
    <2>2. DOMAIN q.inputs = {0} /\ q.inputs[0] = slot.input
      BY <2>1
    <2> HIDE DEF q, slot
    <2> QED BY <1>1, <1>2, <2>1, <2>2, OtherConsole DEF PacketOK
  <1>4. net' = net \cup {q}
    BY DEF ReceiveRequest
  <1>5. NetOK'
    BY <1>3, <1>4 DEF NetOK, PacketOK
  <1>6. UNCHANGED <<frame, inputVars, pauseVars, applied, stalled, skips, desync>>
    BY DEF ReceiveRequest
  <1> QED BY <1>5, <1>6 DEF TypeOK, inputVars, pauseVars

LEMMA ReceiveHashType ==
    ASSUME TypeInv, NEW c \in Consoles, NEW p \in net, ReceiveHash(c, p)
    PROVE  TypeInv'
  <1> USE DEF TypeInv
  <1>1. p.frame \in Nat
    BY DEF NetOK, PacketOK, ReceiveHash
  <1>2. desync' \in [Consoles -> SUBSET Nat]
    BY <1>1 DEF TypeOK, ReceiveHash
  <1>3. UNCHANGED <<frame, inputVars, pauseVars, net, applied, stalled, skips>>
    BY DEF ReceiveHash
  <1> QED BY <1>2, <1>3 DEF TypeOK, NetOK, inputVars, pauseVars

LEMMA NextTypeInv == TypeInv /\ [Next]_vars => TypeInv'
  <1> SUFFICES ASSUME TypeInv, [Next]_vars PROVE TypeInv'
    OBVIOUS
  <1>1. ASSUME NEW c \in Consoles, UpdateInput(c) PROVE TypeInv'
    BY <1>1, UpdateInputReadyType, UpdateInputMissingType, GiveUpLinkType
       DEF UpdateInput
  <1>2. ASSUME NEW c \in Consoles, OpenTheMenu(c) PROVE TypeInv'
    BY <1>2, OpenMenuType DEF OpenTheMenu
  <1>3. ASSUME NEW c \in Consoles, Receive(c) PROVE TypeInv'
    BY <1>3, ReceiveInputType, ReceiveRequestType, ReceiveHashType DEF Receive
  <1>4. CASE UNCHANGED vars
    BY <1>4 DEF TypeInv, TypeOK, NetOK, vars, inputVars, pauseVars
  <1> QED BY <1>1, <1>2, <1>3, <1>4 DEF Next

\* Every variable of the lockstep keeps its type, for every lag, ring and limit.
THEOREM TypeCorrect == Spec => []TypeOK
  <1>1. Spec => []TypeInv
    BY InitTypeInv, NextTypeInv, PTL DEF Spec
  <1>2. TypeInv => TypeOK
    BY DEF TypeInv
  <1> QED BY <1>1, <1>2, PTL

-----------------------------------------------------------------------------
(* The skew invariant.  RanWithInput is not inductive: it rests on what    *)
(* the ring, the packets in flight and the sent ring hold being no newer   *)
(* than what their sender has sampled, and on a call never going back.     *)

CallsInOrder == \A c \in Consoles : nifiFrame[c] <= frame[c]

RingBound ==
    \A c \in Consoles, s \in Slots :
        recv[c][s].ready => recv[c][s].frame <= Newest(Other(c))

PacketBound ==
    \A p \in net : p.cmd = "INPUT" =>
        \A i \in DOMAIN p.inputs : p.first + i <= Newest(Other(p.to))

SentBound ==
    \A c \in Consoles, s \in Slots : sent[c][s].frame <= Newest(c)

LinkedSkew ==
    \A c \in Consoles :
        linked[c] => frame[c] <= Newest(Other(c)) + 1 + skips[c]

SkewInv == CallsInOrder /\ RingBound /\ PacketBound /\ SentBound /\ LinkedSkew

\* A ready slot after the release was ready, for the same frame, before it.
LEMMA ReleasedRingReady ==
    ASSUME TypeOK, NEW c \in Consoles, NEW s \in Slots
    PROVE  ReleasedRing(c)[s].ready =>
               recv[c][s].ready /\ recv[c][s].frame = ReleasedRing(c)[s].frame
  <1> DEFINE i == (nifiFrame[c] - 1) % Ring
  <1>1. recv[c] \in [Slots -> [ready : BOOLEAN, frame : Nat, input : Buttons]]
    BY DEF TypeOK
  <1>2. CASE ReleasedRing(c) = recv[c]
    BY <1>2
  <1>3. CASE ReleasedRing(c) = [recv[c] EXCEPT ![i] = Released(@)]
    <2>1. CASE s = i
      <3>1. ReleasedRing(c)[s] = Released(recv[c][s])
        <4> HIDE DEF i
        <4> QED BY <1>1, <1>3, <2>1
      <3> QED BY <3>1 DEF Released
    <2>2. CASE s # i
      <3> HIDE DEF i
      <3> QED BY <1>1, <1>3, <2>2
    <2> QED BY <2>1, <2>2
  <1> QED BY <1>2, <1>3 DEF ReleasedRing

\* What a call with console c's buttons does to the four data bounds: it moves
\* Newest(c) up to the frame c is in and sends nothing newer.
LEMMA SampleAndSendBounds ==
    ASSUME TypeInv, SkewInv, NEW c \in Consoles, NEW b \in Buttons,
           NEW close \in BOOLEAN, SampleAndSend(c, b, close),
           NEW S, \A p \in S : p.cmd # "INPUT",
           net' = net \cup {InputHistory(c, b)} \cup S
    PROVE  /\ \A d \in Consoles : Newest(d) <= Newest(d)'
           /\ Newest(Other(c))' = Newest(Other(c))
           /\ nifiFrame'[c] = frame[c]
           /\ RingBound' /\ PacketBound' /\ SentBound'
  <1> USE DEF TypeInv, SkewInv
  <1>1. /\ nifiFrame' = [nifiFrame EXCEPT ![c] = frame[c]]
        /\ recv' = [recv EXCEPT ![c] = ReleasedRing(c)]
        /\ sent' = [sent EXCEPT ![c][(frame[c] + LagOf(c)) % Ring] =
                       [frame |-> frame[c] + LagOf(c), input |-> b]]
    BY DEF SampleAndSend
  <1>2. /\ nifiFrame \in [Consoles -> Nat \cup {-1}]
        /\ frame \in [Consoles -> Nat]
    BY DEF TypeOK
  <1>3. /\ \A d \in Consoles : Newest(d) \in Int /\ Newest(d)' \in Int
        /\ Newest(c)' = frame[c] + LagOf(c)
        /\ \A d \in Consoles : Newest(d) <= Newest(d)'
        /\ Newest(Other(c))' = Newest(Other(c))
        /\ nifiFrame'[c] = frame[c]
    BY <1>1, <1>2, OtherConsole DEF Newest, CallsInOrder
  <1>4. RingBound'
    <2> SUFFICES ASSUME NEW d \in Consoles, NEW s \in Slots, recv'[d][s].ready
                 PROVE  recv'[d][s].frame <= Newest(Other(d))'
      BY DEF RingBound
    <2>1. recv[d][s].ready /\ recv[d][s].frame = recv'[d][s].frame
      <3>1. CASE d = c
        <4>1. recv'[d] = ReleasedRing(c)
          BY <1>1, <3>1 DEF TypeOK
        <4>2. ReleasedRing(c)[s].ready
          BY <4>1
        <4> QED BY <4>1, <4>2, <3>1, ReleasedRingReady
      <3>2. CASE d # c
        BY <1>1, <3>2 DEF TypeOK
      <3> QED BY <3>1, <3>2
    <2>2. recv[d][s].frame <= Newest(Other(d)) /\ recv[d][s].frame \in Nat
      BY <2>1 DEF RingBound, TypeOK
    <2> QED BY <2>1, <2>2, <1>3, OtherConsole
  <1>5. PacketBound'
    <2> SUFFICES ASSUME NEW p \in net', p.cmd = "INPUT", NEW i \in DOMAIN p.inputs
                 PROVE  p.first + i <= Newest(Other(p.to))'
      BY DEF PacketBound
    <2>1. CASE p \in net
      <3>1. p.first + i \in Int /\ p.to \in Consoles
        BY <2>1 DEF NetOK, PacketOK
      <3>2. p.first + i <= Newest(Other(p.to))
        BY <2>1 DEF PacketBound
      <3> QED BY <3>1, <3>2, <1>3, OtherConsole
    <2>2. CASE p = InputHistory(c, b)
      <3>1. /\ p.to = Other(c)
            /\ p.first = frame[c] + LagOf(c) - History + 1
            /\ DOMAIN p.inputs = 0 .. History - 1
        <4>1. frame[c] \in Nat /\ LagOf(c) \in Nat /\ History \in Nat
          BY <1>2, OtherConsole, HistorySize
        <4>2. p.inputs = ShiftedInputs(c, b)
          BY <2>2 DEF InputHistory, InputPacket
        <4> QED BY <2>2, <4>1, <4>2, ShiftedInputsType DEF InputHistory, InputPacket
      <3>2. p.first + i <= frame[c] + LagOf(c)
        BY <3>1, <1>2, OtherConsole, HistorySize
      <3>3. Other(p.to) = c
        BY <3>1, OtherConsole
      <3> QED BY <3>2, <3>3, <1>3
    <2> QED BY <2>1, <2>2
  <1>6. SentBound'
    <2> SUFFICES ASSUME NEW d \in Consoles, NEW s \in Slots
                 PROVE  sent'[d][s].frame <= Newest(d)'
      BY DEF SentBound
    <2>1. sent[d][s].frame <= Newest(d) /\ sent[d][s].frame \in Int
      BY DEF SentBound, TypeOK
    <2>2. sent'[d][s].frame = sent[d][s].frame
          \/ (d = c /\ sent'[d][s].frame = frame[c] + LagOf(c))
      <3> DEFINE n == (frame[c] + LagOf(c)) % Ring
                 new == [frame |-> frame[c] + LagOf(c), input |-> b]
      <3>1. sent' = [sent EXCEPT ![c] = [sent[c] EXCEPT ![n] = new]]
        BY <1>1
      <3>2. sent \in [Consoles -> [Slots -> [frame : Nat \cup {-1},
                                            input : Buttons]]]
        BY DEF TypeOK
      <3>3. new.frame = frame[c] + LagOf(c)
        OBVIOUS
      <3> HIDE DEF n, new
      <3>4. CASE d = c
        <4> DEFINE ring == sent[c]
        <4>1. ring \in [Slots -> [frame : Nat \cup {-1}, input : Buttons]]
          BY <3>2
        <4> HIDE DEF ring
        <4>2. sent' = [sent EXCEPT ![c] = [ring EXCEPT ![n] = new]]
          BY <3>1 DEF ring
        <4>3. sent'[c] = [ring EXCEPT ![n] = new]
          BY <4>2, <3>2
        <4>4. sent'[c][s] = ring[s] \/ sent'[c][s] = new
          BY <4>1, <4>3
        <4> QED BY <4>4, <3>3, <3>4 DEF ring
      <3>5. CASE d # c
        BY <3>1, <3>2, <3>5
      <3> QED BY <3>4, <3>5
    <2>3. Newest(d) \in Int /\ Newest(d)' \in Int /\ Newest(d) <= Newest(d)'
      BY <1>3
    <2>4. CASE sent'[d][s].frame = sent[d][s].frame
      <3>1. sent'[d][s].frame <= Newest(d)
        BY <2>1, <2>4
      <3> QED BY <3>1, <2>1, <2>3, <2>4
    <2>5. CASE d = c /\ sent'[d][s].frame = frame[c] + LagOf(c)
      <3>1. sent'[d][s].frame = Newest(d)'
        BY <2>5, <1>3
      <3> QED BY <3>1, <2>3
    <2> QED BY <2>2, <2>4, <2>5
  <1> QED BY <1>3, <1>4, <1>5, <1>6

LEMMA InitSkew == Init => SkewInv
  <1> SUFFICES ASSUME Init PROVE SkewInv
    OBVIOUS
  <1>1. \A c \in Consoles : Newest(c) = LagOf(c) - 1 /\ Newest(c) \in Int
    BY OtherConsole DEF Init, Newest
  <1>2. CallsInOrder /\ PacketBound
    BY DEF Init, CallsInOrder, PacketBound
  <1>3. SentBound
    BY <1>1, OtherConsole DEF Init, SentBound, UnusedSent
  <1>4. RingBound
    <2> SUFFICES ASSUME NEW c \in Consoles, NEW s \in Slots, recv[c][s].ready
                 PROVE  recv[c][s].frame <= Newest(Other(c))
      BY DEF RingBound
    <2>1. recv[c][s] = IF c = Host /\ s < Lag
                       THEN [ready |-> TRUE, frame |-> s, input |-> Idle]
                       ELSE EmptySlot
      BY DEF Init, StartRing
    <2>2. c = Host /\ s < Lag /\ recv[c][s].frame = s
      BY <2>1 DEF EmptySlot
    <2>3. Newest(Other(c)) = Lag - 1
      BY <1>1, <2>2, OtherConsole DEF LagOf, Other
    <2> QED BY <2>2, <2>3, SizeAssumption DEF Slots
  <1>5. LinkedSkew
    BY <1>1, OtherConsole DEF Init, LinkedSkew
  <1> QED BY <1>2, <1>3, <1>4, <1>5 DEF SkewInv

\* A frame is run at most once more than the peer has sampled, and only by a
\* call that found the peer's buttons for it.
LEMMA UpdateInputSkew ==
    ASSUME TypeInv, SkewInv, NEW c \in Consoles, UpdateInput(c)
    PROVE  SkewInv'
  <1> USE DEF TypeInv, SkewInv
  <1>1. PICK b \in Buttons, close \in BOOLEAN :
            \/ UpdateInputReady(c, b, close)
            \/ UpdateInputMissing(c, b, close)
            \/ GiveUpLink(c, b, close)
    BY DEF UpdateInput
  <1>2. SampleAndSend(c, b, close)
    BY <1>1 DEF UpdateInputReady, UpdateInputMissing, GiveUpLink
  <1>3. \A p \in HashPackets(c) \cup RequestPackets(c) : p.cmd # "INPUT"
    BY DEF HashPackets, RequestPackets, HashPacket, RequestPacket
  <1>4. /\ \A d \in Consoles : Newest(d) <= Newest(d)'
        /\ Newest(Other(c))' = Newest(Other(c))
        /\ nifiFrame'[c] = frame[c]
        /\ RingBound' /\ PacketBound' /\ SentBound'
    <2>1. PICK S : /\ S \subseteq HashPackets(c) \cup RequestPackets(c)
                   /\ net' = net \cup {InputHistory(c, b)} \cup S
      <3>1. CASE UpdateInputReady(c, b, close)
        BY <3>1 DEF UpdateInputReady
      <3>2. CASE UpdateInputMissing(c, b, close)
        <4>1. net' = net \cup {InputHistory(c, b)}
                         \cup (HashPackets(c) \cup RequestPackets(c))
          BY <3>2 DEF UpdateInputMissing
        <4> QED BY <4>1
      <3>3. CASE GiveUpLink(c, b, close)
        BY <3>3 DEF GiveUpLink
      <3> QED BY <1>1, <3>1, <3>2, <3>3
    <2>2. \A p \in S : p.cmd # "INPUT"
      BY <1>3, <2>1
    <2> QED BY <1>2, <2>1, <2>2, SampleAndSendBounds
  <1>5. /\ frame \in [Consoles -> Nat] /\ nifiFrame \in [Consoles -> Nat \cup {-1}]
        /\ skips \in [Consoles -> Nat] /\ skips' = skips
        /\ nifiFrame' = [nifiFrame EXCEPT ![c] = frame[c]]
        /\ linked \in [Consoles -> BOOLEAN]
    BY <1>2 DEF TypeOK, SampleAndSend
  <1>6. frame' = frame \/ frame' = [frame EXCEPT ![c] = @ + 1]
    BY <1>1 DEF UpdateInputReady, UpdateInputMissing, GiveUpLink, PausedByWait, RunFrame
  <1>7. CallsInOrder'
    BY <1>5, <1>6 DEF CallsInOrder
  <1>8. LinkedSkew'
    <2> SUFFICES ASSUME NEW d \in Consoles, linked'[d]
                 PROVE  frame'[d] <= Newest(Other(d))' + 1 + skips'[d]
      BY DEF LinkedSkew
    <2>1. \A e \in Consoles : Newest(e) \in Int /\ Newest(e)' \in Int
      BY <1>5, OtherConsole DEF Newest
    <2>2. linked[d]
      BY <1>1, <1>5 DEF UpdateInputReady, UpdateInputMissing, GiveUpLink
    <2>3. frame[d] <= Newest(Other(d)) + 1 + skips[d]
      BY <2>2 DEF LinkedSkew
    <2>4. CASE frame'[d] = frame[d]
      BY <2>1, <2>3, <2>4, <1>4, <1>5, OtherConsole
    <2>5. CASE frame'[d] # frame[d]
      <3>1. d = c /\ frame'[d] = frame[d] + 1
        BY <2>5, <1>5, <1>6
      <3>2. UpdateInputReady(c, b, close)
        <4>1. ~UpdateInputMissing(c, b, close)
          BY <2>5 DEF UpdateInputMissing, PausedByWait, RunFrame
        <4>2. ~GiveUpLink(c, b, close)
          BY <3>1, <1>5 DEF GiveUpLink
        <4> QED BY <1>1, <4>1, <4>2
      <3>3. frame[c] % Ring \in Slots
        BY <1>5, SlotIndex
      <3>4. /\ ReleasedRing(c)[frame[c] % Ring].ready
            /\ ReleasedRing(c)[frame[c] % Ring].frame = frame[c]
        BY <3>2 DEF UpdateInputReady, PeerReady, Holds
      <3>5. frame[c] <= Newest(Other(c))
        BY <3>3, <3>4, ReleasedRingReady DEF RingBound
      <3> QED BY <3>1, <3>5, <2>1, <1>4, <1>5, OtherConsole
    <2> QED BY <2>4, <2>5
  <1> QED BY <1>4, <1>7, <1>8

LEMMA OpenMenuSkew ==
    ASSUME TypeInv, SkewInv, NEW c \in Consoles, OpenTheMenu(c)
    PROVE  SkewInv'
  <1> USE DEF TypeInv, SkewInv
  <1>1. /\ UNCHANGED <<nifiFrame, recv, sent, net, linked>>
        /\ skips' = [skips EXCEPT ![c] = @ + 1]
        /\ frame' = frame \/ frame' = [frame EXCEPT ![c] = @ + 1]
    BY DEF OpenTheMenu, OpenMenu, inputVars, RunFrame
  <1>2. /\ frame \in [Consoles -> Nat] /\ skips \in [Consoles -> Nat]
        /\ nifiFrame \in [Consoles -> Nat \cup {-1}]
    BY DEF TypeOK
  <1>3. \A d \in Consoles : Newest(d)' = Newest(d) /\ Newest(d) \in Int
    BY <1>1, <1>2, OtherConsole DEF Newest
  <1>4. CallsInOrder'
    BY <1>1, <1>2 DEF CallsInOrder
  <1>5. RingBound' /\ SentBound'
    BY <1>1, <1>3, OtherConsole DEF RingBound, SentBound
  <1>6. PacketBound'
    BY <1>1, <1>3, OtherConsole DEF PacketBound, NetOK, PacketOK
  <1>7. LinkedSkew'
    BY <1>1, <1>2, <1>3, OtherConsole DEF LinkedSkew
  <1> QED BY <1>4, <1>5, <1>6, <1>7

LEMMA ReceiveInputSkew ==
    ASSUME TypeInv, SkewInv, NEW c \in Consoles, NEW p \in net,
           ReceiveInput(c, p)
    PROVE  SkewInv'
  <1> USE DEF TypeInv, SkewInv
  <1>1. /\ UNCHANGED <<frame, nifiFrame, sent, net, linked, skips>>
        /\ p.cmd = "INPUT" /\ p.to = c
    BY DEF ReceiveInput, pauseVars
  <1>2. \A d \in Consoles : Newest(d)' = Newest(d)
    BY <1>1 DEF Newest
  <1>3. RingBound'
    <2> SUFFICES ASSUME NEW d \in Consoles, NEW s \in Slots, recv'[d][s].ready
                 PROVE  recv'[d][s].frame <= Newest(Other(d))
      BY <1>2, OtherConsole DEF RingBound
    <2> DEFINE fresh == {f \in Tags(p) : /\ InWindow(c, f)
                                         /\ f % Ring = s
                                         /\ ~Holds(recv[c][s], f)}
    <2>1. CASE recv'[d][s] = recv[d][s]
      BY <2>1 DEF RingBound
    <2>2. CASE recv'[d][s] # recv[d][s]
      <3>1. /\ d = c /\ fresh # {}
            /\ \E f \in fresh : recv'[d][s].frame = f
        <4>1. d = c
          BY <2>2 DEF ReceiveInput, TypeOK
        <4>2. recv'[c][s] = IF fresh = {} THEN recv[c][s]
                            ELSE LET f == CHOOSE g \in fresh : TRUE
                                 IN  [ready |-> TRUE, frame |-> f,
                                      input |-> InputFor(p, f)]
          BY DEF ReceiveInput, TypeOK
        <4> HIDE DEF fresh
        <4>3. fresh # {}
          BY <4>1, <4>2, <2>2
        <4> QED BY <4>1, <4>2, <4>3
      <3>2. recv'[d][s].frame \in Tags(p)
        BY <3>1
      <3>3. PICK i \in DOMAIN p.inputs : recv'[d][s].frame = p.first + i
        BY <3>2 DEF Tags
      <3>4. p.first + i <= Newest(Other(p.to))
        BY <1>1 DEF PacketBound
      <3> QED BY <3>1, <3>3, <3>4, <1>1
    <2> QED BY <2>1, <2>2
  <1>4. CallsInOrder' /\ LinkedSkew'
    BY <1>1, <1>2, OtherConsole DEF CallsInOrder, LinkedSkew
  <1>5. SentBound'
    BY <1>1, <1>2 DEF SentBound
  <1>6. PacketBound'
    BY <1>1, <1>2, OtherConsole DEF PacketBound, NetOK, PacketOK
  <1> QED BY <1>3, <1>4, <1>5, <1>6

LEMMA ReceiveRequestSkew ==
    ASSUME TypeInv, SkewInv, NEW c \in Consoles, NEW p \in net,
           ReceiveRequest(c, p)
    PROVE  SkewInv'
  <1> USE DEF TypeInv, SkewInv
  <1> DEFINE slot == sent[c][p.frame % Ring]
             q == InputPacket(Other(c), p.frame, [i \in {0} |-> slot.input])
  <1>1. /\ UNCHANGED <<frame, nifiFrame, sent, recv, linked, skips>>
        /\ net' = net \cup {q} /\ slot.frame = p.frame
    BY DEF ReceiveRequest, inputVars, pauseVars
  <1>2. \A d \in Consoles : Newest(d)' = Newest(d)
    BY <1>1 DEF Newest
  <1>3. p.frame \in Nat /\ p.frame <= Newest(c)
    <2>1. p.frame \in Nat
      BY DEF NetOK, PacketOK, ReceiveRequest
    <2>2. p.frame % Ring \in Slots
      BY <2>1, SlotIndex
    <2> QED BY <1>1, <2>1, <2>2 DEF SentBound
  <1>4. /\ q.to = Other(c) /\ q.first = p.frame
        /\ DOMAIN q.inputs = {0} /\ Other(q.to) = c
    BY OtherConsole DEF InputPacket
  <1>5. PacketBound'
    <2> SUFFICES ASSUME NEW r \in net', r.cmd = "INPUT", NEW i \in DOMAIN r.inputs
                 PROVE  r.first + i <= Newest(Other(r.to))'
      BY DEF PacketBound
    <2>1. CASE r \in net
      <3>1. r.to \in Consoles
        BY <2>1 DEF NetOK, PacketOK
      <3> QED BY <2>1, <3>1, <1>2, OtherConsole DEF PacketBound
    <2>2. CASE r = q
      <3>1. r.first + i = p.frame
        <4> HIDE DEF q
        <4> QED BY <2>2, <1>3, <1>4
      <3>2. Newest(Other(r.to))' = Newest(c)
        BY <2>2, <1>2, <1>4
      <3> QED BY <3>1, <3>2, <1>3
    <2> QED BY <2>1, <2>2, <1>1
  <1>6. CallsInOrder' /\ LinkedSkew' /\ RingBound' /\ SentBound'
    BY <1>1, <1>2, OtherConsole
       DEF CallsInOrder, LinkedSkew, RingBound, SentBound
  <1> QED BY <1>5, <1>6

LEMMA NextSkew == TypeInv /\ SkewInv /\ [Next]_vars => SkewInv'
  <1> SUFFICES ASSUME TypeInv, SkewInv, [Next]_vars PROVE SkewInv'
    OBVIOUS
  <1>1. ASSUME UNCHANGED <<frame, nifiFrame, sent, recv, net, linked, skips>>
        PROVE  SkewInv'
    BY <1>1 DEF SkewInv, CallsInOrder, RingBound, PacketBound, SentBound,
                LinkedSkew, Newest
  <1>2. ASSUME NEW c \in Consoles, UpdateInput(c) PROVE SkewInv'
    BY <1>2, UpdateInputSkew
  <1>3. ASSUME NEW c \in Consoles, OpenTheMenu(c) PROVE SkewInv'
    BY <1>3, OpenMenuSkew
  <1>4. ASSUME NEW c \in Consoles, Receive(c) PROVE SkewInv'
    <2>1. PICK p \in net :
              ReceiveInput(c, p) \/ ReceiveRequest(c, p) \/ ReceiveHash(c, p)
      BY <1>4 DEF Receive
    <2>2. CASE ReceiveHash(c, p)
      BY <2>2, <1>1 DEF ReceiveHash, inputVars, pauseVars
    <2> QED BY <2>1, <2>2, ReceiveInputSkew, ReceiveRequestSkew
  <1>5. CASE UNCHANGED vars
    BY <1>5, <1>1 DEF vars, inputVars, pauseVars
  <1> QED BY <1>2, <1>3, <1>4, <1>5 DEF Next

LEMMA Skew == Spec => [](TypeInv /\ SkewInv)
  <1>1. Init => TypeInv /\ SkewInv
    BY InitTypeInv, InitSkew
  <1>2. TypeInv /\ SkewInv /\ [Next]_vars => TypeInv' /\ SkewInv'
    BY NextTypeInv, NextSkew
  <1> QED BY <1>1, <1>2, PTL DEF Spec

\* No console runs a frame whose buttons its peer has not sampled.
THEOREM RanWithInputHolds == Spec => []RanWithInput
  <1>1. SkewInv => RanWithInput
    BY DEF SkewInv, LinkedSkew, RanWithInput, BothLinked, Consoles
  <1> QED BY <1>1, Skew, PTL

\* Whatever is lost, the next packet a console sends still covers the frame its
\* peer is in: History = Lag + 2 entries are enough for every lag.
THEOREM HistoryAlwaysCovers == Spec => []HistoryCovers
  <1>1. TypeInv /\ SkewInv => HistoryCovers
    <2> SUFFICES ASSUME TypeInv, SkewInv, BothLinked, NEW c \in Consoles
                 PROVE  frame[c] >= Newest(Other(c)) - History + 1
                                        - skips[Other(c)]
      BY DEF HistoryCovers
    <2> DEFINE o == Other(c)
    <2>1. o \in Consoles /\ Other(o) = c /\ LagOf(o) + LagOf(c) = Lag
          /\ LagOf(o) \in Nat /\ LagOf(c) \in Nat /\ Lag \in Nat
      BY OtherConsole, SizeAssumption DEF LagOf, Other, Consoles
    <2>2. /\ frame[c] \in Nat /\ frame[o] \in Nat /\ skips[o] \in Nat
          /\ nifiFrame[c] \in Int /\ nifiFrame[o] \in Int
      BY <2>1 DEF TypeInv, TypeOK
    <2>3. linked[o]
      BY <2>1 DEF BothLinked, Consoles
    <2>4. frame[o] <= Newest(c) + 1 + skips[o]
      BY <2>1, <2>3 DEF SkewInv, LinkedSkew
    <2>5. nifiFrame[c] <= frame[c] /\ nifiFrame[o] <= frame[o]
      BY <2>1 DEF SkewInv, CallsInOrder
    <2>6. Newest(c) = nifiFrame[c] + LagOf(c) /\ Newest(o) = nifiFrame[o] + LagOf(o)
      BY DEF Newest
    <2> HIDE DEF o
    <2>7. frame[c] >= Newest(o) - History + 1 - skips[o]
      BY <2>1, <2>2, <2>4, <2>5, <2>6 DEF History
    <2> QED BY <2>7 DEF o
  <1> QED BY <1>1, Skew, PTL

-----------------------------------------------------------------------------
(* Buttons that wait in the receive ring for their frame.  A slot holds a  *)
(* frame of its own residue no more than a ring ahead, and neither console *)
(* samples more than Lag frames past what its peer has sampled.            *)

SlotInv ==
    \A c \in Consoles, s \in Slots : recv[c][s].ready =>
        /\ recv[c][s].frame % Ring = s
        /\ recv[c][s].frame < frame[c] + Ring

SampleSkew ==
    \A c \in Consoles : nifiFrame[c] <= Newest(Other(c)) + 1 + skips[c]

CallsKeepUp == \A c \in Consoles : frame[c] <= nifiFrame[c] + 1 + skips[c]

WindowInv == SlotInv /\ SampleSkew /\ CallsKeepUp

\* Two frames less than a ring apart do not share a slot.
LEMMA OneFramePerSlot ==
    ASSUME NEW f \in Int, NEW g \in Int, f % Ring = g % Ring,
           f - g < Ring, g - f < Ring
    PROVE  f = g
  <1>1. Ring \in Nat \ {0}
    BY SizeAssumption, HistorySize
  <1> DEFINE q == f \div Ring
             r == g \div Ring
  <1>2. /\ q \in Int /\ f = Ring * q + (f % Ring)
        /\ r \in Int /\ g = Ring * r + (g % Ring)
        /\ f % Ring \in Int /\ g % Ring \in Int
    BY <1>1
  <1> HIDE DEF q, r
  <1>3. f - g = Ring * (q - r)
    BY <1>1, <1>2
  <1>4. ~(q >= r + 1)
    <2> SUFFICES ASSUME q >= r + 1 PROVE FALSE
      OBVIOUS
    <2>1. Ring * (q - r) >= Ring
      BY <1>1, <1>2
    <2> QED BY <2>1, <1>1, <1>3
  <1>5. ~(r >= q + 1)
    <2> SUFFICES ASSUME r >= q + 1 PROVE FALSE
      OBVIOUS
    <2>1. Ring * (r - q) >= Ring
      BY <1>1, <1>2
    <2>2. g - f = Ring * (r - q)
      BY <1>1, <1>2
    <2> QED BY <2>1, <2>2, <1>1
  <1>6. q = r
    BY <1>2, <1>4, <1>5
  <1> QED BY <1>2, <1>6

LEMMA OwnSlot == ASSUME NEW s \in Slots PROVE s % Ring = s
  BY SizeAssumption, HistorySize DEF Slots

LEMMA InitWindow == Init => WindowInv
  <1> SUFFICES ASSUME Init PROVE WindowInv
    OBVIOUS
  <1>1. SlotInv
    <2> SUFFICES ASSUME NEW c \in Consoles, NEW s \in Slots, recv[c][s].ready
                 PROVE  /\ recv[c][s].frame % Ring = s
                        /\ recv[c][s].frame < frame[c] + Ring
      BY DEF SlotInv
    <2>1. recv[c][s].frame = s /\ frame[c] = 0
      BY DEF Init, StartRing, EmptySlot
    <2>2. s \in 0 .. Ring - 1 /\ Ring \in Nat
      BY SizeAssumption DEF Slots
    <2> QED BY <2>1, <2>2, OwnSlot
  <1>2. SampleSkew /\ CallsKeepUp
    BY OtherConsole DEF Init, SampleSkew, CallsKeepUp, Newest
  <1> QED BY <1>1, <1>2 DEF WindowInv

\* What a console's call or its menu does to the window.
LEMMA TurnWindow ==
    ASSUME TypeInv, SkewInv, WindowInv, NEW c \in Consoles,
           UpdateInput(c) \/ OpenTheMenu(c)
    PROVE  WindowInv'
  <1> USE DEF TypeInv
  <1>1. /\ frame \in [Consoles -> Nat] /\ skips \in [Consoles -> Nat]
        /\ nifiFrame \in [Consoles -> Nat \cup {-1}]
        /\ recv \in [Consoles ->
              [Slots -> [ready : BOOLEAN, frame : Nat, input : Buttons]]]
    BY DEF TypeOK
  <1>2. frame' = frame \/ frame' = [frame EXCEPT ![c] = @ + 1]
    BY DEF UpdateInput, UpdateInputReady, UpdateInputMissing, GiveUpLink,
           PausedByWait, OpenTheMenu, OpenMenu, RunFrame
  <1>3. \/ /\ linked[c] /\ skips' = skips
           /\ nifiFrame' = [nifiFrame EXCEPT ![c] = frame[c]]
           /\ recv' = [recv EXCEPT ![c] = ReleasedRing(c)]
        \/ /\ UNCHANGED <<nifiFrame, recv>>
           /\ skips' = [skips EXCEPT ![c] = @ + 1]
    <2>1. CASE UpdateInput(c)
      <3>1. PICK b \in Buttons, close \in BOOLEAN : SampleAndSend(c, b, close)
        BY <2>1 DEF UpdateInput, UpdateInputReady, UpdateInputMissing,
                    GiveUpLink
      <3> QED BY <3>1 DEF SampleAndSend
    <2>2. CASE OpenTheMenu(c)
      BY <2>2 DEF OpenTheMenu, OpenMenu, inputVars
    <2> QED BY <2>1, <2>2
  <1>4. SlotInv'
    <2> SUFFICES ASSUME NEW d \in Consoles, NEW s \in Slots, recv'[d][s].ready
                 PROVE  /\ recv'[d][s].frame % Ring = s
                        /\ recv'[d][s].frame < frame'[d] + Ring
      BY DEF SlotInv
    <2>1. recv[d][s].ready /\ recv[d][s].frame = recv'[d][s].frame
      <3>1. CASE recv'[d] = recv[d]
        BY <3>1
      <3>2. CASE recv'[d] # recv[d]
        <4>1. d = c /\ recv'[d] = ReleasedRing(c)
          BY <1>1, <1>3, <3>2
        <4>2. ReleasedRing(c)[s].ready
          BY <4>1
        <4> QED BY <4>1, <4>2, ReleasedRingReady
      <3> QED BY <3>1, <3>2
    <2>2. recv[d][s].frame % Ring = s /\ recv[d][s].frame < frame[d] + Ring
      BY <2>1 DEF WindowInv, SlotInv
    <2>3. /\ frame[d] \in Nat /\ frame'[d] \in Nat /\ frame'[d] >= frame[d]
          /\ Ring \in Nat /\ recv[d][s].frame \in Nat
      <3>1. frame[d] \in Nat /\ frame'[d] \in Nat /\ frame'[d] >= frame[d]
        <4>1. frame[d] \in Nat
              /\ (frame'[d] = frame[d] \/ frame'[d] = frame[d] + 1)
          BY <1>1, <1>2
        <4> QED BY <4>1
      <3>2. recv[d][s].frame \in Nat
        BY <1>1
      <3> QED BY <3>1, <3>2, SizeAssumption
    <2> QED BY <2>1, <2>2, <2>3
  <1>5. CallsKeepUp'
    <2> SUFFICES ASSUME NEW d \in Consoles
                 PROVE  frame'[d] <= nifiFrame'[d] + 1 + skips'[d]
      BY DEF CallsKeepUp
    <2>1. frame[d] <= nifiFrame[d] + 1 + skips[d]
      BY DEF WindowInv, CallsKeepUp
    <2>2. /\ frame[d] \in Nat /\ skips[d] \in Nat /\ nifiFrame[d] \in Int
          /\ frame'[d] = frame[d] \/ (d = c /\ frame'[d] = frame[d] + 1)
      BY <1>1, <1>2
    <2>3. CASE d # c
      BY <1>1, <1>3, <2>1, <2>2, <2>3
    <2>4. CASE d = c
      BY <1>1, <1>3, <2>1, <2>2, <2>4
    <2> QED BY <2>3, <2>4
  <1>6. SampleSkew'
    <2> SUFFICES ASSUME NEW d \in Consoles
                 PROVE  nifiFrame'[d] <= Newest(Other(d))' + 1 + skips'[d]
      BY DEF SampleSkew
    <2>1. /\ Other(d) \in Consoles /\ LagOf(Other(d)) \in Nat
      BY OtherConsole
    <2>2. /\ nifiFrame[d] \in Int /\ nifiFrame[Other(d)] \in Int
          /\ frame[d] \in Nat /\ frame[Other(d)] \in Nat /\ skips[d] \in Nat
      BY <1>1, <2>1
    <2>3. nifiFrame[d] <= nifiFrame[Other(d)] + LagOf(Other(d)) + 1 + skips[d]
      BY DEF WindowInv, SampleSkew, Newest
    <2>4. linked[d] =>
              frame[d] <= nifiFrame[Other(d)] + LagOf(Other(d)) + 1 + skips[d]
      BY DEF SkewInv, LinkedSkew, Newest
    <2>5. nifiFrame[Other(d)] <= frame[Other(d)]
      BY <2>1 DEF SkewInv, CallsInOrder
    <2>6. /\ nifiFrame'[Other(d)] \in Int
          /\ nifiFrame'[Other(d)] >= nifiFrame[Other(d)]
      BY <1>1, <1>3, <2>1, <2>2, <2>5
    <2>7. skips'[d] \in Nat /\ skips'[d] >= skips[d]
      BY <1>1, <1>3
    <2>8. nifiFrame'[d] = nifiFrame[d] \/ (linked[d] /\ nifiFrame'[d] = frame[d])
      BY <1>1, <1>3
    <2>9. nifiFrame'[d] <= nifiFrame'[Other(d)] + LagOf(Other(d)) + 1 + skips'[d]
      BY <2>1, <2>2, <2>3, <2>4, <2>6, <2>7, <2>8
    <2> QED BY <2>9 DEF Newest
  <1> QED BY <1>4, <1>5, <1>6 DEF WindowInv

\* The slots an INPUT packet fills.
Fresh(c, p, s) ==
    {f \in Tags(p) : InWindow(c, f) /\ f % Ring = s /\ ~Holds(recv[c][s], f)}

LEMMA ReceivedSlot ==
    ASSUME TypeInv, NEW c \in Consoles, NEW p \in net, ReceiveInput(c, p),
           NEW d \in Consoles, NEW s \in Slots
    PROVE  \/ recv'[d][s] = recv[d][s]
           \/ /\ d = c /\ recv'[d][s].ready
              /\ recv'[d][s].frame \in Fresh(c, p, s)
  <1> DEFINE fresh == Fresh(c, p, s)
  <1>1. d # c => recv'[d] = recv[d]
    BY DEF ReceiveInput, TypeInv, TypeOK
  <1>2. recv'[c][s] = IF fresh = {} THEN recv[c][s]
                      ELSE LET f == CHOOSE g \in fresh : TRUE
                           IN  [ready |-> TRUE, frame |-> f,
                                input |-> InputFor(p, f)]
    BY DEF ReceiveInput, TypeInv, TypeOK, Fresh
  <1> HIDE DEF fresh
  <1>3. fresh # {} => recv'[c][s].ready /\ recv'[c][s].frame \in fresh
    BY <1>2
  <1> QED BY <1>1, <1>2, <1>3 DEF fresh

LEMMA FreshFrames ==
    ASSUME TypeInv, NEW c \in Consoles, NEW p \in net, ReceiveInput(c, p)
    PROVE  Tags(p) \subseteq Int
  BY DEF TypeInv, NetOK, PacketOK, ReceiveInput, Tags

LEMMA NextWindow == TypeInv /\ SkewInv /\ WindowInv /\ [Next]_vars => WindowInv'
  <1> SUFFICES ASSUME TypeInv, SkewInv, WindowInv, [Next]_vars PROVE WindowInv'
    OBVIOUS
  <1>1. ASSUME UNCHANGED <<frame, nifiFrame, recv, skips>> PROVE WindowInv'
    BY <1>1 DEF WindowInv, SlotInv, SampleSkew, CallsKeepUp, Newest
  <1>2. ASSUME NEW c \in Consoles, UpdateInput(c) \/ OpenTheMenu(c)
        PROVE  WindowInv'
    BY <1>2, TurnWindow
  <1>3. ASSUME NEW c \in Consoles, NEW p \in net, ReceiveInput(c, p)
        PROVE  WindowInv'
    <2>1. UNCHANGED <<frame, nifiFrame, skips>>
      BY <1>3 DEF ReceiveInput
    <2>2. SampleSkew' /\ CallsKeepUp'
      BY <2>1 DEF WindowInv, SampleSkew, CallsKeepUp, Newest
    <2>3. SlotInv'
      <3> SUFFICES ASSUME NEW d \in Consoles, NEW s \in Slots, recv'[d][s].ready
                   PROVE  /\ recv'[d][s].frame % Ring = s
                          /\ recv'[d][s].frame < frame[d] + Ring
        BY <2>1 DEF SlotInv
      <3>1. CASE recv'[d][s] = recv[d][s]
        BY <3>1 DEF WindowInv, SlotInv
      <3>2. CASE d = c /\ recv'[d][s].frame \in Fresh(c, p, s)
        BY <3>2 DEF Fresh, InWindow
      <3> QED BY <1>3, <3>1, <3>2, ReceivedSlot
    <2> QED BY <2>2, <2>3 DEF WindowInv
  <1>4. ASSUME NEW c \in Consoles, Receive(c) PROVE WindowInv'
    <2>1. PICK p \in net :
              ReceiveInput(c, p) \/ ReceiveRequest(c, p) \/ ReceiveHash(c, p)
      BY <1>4 DEF Receive
    <2>2. CASE ReceiveRequest(c, p) \/ ReceiveHash(c, p)
      BY <2>2, <1>1 DEF ReceiveRequest, ReceiveHash, inputVars
    <2> QED BY <2>1, <2>2, <1>3
  <1>5. CASE UNCHANGED vars
    BY <1>5, <1>1 DEF vars, inputVars
  <1> QED BY <1>2, <1>4, <1>5 DEF Next

\* The slot a call releases is that of the frame before last, and the frame a
\* ring later, the next one to use it, has not been sampled yet.
LEMMA ReleaseKeepsPending ==
    ASSUME TypeInv, SkewInv, WindowInv, NeverSkipped,
           NEW c \in Consoles, NEW s \in Slots,
           recv[c][s].ready, recv[c][s].frame >= frame[c]
    PROVE  ReleasedRing(c)[s] = recv[c][s]
  <1> DEFINE o == Other(c)
             i == (nifiFrame[c] - 1) % Ring
             f == recv[c][s].frame
  <1>1. /\ o \in Consoles /\ Other(o) = c
        /\ LagOf(c) \in Nat /\ LagOf(o) \in Nat /\ LagOf(c) + LagOf(o) = Lag
    BY OtherConsole
  <1>2. /\ frame[c] \in Nat /\ nifiFrame[c] \in Int /\ nifiFrame[o] \in Int
        /\ f \in Nat /\ skips[c] = 0 /\ skips[o] = 0
    BY <1>1 DEF TypeInv, TypeOK, NeverSkipped, Consoles
  <1>3. /\ Ring \in Nat /\ Lag \in Nat /\ Ring > Lag + 2
    BY SizeAssumption DEF History
  <1>4. f <= nifiFrame[o] + LagOf(o)
    BY DEF SkewInv, RingBound, Newest
  <1>5. nifiFrame[o] <= nifiFrame[c] + LagOf(c) + 1
    <2>1. nifiFrame[o] <= nifiFrame[c] + LagOf(c) + 1 + skips[o]
      BY <1>1 DEF WindowInv, SampleSkew, Newest
    <2> QED BY <2>1, <1>1, <1>2
  <1>6. nifiFrame[c] <= frame[c] /\ frame[c] <= nifiFrame[c] + 1 + skips[c]
    BY DEF SkewInv, CallsInOrder, WindowInv, CallsKeepUp
  <1>7. f % Ring = s
    BY DEF WindowInv, SlotInv
  <1>8. recv[c] \in [Slots -> [ready : BOOLEAN, frame : Nat, input : Buttons]]
    BY DEF TypeInv, TypeOK
  <1>9. f >= frame[c]
    OBVIOUS
  <1> HIDE DEF o, f
  <1>10. ASSUME FramePassed(c), i = s PROVE FALSE
    <2>1. nifiFrame[c] = frame[c] - 1
      BY <1>2, <1>6, <1>10 DEF FramePassed
    <2>2. f - (nifiFrame[c] - 1) < Ring /\ (nifiFrame[c] - 1) - f < Ring
      BY <1>1, <1>2, <1>3, <1>4, <1>5, <1>9, <2>1
    <2>3. f = nifiFrame[c] - 1
      BY <1>2, <1>7, <1>10, <2>2, OneFramePerSlot
    <2> QED BY <1>2, <1>9, <2>1, <2>3
  <1> HIDE DEF i
  <1>11. CASE FramePassed(c)
    <2>1. i # s
      BY <1>10, <1>11
    <2> QED BY <1>8, <2>1 DEF ReleasedRing, i
  <1>12. CASE ~FramePassed(c)
    BY <1>12 DEF ReleasedRing
  <1> QED BY <1>11, <1>12

PendingKept ==
    NeverSkipped =>
        \A c \in Consoles, s \in Slots :
            recv[c][s].ready /\ recv[c][s].frame >= frame[c] =>
                recv'[c][s] = recv[c][s]

LEMMA NextPending ==
    TypeInv /\ SkewInv /\ WindowInv /\ [Next]_vars => [PendingKept]_vars
  <1> SUFFICES ASSUME TypeInv, SkewInv, WindowInv, [Next]_vars, NeverSkipped,
                      NEW d \in Consoles, NEW s \in Slots,
                      recv[d][s].ready, recv[d][s].frame >= frame[d]
               PROVE  recv'[d][s] = recv[d][s]
    BY DEF PendingKept
  <1>1. CASE recv' = recv
    BY <1>1
  <1>2. ASSUME NEW c \in Consoles, UpdateInput(c)
        PROVE  recv'[d][s] = recv[d][s]
    <2>1. recv' = [recv EXCEPT ![c] = ReleasedRing(c)]
      BY <1>2 DEF UpdateInput, UpdateInputReady, UpdateInputMissing,
                  GiveUpLink, SampleAndSend
    <2>2. recv'[d] = IF d = c THEN ReleasedRing(c) ELSE recv[d]
      BY <2>1 DEF TypeInv, TypeOK
    <2> QED BY <2>2, ReleaseKeepsPending
  <1>3. ASSUME NEW c \in Consoles, OpenTheMenu(c) PROVE recv' = recv
    BY <1>3 DEF OpenTheMenu, OpenMenu, inputVars
  <1>4. ASSUME NEW c \in Consoles, NEW p \in net, ReceiveInput(c, p)
        PROVE  recv'[d][s] = recv[d][s]
    <2> SUFFICES ASSUME recv'[d][s] # recv[d][s] PROVE FALSE
      OBVIOUS
    <2> DEFINE f == recv'[d][s].frame
               g == recv[d][s].frame
    <2>1. d = c /\ f \in Fresh(c, p, s)
      BY <1>4, ReceivedSlot
    <2>2. /\ f \in Int /\ f >= frame[c] /\ f < frame[c] + Ring
          /\ f % Ring = s /\ f # g
      BY <1>4, <2>1, FreshFrames DEF Fresh, InWindow, Holds
    <2>3. g \in Nat /\ g >= frame[c] /\ g < frame[c] + Ring /\ g % Ring = s
      BY <2>1 DEF TypeInv, TypeOK, WindowInv, SlotInv
    <2>4. frame[c] \in Nat /\ Ring \in Nat
      BY SizeAssumption DEF TypeInv, TypeOK
    <2> HIDE DEF f, g
    <2>5. f - g < Ring /\ g - f < Ring
      BY <2>2, <2>3, <2>4
    <2> QED BY <2>2, <2>3, <2>5, OneFramePerSlot
  <1>5. ASSUME NEW c \in Consoles, Receive(c) PROVE recv'[d][s] = recv[d][s]
    <2>1. PICK p \in net :
              ReceiveInput(c, p) \/ ReceiveRequest(c, p) \/ ReceiveHash(c, p)
      BY <1>5 DEF Receive
    <2>2. CASE ReceiveRequest(c, p) \/ ReceiveHash(c, p)
      BY <2>2 DEF ReceiveRequest, ReceiveHash, inputVars
    <2> QED BY <2>1, <2>2, <1>4
  <1>6. CASE UNCHANGED vars
    BY <1>6 DEF vars, inputVars
  <1> QED BY <1>1, <1>2, <1>3, <1>5, <1>6 DEF Next

\* Late, repeated and reordered packets never replace buttons that are still to
\* be used, and the release of an old slot never drops them.
THEOREM PendingAlwaysKept == Spec => PendingInputKept
  <1>1. Init => TypeInv /\ SkewInv /\ WindowInv
    BY InitTypeInv, InitSkew, InitWindow
  <1>2. TypeInv /\ SkewInv /\ WindowInv /\ [Next]_vars
            => TypeInv' /\ SkewInv' /\ WindowInv'
    BY NextTypeInv, NextSkew, NextWindow
  <1>3. TypeInv /\ SkewInv /\ WindowInv /\ [Next]_vars => [PendingKept]_vars
    BY NextPending
  <1>4. Spec => [][PendingKept]_vars
    BY <1>1, <1>2, <1>3, PTL DEF Spec
  <1> QED BY <1>4 DEF PendingInputKept, PendingKept

-----------------------------------------------------------------------------
(* The consoles agree.  The argument is about one table S of samples:      *)
(* S[c][t] is what console c pressed for frame t.  Nothing in the program  *)
(* holds that table; the invariant says that there is one with which the   *)
(* history, the ring for requests, every packet, the receive rings and the *)
(* frames run all agree.                                                   *)

Samples == [Consoles -> [Int -> Buttons]]

\* v is what c pressed for frame t, unless c waited in the frame that sampled
\* it and so may have sampled it twice.
Agrees(waits, S, c, t, v) == t - LagOf(c) \in waits[c] \/ v = S[c][t]

HistoryAgrees(S) ==
    \A c \in Consoles, i \in 0 .. History - 1 :
        Agrees(stalled, S, c, nifiFrame[c] + LagOf(c) - History + 1 + i, oldInputs[c][i])
SentAgrees(S) ==
    \A c \in Consoles, s \in Slots : sent[c][s].frame \in Nat =>
        Agrees(stalled, S, c, sent[c][s].frame, sent[c][s].input)
RingAgrees(S) ==
    \A c \in Consoles, s \in Slots : recv[c][s].ready =>
        Agrees(stalled, S, Other(c), recv[c][s].frame, recv[c][s].input)
NetAgrees(S) ==
    \A p \in net : p.cmd = "INPUT" => \A i \in DOMAIN p.inputs :
        Agrees(stalled, S, Other(p.to), p.first + i, p.inputs[i])
AppliedAgrees(S) ==
    \A c \in Consoles : \A i \in 1 .. frame[c] :
        /\ i - 1 \in stalled[c] \/ Agrees(stalled, S, c, i - 1, applied[c][i][c])
        /\ Agrees(stalled, S, Other(c), i - 1, applied[c][i][Other(c)])
\* A frame is sampled twice only by a console that waits, or by one that is
\* still in the paused menu the link was started from and presses nothing.
StartIdle(S) ==
    \A c \in Consoles :
        nifiFrame[c] = -1 \/ (nifiFrame[c] = frame[c] /\ frame[c] \notin stalled[c])
        => \A t \in Int : t <= nifiFrame[c] + LagOf(c) => S[c][t] = Idle

AllAgree(S) == /\ HistoryAgrees(S) /\ SentAgrees(S) /\ RingAgrees(S)
               /\ NetAgrees(S) /\ AppliedAgrees(S) /\ StartIdle(S)

PauseOK ==
    \A c \in Consoles :
        /\ frame[c] <= nifiFrame[c] + 1
        /\ Len(applied[c]) = frame[c]
        /\ paused[c] /\ frame[c] \notin stalled[c] => menu[c] = "paused" /\ frame[c] = 0
        /\ nifiFrame[c] = frame[c] /\ frame[c] \notin stalled[c] => paused[c]

Running == BothLinked /\ NeverSkipped
AgreeInv == Running => PauseOK /\ \E S \in Samples : AllAgree(S)

-----------------------------------------------------------------------------

LEMMA NewestInt ==
    ASSUME TypeInv, NEW c \in Consoles
    PROVE  /\ Newest(c) \in Int /\ Newest(c) = nifiFrame[c] + LagOf(c)
           /\ frame[c] \in Nat /\ nifiFrame[c] \in Int /\ nifiFrame[c] >= -1
           /\ LagOf(c) \in Nat /\ LagOf(c) <= Lag
           /\ stalled[c] \subseteq Nat
           /\ Other(c) \in Consoles /\ Other(c) # c /\ Other(Other(c)) = c
  <1>1. /\ frame[c] \in Nat /\ nifiFrame[c] \in Nat \cup {-1} /\ stalled[c] \subseteq Nat
    BY DEF TypeInv, TypeOK
  <1>2. LagOf(c) \in Nat /\ LagOf(c) <= Lag
    BY SizeAssumption DEF LagOf
  <1> QED BY <1>1, <1>2, OtherConsole DEF Newest

LEMMA InitAgree == Init => AgreeInv
  <1> SUFFICES ASSUME Init PROVE PauseOK /\ \E S \in Samples : AllAgree(S)
    BY DEF AgreeInv
  <1> DEFINE S == [c \in Consoles |-> [t \in Int |-> Idle]]
  <1>0. TypeInv
    BY InitTypeInv
  <1>1. S \in Samples /\ \A c \in Consoles, t \in Int : S[c][t] = Idle
    BY ButtonsAssumption DEF Samples
  <1>2. PauseOK
    <2> SUFFICES ASSUME NEW c \in Consoles
                 PROVE  /\ frame[c] <= nifiFrame[c] + 1
                        /\ Len(applied[c]) = frame[c]
                        /\ paused[c] => menu[c] = "paused" /\ frame[c] = 0
                        /\ nifiFrame[c] # frame[c]
      BY DEF PauseOK
    <2>1. frame[c] = 0 /\ nifiFrame[c] = -1 /\ applied[c] = << >>
      BY DEF Init
    <2>2. paused[c] <=> menu[c] = "paused"
      BY DEF Init
    <2> QED BY <2>1, <2>2
  <1> HIDE DEF S
  <1>3. \A c \in Consoles, t \in Int : Agrees(stalled, S, c, t, Idle)
    BY <1>1 DEF Agrees
  <1>4. HistoryAgrees(S)
    <2> SUFFICES ASSUME NEW c \in Consoles, NEW i \in 0 .. History - 1
                 PROVE  Agrees(stalled, S, c, nifiFrame[c] + LagOf(c) - History + 1 + i, oldInputs[c][i])
      BY DEF HistoryAgrees
    <2>1. oldInputs[c][i] = Idle /\ nifiFrame[c] + LagOf(c) - History + 1 + i \in Int
      BY <1>0, NewestInt, HistorySize DEF Init
    <2> QED BY <2>1, <1>3
  <1>5. SentAgrees(S)
    BY DEF Init, SentAgrees, UnusedSent
  <1>6. RingAgrees(S)
    <2> SUFFICES ASSUME NEW c \in Consoles, NEW s \in Slots
                 PROVE  Agrees(stalled, S, Other(c), recv[c][s].frame, recv[c][s].input)
      BY DEF RingAgrees
    <2>1. recv[c][s].input = Idle
      BY DEF Init, StartRing, EmptySlot
    <2>2. recv[c][s].frame \in Int
      BY <1>0 DEF TypeInv, TypeOK
    <2> QED BY <1>3, <2>1, <2>2, OtherConsole
  <1>7. NetAgrees(S) /\ AppliedAgrees(S)
    BY DEF Init, NetAgrees, AppliedAgrees
  <1>8. StartIdle(S)
    BY <1>1 DEF StartIdle
  <1> QED BY <1>1, <1>2, <1>4, <1>5, <1>6, <1>7, <1>8 DEF AllAgree

\* A slot that is ready after the release was so before it.
LEMMA ReleasedRingKeeps ==
    ASSUME TypeOK, NEW c \in Consoles, NEW s \in Slots, ReleasedRing(c)[s].ready
    PROVE  ReleasedRing(c)[s] = recv[c][s]
  <1> DEFINE i == (nifiFrame[c] - 1) % Ring
  <1>1. recv[c] \in [Slots -> [ready : BOOLEAN, frame : Nat, input : Buttons]]
    BY DEF TypeOK
  <1>2. CASE ReleasedRing(c) = recv[c]
    BY <1>2
  <1>3. CASE ReleasedRing(c) = [recv[c] EXCEPT ![i] = Released(@)]
    <2>1. ~Released(recv[c][s]).ready
      BY DEF Released
    <2> HIDE DEF i
    <2> QED BY <1>1, <1>3, <2>1
  <1> QED BY <1>2, <1>3 DEF ReleasedRing

-----------------------------------------------------------------------------
(* A call of nifiUpdateInput by console c, while both are linked and no    *)
(* menu has skipped a call.  T is S with the sample the call takes.        *)

Extends(S, T, c, b) ==
    /\ \A d \in Consoles, t \in Int : t <= Newest(d) => T[d][t] = S[d][t]
    /\ frame[c] \in stalled[c] \/ T[c][frame[c] + LagOf(c)] = b

\* Either the frame is new and its sample too, or the console sampled it
\* before: waiting, or pressing nothing in the menu.
LEMMA SampleTaken ==
    ASSUME TypeInv, SkewInv, PauseOK, NEW S \in Samples, StartIdle(S),
           NEW c \in Consoles, NEW b \in Buttons, NEW close \in BOOLEAN,
           SampleAndSend(c, b, close)
    PROVE  \E T \in Samples : Extends(S, T, c, b)
  <1>1. nifiFrame[c] <= frame[c] /\ frame[c] <= nifiFrame[c] + 1
    BY DEF SkewInv, CallsInOrder, PauseOK
  <1>2. \A d \in Consoles : Newest(d) \in Int /\ Newest(d) = nifiFrame[d] + LagOf(d)
    BY NewestInt
  <1>3. /\ frame[c] \in Nat /\ nifiFrame[c] \in Int /\ LagOf(c) \in Nat
        /\ frame[c] + LagOf(c) \in Int
    BY NewestInt
  <1>4. CASE nifiFrame[c] = frame[c]
    <2>1. CASE frame[c] \in stalled[c]
      BY <2>1 DEF Extends
    <2>2. CASE frame[c] \notin stalled[c]
      <3>1. menu[c] = "paused"
        BY <1>4, <2>2 DEF PauseOK
      <3>2. b = Idle
        BY <3>1 DEF SampleAndSend
      <3>3. frame[c] + LagOf(c) <= Newest(c)
        BY <1>2, <1>3, <1>4
      <3>4. S[c][frame[c] + LagOf(c)] = Idle
        BY <1>2, <1>3, <1>4, <2>2, <3>3 DEF StartIdle
      <3> QED BY <3>2, <3>4 DEF Extends
    <2> QED BY <2>1, <2>2
  <1>5. CASE nifiFrame[c] # frame[c]
    <2> DEFINE new == frame[c] + LagOf(c)
               T == [S EXCEPT ![c] = [S[c] EXCEPT ![new] = b]]
    <2>1. new = Newest(c) + 1 /\ new \in Int
      BY <1>1, <1>2, <1>3, <1>5
    <2> HIDE DEF new
    <2>2. T \in Samples /\ T[c][new] = b
      BY <2>1 DEF Samples
    <2>3. \A d \in Consoles, t \in Int : t <= Newest(d) => T[d][t] = S[d][t]
      <3> TAKE d \in Consoles, t \in Int
      <3>1. CASE d = c
        BY <3>1, <2>1, <1>2 DEF Samples
      <3>2. CASE d # c
        BY <3>2 DEF Samples
      <3> QED BY <3>1, <3>2
    <2> HIDE DEF T
    <2> QED BY <2>2, <2>3 DEF Extends, new
  <1> QED BY <1>4, <1>5

\* What agreed with S still agrees with T, as waits are never forgotten.
LEMMA StillAgrees ==
    ASSUME NEW S, NEW T, NEW c \in Consoles, NEW b, Extends(S, T, c, b),
           NEW now, \A d \in Consoles : stalled[d] \subseteq now[d],
           NEW d \in Consoles, NEW t \in Int, t <= Newest(d), NEW v,
           Agrees(stalled, S, d, t, v)
    PROVE  Agrees(now, T, d, t, v)
  BY DEF Agrees, Extends

\* The facts of a call that the lemmas below share.
Called(S, T, c, b) ==
    /\ TypeInv /\ SkewInv /\ Running /\ PauseOK
    /\ S \in Samples /\ T \in Samples /\ AllAgree(S) /\ Extends(S, T, c, b)
    /\ nifiFrame' = [nifiFrame EXCEPT ![c] = frame[c]]
    /\ stalled' = stalled \/ stalled' = [stalled EXCEPT ![c] = @ \cup {frame[c]}]

LEMMA NewestAfter ==
    ASSUME NEW S, NEW T, NEW c \in Consoles, NEW b, Called(S, T, c, b)
    PROVE  /\ \A d \in Consoles :
                 /\ nifiFrame'[d] = IF d = c THEN frame[c] ELSE nifiFrame[d]
                 /\ stalled[d] \subseteq stalled'[d]
           /\ FramePassed(c) => frame[c] = nifiFrame[c] + 1
           /\ ~FramePassed(c) => frame[c] = nifiFrame[c]
  <1>1. nifiFrame[c] <= frame[c] /\ frame[c] <= nifiFrame[c] + 1
    BY DEF Called, SkewInv, CallsInOrder, PauseOK
  <1>2. \A d \in Consoles : nifiFrame'[d] = IF d = c THEN frame[c] ELSE nifiFrame[d]
    BY DEF Called, TypeInv, TypeOK
  <1>3. \A d \in Consoles : stalled[d] \subseteq stalled'[d]
    BY DEF Called, TypeInv, TypeOK
  <1>4. frame[c] \in Nat /\ nifiFrame[c] \in Int
    BY NewestInt DEF Called
  <1> QED BY <1>1, <1>2, <1>3, <1>4 DEF FramePassed

\* The sample a call takes agrees with the table it extends.
LEMMA TakenAgrees ==
    ASSUME NEW now, NEW T, NEW c \in Consoles, NEW f \in Nat, NEW v,
           f \in now[c] \/ T[c][f + LagOf(c)] = v
    PROVE  Agrees(now, T, c, f + LagOf(c), v)
  <1>1. f + LagOf(c) - LagOf(c) = f
    BY OtherConsole
  <1> DEFINE t == f + LagOf(c)
  <1>2. t - LagOf(c) \in now[c] \/ v = T[c][t]
    BY <1>1, OtherConsole
  <1> HIDE DEF t
  <1>3. Agrees(now, T, c, t, v)
    BY <1>2 DEF Agrees
  <1> QED BY <1>3 DEF t

LEMMA HistoryStillAgrees ==
    ASSUME NEW S, NEW T, NEW c \in Consoles, NEW b \in Buttons, Called(S, T, c, b),
           oldInputs' = [oldInputs EXCEPT ![c] = ShiftedInputs(c, b)]
    PROVE  HistoryAgrees(T)'
  <1> SUFFICES ASSUME NEW d \in Consoles, NEW i \in 0 .. History - 1
               PROVE  Agrees(stalled', T, d, nifiFrame'[d] + LagOf(d) - History + 1 + i,
                             oldInputs'[d][i])
    BY DEF HistoryAgrees
  <1>1. /\ nifiFrame[d] \in Int /\ LagOf(d) \in Nat /\ frame[d] \in Nat
        /\ Newest(d) = nifiFrame[d] + LagOf(d)
        /\ History \in Nat /\ i \in Int
    BY NewestInt, HistorySize DEF Called
  <1>2. \A j \in 0 .. History - 1 :
            Agrees(stalled, S, d, nifiFrame[d] + LagOf(d) - History + 1 + j, oldInputs[d][j])
    BY DEF Called, AllAgree, HistoryAgrees
  <1>3. \A j \in 0 .. History - 1 :
            Agrees(stalled', T, d, nifiFrame[d] + LagOf(d) - History + 1 + j, oldInputs[d][j])
    <2> TAKE j \in 0 .. History - 1
    <2>1. /\ nifiFrame[d] + LagOf(d) - History + 1 + j \in Int
          /\ nifiFrame[d] + LagOf(d) - History + 1 + j <= Newest(d)
      BY <1>1
    <2>2. \A e \in Consoles : stalled[e] \subseteq stalled'[e]
      BY NewestAfter
    <2> QED BY <1>2, <2>1, <2>2, StillAgrees DEF Called
  <1>4. oldInputs'[d] = IF d = c THEN ShiftedInputs(c, b) ELSE oldInputs[d]
    BY DEF Called, TypeInv, TypeOK
  <1>5. CASE d # c \/ ~FramePassed(c)
    <2>1. oldInputs'[d] = oldInputs[d]
      BY <1>4, <1>5 DEF ShiftedInputs
    <2>2. nifiFrame'[d] = nifiFrame[d]
      BY <1>5, NewestAfter
    <2> QED BY <1>3, <2>1, <2>2
  <1>6. CASE d = c /\ FramePassed(c)
    <2>1. oldInputs'[d][i] = IF i = History - 1 THEN b ELSE oldInputs[d][i + 1]
      <3>1. ShiftedInputs(c, b) = [j \in 0 .. History - 1 |->
                IF j = History - 1 THEN b ELSE oldInputs[c][j + 1]]
        BY <1>6 DEF ShiftedInputs
      <3>2. oldInputs'[d] = ShiftedInputs(c, b) /\ d = c
        BY <1>4, <1>6
      <3> QED BY <3>1, <3>2
    <2>2. nifiFrame'[d] = frame[d] /\ frame[d] = nifiFrame[d] + 1
      BY <1>6, NewestAfter
    <2>3. CASE i = History - 1
      <3>1. nifiFrame'[d] + LagOf(d) - History + 1 + i = frame[d] + LagOf(d)
        BY <1>1, <2>2, <2>3
      <3>2. frame[d] \in stalled'[d] \/ T[d][frame[d] + LagOf(d)] = b
        BY <1>6, NewestAfter DEF Called, Extends
      <3>3. Agrees(stalled', T, d, frame[d] + LagOf(d), b)
        BY <1>1, <3>2, TakenAgrees
      <3> QED BY <2>1, <2>3, <3>1, <3>3
    <2>4. CASE i # History - 1
      <3>1. i + 1 \in 0 .. History - 1
        BY <1>1, <2>4
      <3>2. nifiFrame'[d] + LagOf(d) - History + 1 + i
               = nifiFrame[d] + LagOf(d) - History + 1 + (i + 1)
        BY <1>1, <2>2
      <3> QED BY <1>3, <2>1, <2>4, <3>1, <3>2
    <2> QED BY <2>3, <2>4
  <1> QED BY <1>5, <1>6

LEMMA SentStillAgrees ==
    ASSUME NEW S, NEW T, NEW c \in Consoles, NEW b \in Buttons, Called(S, T, c, b),
           sent' = [sent EXCEPT ![c][(frame[c] + LagOf(c)) % Ring] =
                       [frame |-> frame[c] + LagOf(c), input |-> b]]
    PROVE  SentAgrees(T)'
  <1> SUFFICES ASSUME NEW d \in Consoles, NEW s \in Slots, sent'[d][s].frame \in Nat
               PROVE  Agrees(stalled', T, d, sent'[d][s].frame, sent'[d][s].input)
    BY DEF SentAgrees
  <1> DEFINE n == (frame[c] + LagOf(c)) % Ring
             new == [frame |-> frame[c] + LagOf(c), input |-> b]
  <1>1. sent' = [sent EXCEPT ![c] = [sent[c] EXCEPT ![n] = new]]
    OBVIOUS
  <1>2. sent \in [Consoles -> [Slots -> [frame : Nat \cup {-1}, input : Buttons]]]
    BY DEF Called, TypeInv, TypeOK
  <1>3. new.frame = frame[c] + LagOf(c) /\ new.input = b
    OBVIOUS
  <1> HIDE DEF n, new
  <1>4. sent'[d][s] = sent[d][s] \/ (d = c /\ sent'[d][s] = new)
    <2> DEFINE ring == sent[c]
               ring2 == [ring EXCEPT ![n] = new]
    <2>1. ring \in [Slots -> [frame : Nat \cup {-1}, input : Buttons]]
      BY <1>2
    <2>2. ring2[s] = ring[s] \/ ring2[s] = new
      <3> HIDE DEF ring
      <3> QED BY <2>1
    <2>3. sent' = [sent EXCEPT ![c] = ring2]
      BY <1>1
    <2> HIDE DEF ring2
    <2>4. sent'[d] = IF d = c THEN ring2 ELSE sent[d]
      BY <2>3, <1>2
    <2> QED BY <2>2, <2>4
  <1>5. CASE sent'[d][s] = sent[d][s]
    <2>1. sent[d][s].frame \in Int /\ sent[d][s].frame <= Newest(d)
      BY <1>2 DEF Called, SkewInv, SentBound
    <2>2. Agrees(stalled, S, d, sent[d][s].frame, sent[d][s].input)
      BY <1>5 DEF Called, AllAgree, SentAgrees
    <2>3. \A e \in Consoles : stalled[e] \subseteq stalled'[e]
      BY NewestAfter
    <2> QED BY <1>5, <2>1, <2>2, <2>3, StillAgrees DEF Called
  <1>6. CASE d = c /\ sent'[d][s] = new
    <2>1. frame[c] \in stalled'[c] \/ T[c][frame[c] + LagOf(c)] = b
      BY NewestAfter DEF Called, Extends
    <2>2. frame[c] \in Nat
      BY NewestInt DEF Called
    <2>3. Agrees(stalled', T, c, frame[c] + LagOf(c), b)
      BY <2>1, <2>2, TakenAgrees
    <2> QED BY <1>3, <1>6, <2>3, Zenon
  <1> QED BY <1>4, <1>5, <1>6

LEMMA RingStillAgrees ==
    ASSUME NEW S, NEW T, NEW c \in Consoles, NEW b, Called(S, T, c, b),
           recv' = [recv EXCEPT ![c] = ReleasedRing(c)]
    PROVE  RingAgrees(T)'
  <1> SUFFICES ASSUME NEW d \in Consoles, NEW s \in Slots, recv'[d][s].ready
               PROVE  Agrees(stalled', T, Other(d), recv'[d][s].frame, recv'[d][s].input)
    BY DEF RingAgrees
  <1>1. TypeOK
    BY DEF Called, TypeInv
  <1>2. recv'[d][s] = recv[d][s]
    <2>1. recv'[d] = IF d = c THEN ReleasedRing(c) ELSE recv[d]
      BY <1>1 DEF TypeOK
    <2> QED BY <1>1, <2>1, ReleasedRingKeeps
  <1>3. recv[d][s].frame \in Int /\ recv[d][s].frame <= Newest(Other(d))
    BY <1>1, <1>2 DEF TypeOK, Called, SkewInv, RingBound
  <1>4. Agrees(stalled, S, Other(d), recv[d][s].frame, recv[d][s].input)
    BY <1>2 DEF Called, AllAgree, RingAgrees
  <1>5. \A e \in Consoles : stalled[e] \subseteq stalled'[e]
    BY NewestAfter
  <1> QED BY <1>2, <1>3, <1>4, <1>5, StillAgrees, OtherConsole DEF Called

\* A packet repeats the history, with the frames the history is for.
LEMMA NetStillAgrees ==
    ASSUME NEW S, NEW T, NEW c \in Consoles, NEW b \in Buttons, Called(S, T, c, b),
           oldInputs' = [oldInputs EXCEPT ![c] = ShiftedInputs(c, b)],
           NEW P, \A p \in P : p.cmd # "INPUT",
           net' = net \cup {InputHistory(c, b)} \cup P
    PROVE  NetAgrees(T)'
  <1> SUFFICES ASSUME NEW p \in net', p.cmd = "INPUT", NEW i \in DOMAIN p.inputs
               PROVE  Agrees(stalled', T, Other(p.to), p.first + i, p.inputs[i])
    BY DEF NetAgrees
  <1>1. CASE p \in net
    <2>1. p.first + i \in Int /\ p.to \in Consoles
      BY <1>1 DEF Called, TypeInv, NetOK, PacketOK
    <2>2. p.first + i <= Newest(Other(p.to))
      BY <1>1 DEF Called, SkewInv, PacketBound
    <2>3. Agrees(stalled, S, Other(p.to), p.first + i, p.inputs[i])
      BY <1>1 DEF Called, AllAgree, NetAgrees
    <2>4. \A e \in Consoles : stalled[e] \subseteq stalled'[e]
      BY NewestAfter
    <2> QED BY <2>1, <2>2, <2>3, <2>4, StillAgrees, OtherConsole DEF Called
  <1>2. CASE p = InputHistory(c, b)
    <2>1. p.inputs = ShiftedInputs(c, b) /\ p.to = Other(c)
          /\ p.first = frame[c] + LagOf(c) - History + 1
      <3>1. frame[c] \in Nat /\ LagOf(c) \in Nat /\ History \in Nat
        BY NewestInt, HistorySize DEF Called
      <3> QED BY <1>2, <3>1 DEF InputHistory, InputPacket
    <2>2. DOMAIN p.inputs = 0 .. History - 1
      BY <2>1, ShiftedInputsType DEF Called, TypeInv
    <2>3. oldInputs'[c] = ShiftedInputs(c, b)
      BY DEF Called, TypeInv, TypeOK
    <2>4. nifiFrame'[c] = frame[c]
      BY NewestAfter
    <2>5. Agrees(stalled', T, c, nifiFrame'[c] + LagOf(c) - History + 1 + i, oldInputs'[c][i])
      BY <2>2, HistoryStillAgrees DEF HistoryAgrees
    <2>6. Other(p.to) = c
      BY <2>1, OtherConsole
    <2>7. p.first + i = nifiFrame'[c] + LagOf(c) - History + 1 + i
      BY <2>1, <2>4
    <2>8. p.inputs[i] = oldInputs'[c][i]
      BY <2>1, <2>3
    <2> QED BY <2>5, <2>6, <2>7, <2>8
  <1> QED BY <1>1, <1>2

-----------------------------------------------------------------------------
(* The frame a call runs, and the pause state it leaves.                   *)

\* A call that leaves a console in a frame it has not waited in was made in
\* the paused menu, in the first frame.
LEMMA CallPauses ==
    ASSUME NEW S, NEW T, NEW c \in Consoles, NEW b \in Buttons, NEW close \in BOOLEAN,
           Called(S, T, c, b),
           UpdateInputReady(c, b, close) \/ UpdateInputMissing(c, b, close),
           frame'[c] = frame[c], frame[c] \notin stalled'[c]
    PROVE  /\ menu[c] = "paused" /\ menu'[c] = "paused" /\ frame[c] = 0 /\ b = Idle
           /\ frame[c] \notin stalled[c] /\ paused'[c]
  <1>1. TypeOK /\ PauseOK /\ frame[c] \in Nat
    BY NewestInt DEF Called, TypeInv
  <1>2. ~UpdateInputMissing(c, b, close)
    BY <1>1 DEF UpdateInputMissing, TypeOK
  <1>3. UpdateInputReady(c, b, close)
    BY <1>2
  <1>4. /\ RunFrame(c, paused'[c], pad'[c]) /\ SampleAndSend(c, b, close)
        /\ stalled' = stalled
        /\ paused' = [paused EXCEPT ![c] = PausedInCall(c, close) /\ wasPaused[c] # "running"]
    BY <1>3 DEF UpdateInputReady
  <1>5. paused'[c]
    BY <1>1, <1>4 DEF RunFrame, TypeOK
  <1>6. paused[c] /\ ~close
    BY <1>1, <1>4, <1>5 DEF TypeOK, PausedInCall
  <1>7. menu[c] = "paused" /\ frame[c] = 0
    BY <1>1, <1>4, <1>6 DEF PauseOK
  <1>8. menu'[c] = menu[c] /\ b = Idle
    BY <1>1, <1>4, <1>6, <1>7 DEF SampleAndSend, TypeOK
  <1> QED BY <1>4, <1>5, <1>7, <1>8

LEMMA CallStartIdle ==
    ASSUME NEW S, NEW T, NEW c \in Consoles, NEW b \in Buttons, NEW close \in BOOLEAN,
           Called(S, T, c, b),
           UpdateInputReady(c, b, close) \/ UpdateInputMissing(c, b, close)
    PROVE  StartIdle(T)'
  <1> SUFFICES ASSUME NEW d \in Consoles,
                      nifiFrame'[d] = -1 \/ (nifiFrame'[d] = frame'[d]
                                             /\ frame'[d] \notin stalled'[d]),
                      NEW t \in Int, t <= nifiFrame'[d] + LagOf(d)
               PROVE  T[d][t] = Idle
    BY DEF StartIdle
  <1>1. /\ nifiFrame[d] \in Int /\ LagOf(d) \in Nat /\ frame[d] \in Nat
        /\ Newest(d) = nifiFrame[d] + LagOf(d)
    BY NewestInt DEF Called
  <1>2. nifiFrame'[d] = IF d = c THEN frame[d] ELSE nifiFrame[d]
    BY NewestAfter
  <1>3. \A u \in Int : u <= Newest(d) => T[d][u] = S[d][u]
    BY DEF Called, Extends
  <1>4. /\ d # c => frame'[d] = frame[d]
        /\ stalled[d] \subseteq stalled'[d]
    <2>1. frame' = frame \/ frame' = [frame EXCEPT ![c] = @ + 1]
      BY DEF UpdateInputReady, UpdateInputMissing, PausedByWait, RunFrame
    <2> QED BY <2>1, NewestAfter DEF Called, TypeInv, TypeOK
  <1>5. CASE d # c
    <2>1. nifiFrame[d] = -1 \/ (nifiFrame[d] = frame[d] /\ frame[d] \notin stalled[d])
      BY <1>2, <1>4, <1>5
    <2>2. t <= nifiFrame[d] + LagOf(d)
      BY <1>2, <1>5
    <2>3. S[d][t] = Idle
      BY <2>1, <2>2 DEF Called, AllAgree, StartIdle
    <2> QED BY <1>1, <1>3, <2>2, <2>3
  <1>6. CASE d = c
    <2>1. nifiFrame'[d] = frame[d] /\ frame'[c] = frame[c] /\ frame[c] \notin stalled'[c]
      BY <1>1, <1>2, <1>6
    <2>2. frame[d] = 0 /\ b = Idle /\ frame[d] \notin stalled[d]
      BY <1>6, <2>1, CallPauses
    <2>3. nifiFrame[d] = 0 \/ nifiFrame[d] = -1
      BY <1>1, <1>6, <2>2, NewestAfter
    <2>4. \A u \in Int : u <= nifiFrame[d] + LagOf(d) => S[d][u] = Idle
      BY <2>2, <2>3 DEF Called, AllAgree, StartIdle
    <2>5. CASE t <= nifiFrame[d] + LagOf(d)
      BY <1>1, <1>3, <2>4, <2>5
    <2>6. CASE ~(t <= nifiFrame[d] + LagOf(d))
      <3>1. t = frame[d] + LagOf(d)
        BY <1>1, <2>1, <2>2, <2>3, <2>6
      <3>2. T[d][frame[d] + LagOf(d)] = b
        BY <1>6, <2>2 DEF Called, Extends
      <3> QED BY <2>2, <3>1, <3>2
    <2> QED BY <2>5, <2>6
  <1> QED BY <1>5, <1>6

LEMMA CallPauseOK ==
    ASSUME NEW S, NEW T, NEW c \in Consoles, NEW b \in Buttons, NEW close \in BOOLEAN,
           Called(S, T, c, b),
           UpdateInputReady(c, b, close) \/ UpdateInputMissing(c, b, close)
    PROVE  PauseOK'
  <1> SUFFICES ASSUME NEW d \in Consoles
               PROVE  /\ frame'[d] <= nifiFrame'[d] + 1
                      /\ Len(applied'[d]) = frame'[d]
                      /\ paused'[d] /\ frame'[d] \notin stalled'[d]
                            => menu'[d] = "paused" /\ frame'[d] = 0
                      /\ nifiFrame'[d] = frame'[d] /\ frame'[d] \notin stalled'[d]
                            => paused'[d]
    BY DEF PauseOK
  <1>1. /\ TypeOK /\ PauseOK /\ frame[d] \in Nat /\ nifiFrame[d] \in Int
        /\ frame[d] <= nifiFrame[d] + 1
    BY NewestInt DEF Called, TypeInv, PauseOK
  <1>2. /\ SampleAndSend(c, b, close)
        /\ RunFrame(c, paused'[c], pad'[c])
        /\ \A e \in Consoles : e # c => paused'[e] = paused[e] /\ stalled'[e] = stalled[e]
    <2>1. CASE UpdateInputReady(c, b, close)
      BY <1>1, <2>1 DEF UpdateInputReady, TypeOK
    <2>2. CASE UpdateInputMissing(c, b, close)
      <3>1. paused'[c] = PausedByWait(c)
        BY <1>1, <2>2 DEF UpdateInputMissing, TypeOK
      <3> QED BY <1>1, <2>2, <3>1 DEF UpdateInputMissing, TypeOK
    <2> QED BY <2>1, <2>2
  <1>3. nifiFrame'[d] = IF d = c THEN frame[d] ELSE nifiFrame[d]
    BY NewestAfter
  <1>4. CASE d # c
    <2>1. /\ frame'[d] = frame[d] /\ applied'[d] = applied[d] /\ menu'[d] = menu[d]
      BY <1>1, <1>2, <1>4 DEF RunFrame, SampleAndSend, TypeOK
    <2> QED BY <1>1, <1>2, <1>3, <1>4, <2>1 DEF PauseOK
  <1>5. CASE d = c /\ paused'[c]
    <2>1. frame' = frame /\ applied' = applied
      BY <1>2, <1>5 DEF RunFrame
    <2>2. frame[d] \notin stalled'[d] => menu'[d] = "paused" /\ frame[d] = 0
      BY <1>5, <2>1, CallPauses
    <2>3. Len(applied[d]) = frame[d]
      BY <1>1 DEF PauseOK
    <2> QED BY <1>1, <1>3, <1>5, <2>1, <2>2, <2>3
  <1>6. CASE d = c /\ ~paused'[c]
    <2>1. /\ frame' = [frame EXCEPT ![c] = @ + 1]
          /\ applied' = [applied EXCEPT ![c] = Append(@, pad'[c])]
      BY <1>2, <1>6 DEF RunFrame
    <2>2. frame'[d] = frame[d] + 1 /\ applied'[d] = Append(applied[d], pad'[c])
      BY <1>1, <1>6, <2>1 DEF TypeOK
    <2>3. applied[d] \in Seq([Consoles -> Buttons]) /\ Len(applied[d]) = frame[d]
      BY <1>1 DEF TypeOK, PauseOK
    <2>4. Len(applied'[d]) = frame[d] + 1
      BY <2>2, <2>3
    <2> QED BY <1>1, <1>3, <1>6, <2>2, <2>4
  <1> QED BY <1>4, <1>5, <1>6

\* The buttons a frame is run with: the sample of the console's own that its
\* lag makes due, and the one of its peer that the ring holds for the frame.
LEMMA OwnInputAgrees ==
    ASSUME NEW S, NEW T, NEW c \in Consoles, NEW b \in Buttons, Called(S, T, c, b),
           frame[c] \notin stalled[c]
    PROVE  Agrees(stalled', T, c, frame[c], OwnInput(c, b))
  <1>1. /\ nifiFrame[c] \in Int /\ LagOf(c) \in Nat /\ frame[c] \in Nat
        /\ Newest(c) = nifiFrame[c] + LagOf(c) /\ stalled[c] \subseteq Nat
        /\ nifiFrame[c] >= -1
    BY NewestInt DEF Called
  <1>2. \A e \in Consoles : stalled[e] \subseteq stalled'[e]
    BY NewestAfter
  <1>3. CASE c # Client
    <2>1. OwnInput(c, b) = b /\ LagOf(c) = 0
      BY <1>3 DEF OwnInput, LagOf
    <2>2. frame[c] \in stalled'[c] \/ T[c][frame[c] + LagOf(c)] = b
      BY <1>2 DEF Called, Extends
    <2>3. Agrees(stalled', T, c, frame[c] + LagOf(c), b)
      BY <1>1, <2>2, TakenAgrees
    <2>4. frame[c] + LagOf(c) = frame[c]
      BY <1>1, <2>1
    <2> QED BY <2>1, <2>3, <2>4
  <1>4. CASE c = Client
    <2> DEFINE v == oldInputs[c][History - Lag]
    <2>1. OwnInput(c, b) = v /\ LagOf(c) = Lag /\ Lag \in Nat /\ Lag >= 1
      BY <1>4, SizeAssumption DEF OwnInput, LagOf
    <2>2. Agrees(stalled, S, c, nifiFrame[c] + 1, v)
      <3>1. Agrees(stalled, S, c,
                   nifiFrame[c] + LagOf(c) - History + 1 + (History - Lag), v)
        BY HistorySize DEF Called, AllAgree, HistoryAgrees
      <3>2. nifiFrame[c] + LagOf(c) - History + 1 + (History - Lag) = nifiFrame[c] + 1
        BY <1>1, <2>1, HistorySize
      <3> QED BY <3>1, <3>2
    <2> HIDE DEF v
    <2>3. Agrees(stalled, S, c, frame[c], v) /\ frame[c] <= Newest(c)
      <3>1. CASE FramePassed(c)
        <4>1. frame[c] = nifiFrame[c] + 1
          BY <3>1, NewestAfter
        <4> QED BY <1>1, <2>1, <2>2, <4>1
      <3>2. CASE ~FramePassed(c)
        <4>1. frame[c] = nifiFrame[c]
          BY <3>2, NewestAfter
        <4>2. frame[c] = 0
          BY <4>1 DEF Called, PauseOK
        <4>3. \A t \in Int : t <= Lag => S[c][t] = Idle
          <5>1. StartIdle(S)
            BY DEF Called, AllAgree
          <5>2. \A t \in Int : t <= nifiFrame[c] + LagOf(c) => S[c][t] = Idle
            BY <5>1, <4>1 DEF StartIdle
          <5>3. nifiFrame[c] + LagOf(c) = Lag
            BY <1>1, <2>1, <4>1, <4>2
          <5> QED BY <5>2, <5>3
        <4>4. 1 - Lag \in stalled[c] \/ v = S[c][1]
          BY <2>1, <2>2, <4>1, <4>2 DEF Agrees
        <4>5. 1 - Lag \notin stalled[c]
          BY <1>1, <2>1, <4>2
        <4>6. v = S[c][0]
          BY <2>1, <4>3, <4>4, <4>5
        <4> QED BY <1>1, <2>1, <4>1, <4>2, <4>6 DEF Agrees
      <3> QED BY <3>1, <3>2
    <2>4. Agrees(stalled', T, c, frame[c], v)
      BY <1>1, <1>2, <2>3, StillAgrees DEF Called
    <2> QED BY <2>1, <2>4
  <1> QED BY <1>3, <1>4

LEMMA PeerInputAgrees ==
    ASSUME NEW S, NEW T, NEW c \in Consoles, NEW b \in Buttons, Called(S, T, c, b),
           PeerReady(c)
    PROVE  Agrees(stalled', T, Other(c), frame[c], ReleasedRing(c)[frame[c] % Ring].input)
  <1> DEFINE s == frame[c] % Ring
  <1>1. TypeOK /\ frame[c] \in Nat /\ Other(c) \in Consoles /\ s \in Slots
    BY NewestInt, SlotIndex DEF Called, TypeInv
  <1>2. ReleasedRing(c)[s].ready /\ ReleasedRing(c)[s].frame = frame[c]
    BY DEF PeerReady, Holds
  <1>3. ReleasedRing(c)[s] = recv[c][s]
    BY <1>1, <1>2, ReleasedRingKeeps
  <1> HIDE DEF s
  <1>4. Agrees(stalled, S, Other(c), frame[c], recv[c][s].input)
    BY <1>1, <1>2, <1>3 DEF Called, AllAgree, RingAgrees
  <1>5. frame[c] <= Newest(Other(c))
    BY <1>1, <1>2, <1>3 DEF Called, SkewInv, RingBound
  <1>6. \A e \in Consoles : stalled[e] \subseteq stalled'[e]
    BY NewestAfter
  <1>7. Agrees(stalled', T, Other(c), frame[c], recv[c][s].input)
    BY <1>1, <1>4, <1>5, <1>6, StillAgrees DEF Called
  <1> QED BY <1>3, <1>7 DEF s

LEMMA AppliedStillAgrees ==
    ASSUME NEW S, NEW T, NEW c \in Consoles, NEW b \in Buttons, NEW close \in BOOLEAN,
           Called(S, T, c, b),
           UpdateInputReady(c, b, close) \/ UpdateInputMissing(c, b, close)
    PROVE  AppliedAgrees(T)'
  <1> SUFFICES ASSUME NEW d \in Consoles, NEW i \in 1 .. frame'[d]
               PROVE  /\ \/ i - 1 \in stalled'[d]
                         \/ Agrees(stalled', T, d, i - 1, applied'[d][i][d])
                      /\ Agrees(stalled', T, Other(d), i - 1, applied'[d][i][Other(d)])
    BY DEF AppliedAgrees
  <1>1. TypeOK /\ Other(d) \in Consoles /\ Other(d) # d
    BY OtherConsole DEF Called, TypeInv
  <1>2. \A e \in Consoles : stalled[e] \subseteq stalled'[e]
    BY NewestAfter
  <1>3. CASE i \in 1 .. frame[d] /\ applied'[d][i] = applied[d][i]
    <2>1. /\ i - 1 \in stalled[d] \/ Agrees(stalled, S, d, i - 1, applied[d][i][d])
          /\ Agrees(stalled, S, Other(d), i - 1, applied[d][i][Other(d)])
      BY <1>3 DEF Called, AllAgree, AppliedAgrees
    <2>2. i - 1 \in Int /\ i - 1 <= Newest(d) /\ i - 1 <= Newest(Other(d))
      <3>1. /\ frame[d] \in Nat /\ nifiFrame[d] \in Int /\ LagOf(d) \in Nat
            /\ Newest(d) = nifiFrame[d] + LagOf(d) /\ Newest(Other(d)) \in Int
        BY <1>1, NewestInt DEF Called
      <3>2. frame[d] <= nifiFrame[d] + 1
        BY DEF Called, PauseOK
      <3>3. linked[d] /\ skips[d] = 0
        BY DEF Called, Running, BothLinked, NeverSkipped, Consoles
      <3>4. frame[d] <= Newest(Other(d)) + 1 + 0
        BY <3>3 DEF Called, SkewInv, LinkedSkew
      <3> QED BY <1>3, <3>1, <3>2, <3>4
    <2>3. \/ i - 1 \in stalled'[d]
          \/ Agrees(stalled', T, d, i - 1, applied[d][i][d])
      BY <1>2, <2>1, <2>2, StillAgrees DEF Called
    <2>4. Agrees(stalled', T, Other(d), i - 1, applied[d][i][Other(d)])
      BY <1>1, <1>2, <2>1, <2>2, StillAgrees DEF Called
    <2> QED BY <1>3, <2>3, <2>4
  <1>4. CASE ~(i \in 1 .. frame[d] /\ applied'[d][i] = applied[d][i])
    <2>1. /\ frame[d] \in Nat
          /\ applied[d] \in Seq([Consoles -> Buttons]) /\ Len(applied[d]) = frame[d]
      BY <1>1 DEF TypeOK, Called, PauseOK
    <2>2. ~UpdateInputMissing(c, b, close)
      <3>1. UpdateInputMissing(c, b, close) => frame' = frame /\ applied' = applied
        BY DEF UpdateInputMissing, PausedByWait, RunFrame
      <3> QED BY <1>4, <3>1
    <2>3. UpdateInputReady(c, b, close)
      BY <2>2
    <2>4. /\ RunFrame(c, paused'[c], pad'[c]) /\ PeerReady(c)
          /\ pad'[c][c] = OwnInput(c, b)
          /\ pad'[c][Other(c)] = ReleasedRing(c)[frame[c] % Ring].input
      <3>1. pad'[c] = [g \in Consoles |-> IF g = c THEN OwnInput(c, b)
                          ELSE ReleasedRing(c)[frame[c] % Ring].input]
        BY <1>1, <2>3 DEF UpdateInputReady, TypeOK
      <3> QED BY <2>3, <3>1, OtherConsole DEF UpdateInputReady
    <2>5. /\ frame' = [frame EXCEPT ![c] = @ + 1]
          /\ applied' = [applied EXCEPT ![c] = Append(@, pad'[c])]
      BY <1>4, <2>4 DEF RunFrame
    <2>6. d = c
      BY <1>1, <1>4, <2>5 DEF TypeOK
    <2>7. i = frame[d] + 1 /\ applied'[d][i] = pad'[c]
      <3>1. frame'[d] = frame[d] + 1 /\ applied'[d] = Append(applied[d], pad'[c])
        BY <1>1, <2>5, <2>6 DEF TypeOK
      <3>2. \A j \in 1 .. frame[d] : applied'[d][j] = applied[d][j]
        BY <2>1, <3>1
      <3>3. i = frame[d] + 1
        BY <1>4, <2>1, <3>1, <3>2
      <3> QED BY <2>1, <3>1, <3>3
    <2>8. i - 1 = frame[c]
      BY <2>1, <2>6, <2>7
    <2>9. i - 1 \in stalled'[d] \/ Agrees(stalled', T, d, i - 1, applied'[d][i][d])
      <3>1. CASE frame[c] \in stalled[c]
        BY <1>2, <2>6, <2>8, <3>1
      <3>2. CASE frame[c] \notin stalled[c]
        BY <2>4, <2>6, <2>7, <2>8, <3>2, OwnInputAgrees
      <3> QED BY <3>1, <3>2
    <2> QED BY <2>4, <2>6, <2>7, <2>8, <2>9, PeerInputAgrees
  <1> QED BY <1>3, <1>4

-----------------------------------------------------------------------------
(* Every step keeps the invariant.                                         *)

LEMMA UpdateInputAgree ==
    ASSUME TypeInv, SkewInv, AgreeInv, NEW c \in Consoles, UpdateInput(c), Running'
    PROVE  PauseOK' /\ (\E S \in Samples : AllAgree(S))'
  <1>1. PICK b \in Buttons, close \in BOOLEAN :
            \/ UpdateInputReady(c, b, close)
            \/ UpdateInputMissing(c, b, close)
            \/ GiveUpLink(c, b, close)
    BY DEF UpdateInput
  <1>2. TypeOK
    BY DEF TypeInv
  <1>3. linked'[c] /\ BothLinked' /\ NeverSkipped'
    BY DEF Running, BothLinked, NeverSkipped, Consoles
  <1>4. ~GiveUpLink(c, b, close)
    BY <1>2, <1>3 DEF GiveUpLink, TypeOK
  <1>5. UpdateInputReady(c, b, close) \/ UpdateInputMissing(c, b, close)
    BY <1>1, <1>4
  <1>6. /\ SampleAndSend(c, b, close)
        /\ linked' = linked
        /\ stalled' = stalled \/ stalled' = [stalled EXCEPT ![c] = @ \cup {frame[c]}]
    BY <1>5 DEF UpdateInputReady, UpdateInputMissing
  <1>7. PICK P : /\ \A p \in P : p.cmd # "INPUT"
                 /\ net' = net \cup {InputHistory(c, b)} \cup P
    <2>1. \A p \in HashPackets(c) \cup RequestPackets(c) : p.cmd # "INPUT"
      BY DEF HashPackets, RequestPackets, HashPacket, RequestPacket
    <2>2. CASE UpdateInputReady(c, b, close)
      BY <2>1, <2>2 DEF UpdateInputReady
    <2>3. CASE UpdateInputMissing(c, b, close)
      <3>1. net' = net \cup {InputHistory(c, b)} \cup (HashPackets(c) \cup RequestPackets(c))
        BY <2>3 DEF UpdateInputMissing
      <3> QED BY <2>1, <3>1
    <2> QED BY <1>5, <2>2, <2>3
  <1>8. /\ nifiFrame' = [nifiFrame EXCEPT ![c] = frame[c]]
        /\ recv' = [recv EXCEPT ![c] = ReleasedRing(c)]
        /\ oldInputs' = [oldInputs EXCEPT ![c] = ShiftedInputs(c, b)]
        /\ sent' = [sent EXCEPT ![c][(frame[c] + LagOf(c)) % Ring] =
                       [frame |-> frame[c] + LagOf(c), input |-> b]]
        /\ skips' = skips
    BY <1>6 DEF SampleAndSend
  <1>9. Running
    BY <1>3, <1>6, <1>8 DEF Running, BothLinked, NeverSkipped
  <1>10. PICK S \in Samples : PauseOK /\ AllAgree(S)
    BY <1>9 DEF AgreeInv
  <1>11. PICK T \in Samples : Extends(S, T, c, b)
    BY <1>6, <1>10, SampleTaken DEF AllAgree
  <1>12. Called(S, T, c, b)
    BY <1>6, <1>8, <1>9, <1>10, <1>11 DEF Called
  <1>13. PauseOK'
    BY <1>5, <1>12, CallPauseOK
  <1>14. HistoryAgrees(T)' /\ SentAgrees(T)' /\ RingAgrees(T)' /\ NetAgrees(T)'
    BY <1>7, <1>8, <1>12, HistoryStillAgrees, SentStillAgrees, RingStillAgrees,
       NetStillAgrees
  <1>15. AppliedAgrees(T)' /\ StartIdle(T)'
    BY <1>5, <1>12, AppliedStillAgrees, CallStartIdle
  <1>16. AllAgree(T)'
    BY <1>14, <1>15 DEF AllAgree
  <1> QED BY <1>13, <1>16

\* A received packet holds the samples of its sender.
LEMMA ReceiveInputAgree ==
    ASSUME TypeInv, SkewInv, NEW c \in Consoles, NEW p \in net, ReceiveInput(c, p),
           NEW S, AllAgree(S)
    PROVE  AllAgree(S)'
  <1>1. /\ UNCHANGED <<frame, nifiFrame, oldInputs, sent, net, applied, stalled>>
        /\ p.cmd = "INPUT" /\ p.to = c
    BY DEF ReceiveInput
  <1>2. RingAgrees(S)'
    <2> SUFFICES ASSUME NEW d \in Consoles, NEW s \in Slots, recv'[d][s].ready
                 PROVE  Agrees(stalled, S, Other(d), recv'[d][s].frame, recv'[d][s].input)
      BY <1>1 DEF RingAgrees
    <2> DEFINE fresh == {f \in Tags(p) : /\ InWindow(c, f)
                                         /\ f % Ring = s
                                         /\ ~Holds(recv[c][s], f)}
    <2>1. CASE recv'[d][s] = recv[d][s]
      BY <2>1 DEF AllAgree, RingAgrees
    <2>2. CASE recv'[d][s] # recv[d][s]
      <3>1. d = c
        BY <2>2 DEF ReceiveInput, TypeInv, TypeOK
      <3>2. recv'[c][s] = IF fresh = {} THEN recv[c][s]
                          ELSE LET f == CHOOSE g \in fresh : TRUE
                               IN  [ready |-> TRUE, frame |-> f, input |-> InputFor(p, f)]
        BY DEF ReceiveInput, TypeInv, TypeOK
      <3>3. PICK f \in fresh : recv'[c][s] = [ready |-> TRUE, frame |-> f,
                                              input |-> InputFor(p, f)]
        <4> HIDE DEF fresh
        <4>1. fresh # {}
          BY <2>2, <3>1, <3>2
        <4> QED BY <3>2, <4>1
      <3>4. PICK i \in DOMAIN p.inputs : f = p.first + i
        BY <3>3 DEF Tags
      <3>5. p.first \in Int /\ i \in Int
        BY <1>1, <3>4 DEF TypeInv, NetOK, PacketOK
      <3>6. InputFor(p, f) = p.inputs[i]
        BY <3>4, <3>5 DEF InputFor
      <3>7. Agrees(stalled, S, Other(c), p.first + i, p.inputs[i])
        BY <1>1 DEF AllAgree, NetAgrees
      <3>8. recv'[c][s].frame = f /\ recv'[c][s].input = p.inputs[i]
        BY <3>3, <3>6
      <3> QED BY <3>1, <3>4, <3>7, <3>8
    <2> QED BY <2>1, <2>2
  <1>3. /\ HistoryAgrees(S)' /\ SentAgrees(S)' /\ NetAgrees(S)' /\ AppliedAgrees(S)'
        /\ StartIdle(S)'
    BY <1>1 DEF AllAgree, HistoryAgrees, SentAgrees, NetAgrees, AppliedAgrees, StartIdle
  <1> QED BY <1>2, <1>3 DEF AllAgree

LEMMA ReceiveRequestAgree ==
    ASSUME TypeInv, SkewInv, NEW c \in Consoles, NEW p \in net, ReceiveRequest(c, p),
           NEW S, AllAgree(S)
    PROVE  AllAgree(S)'
  <1> DEFINE slot == sent[c][p.frame % Ring]
             q == InputPacket(Other(c), p.frame, [i \in {0} |-> slot.input])
  <1>1. /\ UNCHANGED <<frame, nifiFrame, oldInputs, sent, recv, applied, stalled>>
        /\ net' = net \cup {q} /\ slot.frame = p.frame
    BY DEF ReceiveRequest, inputVars
  <1>2. p.frame \in Nat /\ p.frame % Ring \in Slots
    BY SlotIndex DEF TypeInv, NetOK, PacketOK, ReceiveRequest
  <1>3. Agrees(stalled, S, c, p.frame, slot.input)
    BY <1>1, <1>2 DEF AllAgree, SentAgrees
  <1>4. /\ q.to = Other(c) /\ q.first = p.frame /\ DOMAIN q.inputs = {0}
        /\ q.inputs[0] = slot.input /\ Other(q.to) = c
    BY OtherConsole DEF InputPacket
  <1>5. NetAgrees(S)'
    <2> SUFFICES ASSUME NEW r \in net', r.cmd = "INPUT", NEW i \in DOMAIN r.inputs
                 PROVE  Agrees(stalled, S, Other(r.to), r.first + i, r.inputs[i])
      BY <1>1 DEF NetAgrees
    <2>1. CASE r \in net
      BY <2>1 DEF AllAgree, NetAgrees
    <2>2. CASE r = q
      <3> HIDE DEF q, slot
      <3>1. i = 0 /\ r.first + i = p.frame
        BY <1>2, <1>4, <2>2
      <3> QED BY <1>3, <1>4, <2>2, <3>1
    <2> QED BY <1>1, <2>1, <2>2
  <1>6. /\ HistoryAgrees(S)' /\ SentAgrees(S)' /\ RingAgrees(S)' /\ AppliedAgrees(S)'
        /\ StartIdle(S)'
    BY <1>1 DEF AllAgree, HistoryAgrees, SentAgrees, RingAgrees, AppliedAgrees, StartIdle
  <1> QED BY <1>5, <1>6 DEF AllAgree

LEMMA NextAgree == TypeInv /\ SkewInv /\ AgreeInv /\ [Next]_vars => AgreeInv'
  <1> SUFFICES ASSUME TypeInv, SkewInv, AgreeInv, [Next]_vars, Running'
               PROVE  PauseOK' /\ (\E S \in Samples : AllAgree(S))'
    BY DEF AgreeInv
  <1>1. ASSUME UNCHANGED <<frame, nifiFrame, pauseVars, applied, stalled, skips>>,
               \A S : AllAgree(S) => AllAgree(S)'
        PROVE  PauseOK' /\ (\E S \in Samples : AllAgree(S))'
    <2>1. Running
      BY <1>1 DEF Running, BothLinked, NeverSkipped, pauseVars
    <2>2. PICK S \in Samples : PauseOK /\ AllAgree(S)
      BY <2>1 DEF AgreeInv
    <2>3. PauseOK'
      BY <1>1, <2>2 DEF PauseOK, pauseVars
    <2> QED BY <1>1, <2>2, <2>3
  <1>2. ASSUME NEW c \in Consoles, OpenTheMenu(c) PROVE FALSE
    <2>1. skips' = [skips EXCEPT ![c] = @ + 1] /\ skips \in [Consoles -> Nat]
      BY <1>2 DEF OpenTheMenu, OpenMenu, TypeInv, TypeOK
    <2>2. skips'[c] = skips[c] + 1 /\ skips[c] \in Nat
      BY <2>1
    <2>3. skips'[c] = 0
      BY DEF Running, NeverSkipped, Consoles
    <2> QED BY <2>2, <2>3
  <1>3. ASSUME NEW c \in Consoles, Receive(c)
        PROVE  PauseOK' /\ (\E S \in Samples : AllAgree(S))'
    <2>1. PICK p \in net :
              ReceiveInput(c, p) \/ ReceiveRequest(c, p) \/ ReceiveHash(c, p)
      BY <1>3 DEF Receive
    <2>2. UNCHANGED <<frame, nifiFrame, pauseVars, applied, stalled, skips>>
      BY <2>1 DEF ReceiveInput, ReceiveRequest, ReceiveHash, inputVars
    <2>3. CASE ReceiveHash(c, p)
      <3>1. UNCHANGED <<frame, inputVars, net, applied, stalled>>
        BY <2>3 DEF ReceiveHash
      <3>2. \A S : AllAgree(S) => AllAgree(S)'
        BY <3>1 DEF AllAgree, HistoryAgrees, SentAgrees, RingAgrees, NetAgrees,
                    AppliedAgrees, StartIdle, inputVars
      <3> QED BY <1>1, <2>2, <3>2
    <2>4. CASE ReceiveInput(c, p)
      <3>1. \A S : AllAgree(S) => AllAgree(S)'
        BY <2>4, ReceiveInputAgree
      <3> QED BY <1>1, <2>2, <3>1
    <2>5. CASE ReceiveRequest(c, p)
      <3>1. \A S : AllAgree(S) => AllAgree(S)'
        BY <2>5, ReceiveRequestAgree
      <3> QED BY <1>1, <2>2, <3>1
    <2> QED BY <2>1, <2>3, <2>4, <2>5
  <1>4. CASE UNCHANGED vars
    <2>1. UNCHANGED <<frame, inputVars, pauseVars, net, applied, stalled, skips>>
      BY <1>4 DEF vars
    <2>2. \A S : AllAgree(S) => AllAgree(S)'
      BY <2>1 DEF AllAgree, HistoryAgrees, SentAgrees, RingAgrees, NetAgrees,
                  AppliedAgrees, StartIdle, inputVars
    <2> QED BY <1>1, <2>1, <2>2 DEF inputVars
  <1> QED BY <1>2, <1>3, <1>4, UpdateInputAgree DEF Next

\* Two consoles that are both linked, and have skipped no call, have run every
\* frame with the same buttons, but for the samples taken in a wait.
LEMMA AgreeImplies == TypeInv /\ AgreeInv => LockstepAgreement
  <1> SUFFICES ASSUME TypeInv, AgreeInv, BothLinked, NeverSkipped,
                      NEW i \in DOMAIN applied[Host] \cap DOMAIN applied[Client]
               PROVE  /\ i - 1 \notin stalled[Host] =>
                             applied[Host][i][Host] = applied[Client][i][Host]
                      /\ i - 1 \notin stalled[Client] /\ i - 1 - Lag \notin stalled[Client] =>
                             applied[Host][i][Client] = applied[Client][i][Client]
    BY DEF LockstepAgreement
  <1>1. PICK S \in Samples : PauseOK /\ AppliedAgrees(S)
    BY DEF AgreeInv, Running, AllAgree
  <1>2. /\ Host \in Consoles /\ Client \in Consoles
        /\ Other(Host) = Client /\ Other(Client) = Host
        /\ LagOf(Host) = 0 /\ LagOf(Client) = Lag
    BY ConsoleAssumption DEF Consoles, Other, LagOf
  <1>3. i \in 1 .. frame[Host] /\ i \in 1 .. frame[Client] /\ i \in Int
    <2>1. \A c \in Consoles : /\ applied[c] \in Seq([Consoles -> Buttons])
                              /\ Len(applied[c]) = frame[c] /\ frame[c] \in Nat
      BY <1>1 DEF PauseOK, TypeInv, TypeOK
    <2>2. DOMAIN applied[Host] = 1 .. frame[Host] /\ DOMAIN applied[Client] = 1 .. frame[Client]
      BY <1>2, <2>1
    <2> QED BY <1>2, <2>1, <2>2
  <1>4. /\ i - 1 \in stalled[Host] \/ Agrees(stalled, S, Host, i - 1, applied[Host][i][Host])
        /\ Agrees(stalled, S, Client, i - 1, applied[Host][i][Client])
        /\ i - 1 \in stalled[Client] \/ Agrees(stalled, S, Client, i - 1, applied[Client][i][Client])
        /\ Agrees(stalled, S, Host, i - 1, applied[Client][i][Host])
    BY <1>1, <1>2, <1>3 DEF AppliedAgrees
  <1>5. i - 1 - LagOf(Host) = i - 1 /\ i - 1 - LagOf(Client) = i - 1 - Lag
    BY <1>2, <1>3
  <1> QED BY <1>4, <1>5 DEF Agrees

\* The two consoles never drift apart: in every frame both have run, both gave
\* each Game Boy the same buttons (nifiUpdateInput, mgr_runFrame).
THEOREM LockstepAgrees == Spec => []LockstepAgreement
  <1>1. Init => AgreeInv
    BY InitAgree
  <1>2. TypeInv /\ SkewInv /\ AgreeInv /\ [Next]_vars => AgreeInv'
    BY NextAgree
  <1>3. Spec => [](TypeInv /\ SkewInv)
    BY Skew
  <1>4. TypeInv /\ AgreeInv => LockstepAgreement
    BY AgreeImplies
  <1> QED BY <1>1, <1>2, <1>3, <1>4, PTL DEF Spec
=============================================================================
