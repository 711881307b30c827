------------------------------ MODULE Link_proofs ------------------------------
(***************************************************************************)
(* Proofs about the two ways in which a Game Boy is linked to another.     *)
(*                                                                         *)
(* The fragmented transfer (FragmentTransfer), for every set of sizes and  *)
(* every number of retries and sessions: every variable keeps its type,    *)
(* what is passed on is complete and in order, a send that succeeded was   *)
(* received, and the protocol implements WholeTransfer.                    *)
(*                                                                         *)
(* The link cable (LinkCable), for every length of a frame, a byte and an  *)
(* opcode.  A Game Boy has a cycle to stop at only while it is behind the  *)
(* other, and the other is not the one that runs (Standing): mgr_runFrame  *)
(* runs the one that is behind.  With it goes the type invariant, whose    *)
(* only conjunct that is not immediate is that the cycles to the next      *)
(* event are between none and a frame.                                     *)
(* Where one program only clocks and the other only waits, the first stays *)
(* gbUno, and the second is given no more cycles than it is behind         *)
(* (Leashed): so it is ahead by no more than the opcode it could not stop  *)
(* in and the service of an interrupt.                                     *)
(***************************************************************************)
EXTENDS FragmentTransfer, LinkCable, TLAPS

-----------------------------------------------------------------------------
(* The fragmented transfer: the invariants.                                *)

\* Types, and that a session's fragments are those of its one transfer, up to
\* the one being sent.
SentOK ==
    /\ \A t \in sent : t.id \in 1 .. session
    /\ \A t, u \in sent : t.id = u.id => t = u
    /\ pc = "idle" => \A t \in sent : t.id # session
    /\ session <= MaxSessions

FramesOK ==
    \A p \in frames :
        /\ [id |-> p.id, count |-> p.count] \in sent
        /\ p.index < p.count
        /\ pc = "sending" /\ p.id = session => p.index <= index

SendingOK ==
    pc = "sending" =>
        /\ [id |-> session, count |-> count] \in sent
        /\ index < count
        /\ acked # NoFragment => [id |-> session, index |-> acked] \in acks

\* The places of the buffer before next hold their fragments.
BufferOK ==
    active => \A i \in 0 .. (next - 1) :
                 /\ buffer[i] \in frames
                 /\ buffer[i].index = i
                 /\ buffer[i].count = total

\* A client that joined in a clean state holds fragments of its session only.
CleanOK ==
    phase = "joined" /\ clean /\ active =>
        \A i \in 0 .. (next - 1) : buffer[i].id = joined

DeliveredOK ==
    \A d \in delivered :
        d.connected /\ d.clean => \E t \in sent : d.data = Whole!Data(t)

TypeInv == TypeOK /\ SentOK /\ FramesOK /\ SendingOK
TransferInv == BufferOK /\ CleanOK /\ Assembled

-----------------------------------------------------------------------------
(* What the sender may conclude from an acknowledgement.                   *)

\* The client has this session's data.
Got ==
    \E d \in delivered :
        /\ d.connected /\ d.clean
        /\ \A i \in DOMAIN d.data : d.data[i].id = session

\* The client has this session's fragment i, by itself or in the whole data.
Held(i) == Got \/ (active /\ total = count /\ i < next)

Faultless == stayed /\ clean /\ session \notin noMemory

StayInv ==
    /\ stayed => phase = "joined" /\ joined = session
    /\ stayed /\ pc = "idle" => \A a \in acks : a.id # session
    /\ Faultless /\ pc = "sending" =>
          /\ \A a \in acks : a.id = session => Held(a.index)
          /\ \A i \in 0 .. (index - 1) : [id |-> session, index |-> i] \in acks
    /\ Faultless /\ pc = "done" => Got
-----------------------------------------------------------------------------
(* Lemmas.                                                                 *)

\* A fragment is copied to its place and the places before it are kept.
LEMMA FilledFacts ==
    ASSUME TypeOK, NEW p \in frames, p.index < p.count, Fits(p)
    PROVE  /\ Filled(p) \in [0 .. (p.count - 1) -> Fragments \cup {Garbage}]
           /\ Filled(p)[p.index] = p
           /\ \A i \in 0 .. (p.index - 1) :
                 active /\ i < next /\ total = p.count /\ Filled(p)[i] = buffer[i]
  <1>1. /\ p \in Fragments /\ p.index \in Nat /\ p.count \in Nat
        /\ p.index \in 0 .. (p.count - 1)
    <2>1. p \in Fragments
      BY DEF TypeOK
    <2>2. p.index \in Nat /\ p.count \in Counts
      BY <2>1 DEF Fragments
    <2>3. p.count \in Nat
      BY <2>2, CountsAssumption
    <2> QED BY <2>1, <2>2, <2>3
  <1>2. CASE p.index = 0
    <2> DEFINE old == [i \in 0 .. (p.count - 1) |-> Garbage]
    <2>1. Filled(p) = [old EXCEPT ![p.index] = p]
      BY <1>2 DEF Filled
    <2>2. old \in [0 .. (p.count - 1) -> Fragments \cup {Garbage}]
      OBVIOUS
    <2> HIDE DEF old
    <2> QED BY <1>1, <1>2, <2>1, <2>2
  <1>3. CASE p.index # 0
    <2>1. active /\ total = p.count /\ p.index = next
      BY <1>3 DEF Fits
    <2>2. Filled(p) = [buffer EXCEPT ![p.index] = p]
      BY <1>3 DEF Filled
    <2>3. buffer \in [0 .. (p.count - 1) -> Fragments \cup {Garbage}]
      BY <2>1 DEF TypeOK, BufferType
    <2> QED BY <1>1, <2>1, <2>2, <2>3
  <1> QED BY <1>2, <1>3

\* Every step of ReceiveFragment receives one of the fragments sent.
LEMMA ReceiveCases ==
    ASSUME ReceiveFragment
    PROVE  \E p \in frames :
              /\ Accepts(p) /\ Acknowledge(p)
              /\ UNCHANGED <<hostVars, phase, joined, clean, stayed, searches>>
              /\ \/ ReceiveRepeated(p) \/ ReceiveMismatch(p) \/ ReceiveNext(p)
                 \/ ReceiveLast(p) \/ ReceiveNoMemory(p)
  BY DEF ReceiveFragment

-----------------------------------------------------------------------------
(* Type correctness.                                                       *)

LEMMA InitTypeInv == Init => TypeInv
  <1> SUFFICES ASSUME Init PROVE TypeInv
    OBVIOUS
  <1>1. TypeOK
    <2>1. BufferType
      BY DEF Init, BufferType
    <2>2. active \in BOOLEAN /\ clean \in BOOLEAN /\ stayed \in BOOLEAN
      BY Zenon DEF Init
    <2>3. /\ session \in Nat /\ pc \in {"idle", "sending", "done", "failed"}
          /\ count \in Counts \cup {0} /\ index \in Nat /\ tries \in 0 .. Retries
          /\ acked \in Nat \cup {NoFragment}
          /\ frames \subseteq Fragments /\ acks \subseteq [id : Nat, index : Nat]
          /\ sent \subseteq [id : Nat, count : Counts]
          /\ phase \in {"off", "searching", "joined"} /\ joined \in Nat
          /\ next \in Nat /\ total \in Counts \cup {0}
          /\ noMemory \subseteq Nat /\ searches \in Nat
      BY LimitsAssumption DEF Init
    <2> QED BY <2>1, <2>2, <2>3, Zenon DEF TypeOK
  <1>2. SentOK /\ FramesOK /\ SendingOK
    BY LimitsAssumption DEF Init, SentOK, FramesOK, SendingOK
  <1> QED BY <1>1, <1>2 DEF TypeInv

LEMMA ReceiveTypeOK ==
    ASSUME TypeInv, ReceiveFragment
    PROVE  TypeOK'
  <1>1. PICK p \in frames :
              /\ Accepts(p) /\ Acknowledge(p)
              /\ UNCHANGED <<hostVars, phase, joined, clean, stayed, searches>>
              /\ \/ ReceiveRepeated(p) \/ ReceiveMismatch(p) \/ ReceiveNext(p)
                 \/ ReceiveLast(p) \/ ReceiveNoMemory(p)
    BY ReceiveCases
  <1>2. p \in Fragments /\ p.index \in Nat /\ p.count \in Counts /\ p.id \in Nat
    BY DEF TypeInv, TypeOK, Fragments
  <1>3. p.index < p.count
    BY DEF TypeInv, FramesOK
  <1>4. p.count \in Nat /\ p.count # 0 /\ 0 \notin Counts
    BY <1>2, CountsAssumption
  <1>5. acks' \subseteq [id : Nat, index : Nat]
    BY <1>1, <1>2 DEF Acknowledge, TypeInv, TypeOK
  <1>6. /\ active' \in BOOLEAN /\ next' \in Nat /\ total' \in Counts \cup {0}
        /\ noMemory' \subseteq Nat
        /\ BufferType'
    <2>1. CASE ReceiveRepeated(p)
      BY <2>1 DEF ReceiveRepeated, sequenceVars, BufferType, TypeInv, TypeOK
    <2>2. CASE ReceiveMismatch(p)
      BY <2>2 DEF ReceiveMismatch, Forget, BufferType, TypeInv, TypeOK
    <2>3. CASE ReceiveNext(p)
      <3>1. buffer' \in [0 .. (p.count - 1) -> Fragments \cup {Garbage}]
        BY <2>3, <1>3, FilledFacts DEF ReceiveNext, TypeInv
      <3> QED BY <2>3, <3>1, <1>2, <1>4 DEF ReceiveNext, BufferType, TypeInv, TypeOK
    <2>4. CASE ReceiveLast(p)
      BY <2>4 DEF ReceiveLast, Forget, BufferType, TypeInv, TypeOK
    <2>5. CASE ReceiveNoMemory(p)
      BY <2>5, <1>2 DEF ReceiveNoMemory, Forget, BufferType, TypeInv, TypeOK
    <2> QED BY <1>1, <2>1, <2>2, <2>3, <2>4, <2>5
  <1> QED BY <1>1, <1>5, <1>6 DEF TypeInv, TypeOK, hostVars

LEMMA NextTypeInv == ASSUME TypeInv, [Next]_vars PROVE TypeInv'
  <1> USE DEF TypeInv
  <1>1. CASE NewSession
    <2>1. /\ session' = session + 1 /\ session < MaxSessions /\ pc' = "idle"
          /\ stayed' = FALSE
          /\ UNCHANGED <<count, index, tries, acked, frames, acks, sent, phase,
                joined, active, next, total, buffer, clean, searches, noMemory>>
      BY <1>1 DEF NewSession, sequenceVars
    <2>2. TypeOK'
      <3>1. BufferType'
        BY <2>1 DEF TypeOK, BufferType
      <3>2. session' \in Nat /\ pc' \in {"idle", "sending", "done", "failed"}
        BY <2>1 DEF TypeOK
      <3>3. stayed' \in BOOLEAN
        BY <2>1, Zenon
      <3> QED BY <2>1, <3>1, <3>2, <3>3, Zenon DEF TypeOK, Fragments
    <2>3. SentOK'
      BY <2>1, LimitsAssumption DEF TypeOK, SentOK
    <2> QED BY <2>1, <2>2, <2>3 DEF FramesOK, SendingOK
  <1>2. CASE BeginTransfer
    <2>1. PICK n \in Counts :
              /\ count' = n
              /\ sent' = sent \cup {[id |-> session, count |-> n]}
              /\ SendFragment(n, 0)
      BY <1>2 DEF BeginTransfer
    <2>2. n \in Nat /\ n > 0 /\ session \in Nat /\ session > 0
      BY <1>2, CountsAssumption DEF BeginTransfer, TypeOK
    <2>3. /\ frames' = frames \cup {[id |-> session, count |-> n, index |-> 0]}
          /\ index' = 0 /\ tries' = 0 /\ acked' = NoFragment
      BY <2>1 DEF SendFragment, Fragment
    <2>4. /\ pc = "idle" /\ pc' = "sending" /\ session' = session
          /\ UNCHANGED <<acks, clientVars, delivered, noMemory>>
      BY <1>2 DEF BeginTransfer
    <2>5. TypeOK'
      BY <2>1, <2>2, <2>3, <2>4, LimitsAssumption
         DEF TypeOK, BufferType, Fragments, clientVars, sequenceVars
    <2>6. SentOK'
      BY <2>1, <2>2, <2>4 DEF SentOK
    <2>7. FramesOK'
      <3>1. ASSUME NEW p \in frames PROVE p.id # session
        BY <2>4 DEF FramesOK, SentOK
      <3>2. ASSUME NEW p \in frames PROVE
               /\ [id |-> p.id, count |-> p.count] \in sent'
               /\ p.index < p.count
               /\ pc' = "sending" /\ p.id = session' => p.index <= index'
        BY <2>1, <2>4, <3>1 DEF FramesOK
      <3> DEFINE q == [id |-> session, count |-> n, index |-> 0]
      <3>3. /\ [id |-> q.id, count |-> q.count] \in sent'
            /\ q.index < q.count
            /\ q.index <= index'
        BY <2>1, <2>2, <2>3
      <3>4. \A p \in frames' : p \in frames \/ p = q
        BY <2>3
      <3> HIDE DEF q
      <3> QED BY <3>2, <3>3, <3>4 DEF FramesOK
    <2>8. SendingOK'
      BY <2>1, <2>2, <2>3, <2>4 DEF SendingOK
    <2> QED BY <2>5, <2>6, <2>7, <2>8
  <1>3. CASE NextFragment
    <2>2. /\ frames' = frames \cup {[id |-> session, count |-> count, index |-> index + 1]}
          /\ index' = index + 1 /\ tries' = 0 /\ acked' = NoFragment
          /\ pc = "sending" /\ index + 1 < count
          /\ UNCHANGED <<session, pc, count, sent, acks, clientVars, delivered, noMemory>>
      BY <1>3 DEF NextFragment, SendFragment, Fragment
    <2>3. count \in Counts /\ count \in Nat /\ session \in Nat /\ index \in Nat
      BY <2>2, CountsAssumption DEF SendingOK, TypeOK
    <2>4. TypeOK'
      BY <2>2, <2>3, LimitsAssumption DEF TypeOK, BufferType, Fragments, clientVars, sequenceVars
    <2>5. SentOK'
      BY <2>2 DEF SentOK
    <2>6. FramesOK'
      <3>1. ASSUME NEW p \in frames PROVE p.index \in Nat
        BY DEF TypeOK, BufferType, Fragments
      <3>2. ASSUME NEW p \in frames PROVE
               /\ [id |-> p.id, count |-> p.count] \in sent'
               /\ p.index < p.count
               /\ pc' = "sending" /\ p.id = session' => p.index <= index'
        BY <2>2, <2>3, <3>1 DEF FramesOK
      <3> DEFINE q == [id |-> session, count |-> count, index |-> index + 1]
      <3>3. /\ [id |-> q.id, count |-> q.count] \in sent'
            /\ q.index < q.count
            /\ q.index <= index'
        BY <2>2, <2>3 DEF SendingOK
      <3>4. \A p \in frames' : p \in frames \/ p = q
        BY <2>2
      <3> HIDE DEF q
      <3> QED BY <3>2, <3>3, <3>4 DEF FramesOK
    <2>7. SendingOK'
      BY <2>2, <2>3 DEF SendingOK
    <2> QED BY <2>4, <2>5, <2>6, <2>7
  <1>4. CASE TransferDone
    BY <1>4, LimitsAssumption DEF TransferDone, EndTransfer, NoFragment, TypeOK, BufferType, SentOK, FramesOK, SendingOK,
           clientVars, sequenceVars, Fragments
  <1>5. CASE SendAgain
    BY <1>5, LimitsAssumption DEF SendAgain, TypeOK, BufferType, SentOK, FramesOK, SendingOK,
           clientVars, sequenceVars, Fragments
  <1>6. CASE GiveUp
    BY <1>6, LimitsAssumption DEF GiveUp, EndTransfer, NoFragment, TypeOK, BufferType, SentOK, FramesOK, SendingOK,
           clientVars, sequenceVars, Fragments
  <1>7. CASE ReceiveAck
    BY <1>7 DEF ReceiveAck, TypeOK, BufferType, SentOK, FramesOK, SendingOK, NoFragment,
           clientVars, sequenceVars, Fragments
  <1>8. CASE Search
    <2>1. UNCHANGED <<hostVars, acks, joined, sequenceVars, clean, noMemory>>
          /\ phase' = "searching" /\ searches' = searches + 1 /\ stayed' = FALSE
      BY <1>8 DEF Search
    <2>2. TypeOK'
      <3>1. BufferType'
        BY <2>1 DEF TypeOK, BufferType, sequenceVars
      <3>2. phase' \in {"off", "searching", "joined"} /\ searches' \in Nat
        BY <2>1 DEF TypeOK
      <3>3. stayed' \in BOOLEAN
        BY <2>1, Zenon
      <3> QED BY <2>1, <3>1, <3>2, <3>3, Zenon DEF TypeOK, Fragments, hostVars, sequenceVars
    <2> QED BY <2>1, <2>2 DEF SentOK, FramesOK, SendingOK, hostVars
  <1>9. CASE Join
    BY <1>9 DEF Join, TypeOK, BufferType, SentOK, FramesOK, SendingOK, hostVars, sequenceVars,
           Fragments
  <1>10. CASE StopLink
    BY <1>10 DEF StopLink, Forget, TypeOK, BufferType, SentOK, FramesOK, SendingOK, hostVars,
           Fragments
  <1>11. CASE ReceiveFragment
    <2>1. UNCHANGED hostVars /\ acks \subseteq acks'
      BY <1>11 DEF ReceiveFragment, Acknowledge
    <2> QED BY <1>11, <2>1, ReceiveTypeOK DEF SentOK, FramesOK, SendingOK, hostVars
  <1>12. CASE UNCHANGED vars
    BY <1>12 DEF vars, hostVars, clientVars, sequenceVars, TypeOK, BufferType, SentOK, FramesOK,
           SendingOK, Fragments
  <1> QED BY <1>1, <1>2, <1>3, <1>4, <1>5, <1>6, <1>7, <1>8, <1>9, <1>10, <1>11, <1>12
          DEF Next

\* Every variable keeps its type, whatever the sizes and the limits.
THEOREM TypeCorrect == Spec => []TypeOK
  <1>1. TypeInv /\ [Next]_vars => TypeInv'
    BY NextTypeInv
  <1>2. TypeInv => TypeOK
    BY DEF TypeInv
  <1> QED BY <1>1, <1>2, InitTypeInv, PTL DEF Spec

-----------------------------------------------------------------------------
(* What is passed on.                                                      *)

\* After p is copied, the places up to p's hold the fragments sent for them,
\* of the client's session if it joined in a clean state.
LEMMA FilledBuffer ==
    ASSUME TypeInv, BufferOK, CleanOK, NEW p \in frames, Accepts(p), Fits(p)
    PROVE  /\ Filled(p) \in [0 .. (p.count - 1) -> Fragments \cup {Garbage}]
           /\ \A i \in 0 .. p.index :
                 /\ Filled(p)[i] \in frames
                 /\ Filled(p)[i].index = i
                 /\ Filled(p)[i].count = p.count
                 /\ phase = "joined" /\ clean => Filled(p)[i].id = joined
  <1>1. p.index < p.count /\ p \in Fragments
    BY DEF TypeInv, TypeOK, FramesOK
  <1>2. p.index \in Nat
    BY <1>1 DEF Fragments
  <1>3. /\ Filled(p) \in [0 .. (p.count - 1) -> Fragments \cup {Garbage}]
        /\ Filled(p)[p.index] = p
        /\ \A i \in 0 .. (p.index - 1) :
              active /\ i < next /\ total = p.count /\ Filled(p)[i] = buffer[i]
    BY <1>1, FilledFacts DEF TypeInv
  <1>4. ASSUME NEW i \in 0 .. p.index
        PROVE  /\ Filled(p)[i] \in frames
               /\ Filled(p)[i].index = i
               /\ Filled(p)[i].count = p.count
               /\ phase = "joined" /\ clean => Filled(p)[i].id = joined
    <2>1. CASE i = p.index
      BY <2>1, <1>3 DEF Accepts
    <2>2. CASE i # p.index
      <3>1. i \in 0 .. (p.index - 1)
        BY <2>2, <1>2
      <3>2. active /\ i < next /\ total = p.count /\ Filled(p)[i] = buffer[i]
        BY <3>1, <1>3
      <3>3. i \in 0 .. (next - 1)
        BY <3>2, <1>2 DEF TypeInv, TypeOK
      <3> QED BY <3>2, <3>3 DEF BufferOK, CleanOK
    <2> QED BY <2>1, <2>2
  <1> QED BY <1>3, <1>4

LEMMA InitTransferInv == Init => TransferInv
  BY DEF Init, TransferInv, BufferOK, CleanOK, Assembled

\* Steps that leave the client's sequence alone.
LEMMA OtherStepsTransferInv ==
    ASSUME TransferInv, frames \subseteq frames',
           UNCHANGED <<sequenceVars, phase, joined, clean, delivered>>
    PROVE  TransferInv'
  BY DEF TransferInv, BufferOK, CleanOK, Assembled, sequenceVars

LEMMA ReceiveTransferInv ==
    ASSUME TypeInv, TransferInv, ReceiveFragment
    PROVE  TransferInv'
  <1> USE DEF TransferInv
  <1>1. PICK p \in frames :
              /\ Accepts(p) /\ Acknowledge(p)
              /\ UNCHANGED <<hostVars, phase, joined, clean, stayed, searches>>
              /\ \/ ReceiveRepeated(p) \/ ReceiveMismatch(p) \/ ReceiveNext(p)
                 \/ ReceiveLast(p) \/ ReceiveNoMemory(p)
    BY ReceiveCases
  <1>2. frames' = frames /\ phase' = phase /\ joined' = joined /\ clean' = clean
    BY <1>1 DEF hostVars
  <1>3. p \in Fragments /\ p.index \in Nat /\ p.count \in Nat
    <2>1. p \in Fragments
      BY DEF TypeInv, TypeOK
    <2> QED BY <2>1, CountsAssumption DEF Fragments
  <1>4. CASE ReceiveRepeated(p)
    BY <1>2, <1>4, OtherStepsTransferInv DEF ReceiveRepeated
  <1>5. CASE ReceiveMismatch(p) \/ ReceiveNoMemory(p)
    BY <1>2, <1>5 DEF ReceiveMismatch, ReceiveNoMemory, Forget, BufferOK, CleanOK,
                      Assembled
  <1>6. CASE ReceiveNext(p)
    <2>1. /\ next' = p.index + 1 /\ total' = p.count /\ buffer' = Filled(p)
          /\ delivered' = delivered /\ Fits(p)
      BY <1>6 DEF ReceiveNext
    <2>2. \A i \in 0 .. (next' - 1) :
             /\ buffer'[i] \in frames'
             /\ buffer'[i].index = i
             /\ buffer'[i].count = total'
             /\ phase = "joined" /\ clean => buffer'[i].id = joined
      BY <1>1, <1>2, <1>3, <2>1, FilledBuffer
    <2>3. BufferOK' /\ CleanOK'
      BY <1>2, <2>2 DEF BufferOK, CleanOK
    <2>4. Assembled'
      BY <1>2, <2>1 DEF Assembled
    <2> QED BY <2>3, <2>4
  <1>7. CASE ReceiveLast(p)
    <2>1. /\ Fits(p) /\ p.index + 1 = p.count
          /\ delivered' = delivered \cup {[data |-> Filled(p),
                              connected |-> phase = "joined", clean |-> clean]}
      BY <1>7 DEF ReceiveLast
    <2>2. /\ DOMAIN Filled(p) = 0 .. (p.count - 1)
          /\ \A i \in 0 .. (p.count - 1) :
                Filled(p)[i] \in frames /\ Filled(p)[i].index = i
                /\ Filled(p)[i].count = p.count
      BY <1>1, <1>3, <2>1, FilledBuffer
    <2>3. Assembled'
      <3>1. \A i \in DOMAIN Filled(p) :
               /\ Filled(p)[i] \in frames
               /\ Filled(p)[i].index = i
               /\ DOMAIN Filled(p) = 0 .. (Filled(p)[i].count - 1)
        BY <2>2
      <3>2. \A d \in delivered' : d \in delivered \/ d.data = Filled(p)
        BY <2>1
      <3> QED BY <1>2, <3>1, <3>2 DEF Assembled
    <2> QED BY <1>7, <2>3 DEF ReceiveLast, Forget, BufferOK, CleanOK
  <1> QED BY <1>1, <1>4, <1>5, <1>6, <1>7

LEMMA NextTransferInv == ASSUME TypeInv, TransferInv, [Next]_vars PROVE TransferInv'
  <1>1. CASE NewSession \/ TransferDone \/ SendAgain \/ GiveUp \/ ReceiveAck
             \/ UNCHANGED vars
    <2>1. /\ frames' = frames
          /\ UNCHANGED <<sequenceVars, phase, joined, clean, delivered>>
      BY <1>1 DEF NewSession, TransferDone, SendAgain, GiveUp, ReceiveAck, vars,
                  hostVars, clientVars
    <2> QED BY <2>1, OtherStepsTransferInv
  <1>2. CASE BeginTransfer \/ NextFragment
    <2>1. /\ frames \subseteq frames'
          /\ UNCHANGED <<sequenceVars, phase, joined, clean, delivered>>
      BY <1>2 DEF BeginTransfer, NextFragment, SendFragment, clientVars
    <2> QED BY <2>1, OtherStepsTransferInv
  <1>3. CASE Search
    BY <1>3 DEF Search, hostVars, sequenceVars, TransferInv, BufferOK, CleanOK,
                Assembled
  <1>4. CASE Join
    <2>1. /\ UNCHANGED <<frames, active, next, total, buffer, delivered>>
          /\ joined' = session
          /\ clean' = (active => \A i \in 0 .. (next - 1) :
                                    buffer[i] = Fragment(session, total, i))
      BY <1>4 DEF Join, hostVars, sequenceVars
    <2>2. CleanOK'
      <3>1. clean' /\ active => \A i \in 0 .. (next - 1) :
                                   buffer[i] = Fragment(session, total, i)
        BY <2>1, Zenon
      <3>2. \A i : Fragment(session, total, i).id = session
        BY DEF Fragment
      <3>3. ASSUME clean', active PROVE \A i \in 0 .. (next - 1) : buffer[i].id = session
        BY <3>1, <3>2, <3>3, Zenon
      <3> QED BY <2>1, <3>3, Zenon DEF CleanOK
    <2> QED BY <2>1, <2>2 DEF TransferInv, BufferOK, Assembled
  <1>5. CASE StopLink
    BY <1>5 DEF StopLink, Forget, hostVars, TransferInv, BufferOK, CleanOK, Assembled
  <1>6. CASE ReceiveFragment
    BY <1>6, ReceiveTransferInv
  <1> QED BY <1>1, <1>2, <1>3, <1>4, <1>5, <1>6 DEF Next

LEMMA TransferSafe == Spec => [](TypeInv /\ TransferInv)
  <1>1. TypeInv /\ TransferInv /\ [Next]_vars => TypeInv' /\ TransferInv'
    BY NextTypeInv, NextTransferInv
  <1> QED BY <1>1, InitTypeInv, InitTransferInv, PTL DEF Spec

\* Data that is passed on has no hole and no fragment out of place, over any
\* number of sessions and for every size.
THEOREM AlwaysAssembled == Spec => []Assembled
  <1>1. TransferInv => Assembled
    BY DEF TransferInv
  <1> QED BY <1>1, TransferSafe, PTL

-----------------------------------------------------------------------------
(* The protocol implements WholeTransfer.                                  *)

\* The data a client passes on that joined in a clean state and is connected
\* is the data of the transfer p belongs to.
LEMMA LastIsWhole ==
    ASSUME TypeInv, TransferInv, NEW p \in frames, Accepts(p), Fits(p),
           p.index + 1 = p.count, phase = "joined", clean
    PROVE  /\ [id |-> p.id, count |-> p.count] \in sent
           /\ Filled(p) = Whole!Data([id |-> p.id, count |-> p.count])
  <1>1. [id |-> p.id, count |-> p.count] \in sent
    BY DEF TypeInv, FramesOK
  <1>2. p \in Fragments /\ p.index \in Nat /\ p.count \in Nat /\ p.id = joined
    <2>1. p \in Fragments
      BY DEF TypeInv, TypeOK
    <2> QED BY <2>1, CountsAssumption DEF Fragments, Accepts
  <1>3. /\ Filled(p) \in [0 .. (p.count - 1) -> Fragments \cup {Garbage}]
        /\ \A i \in 0 .. (p.count - 1) :
              /\ Filled(p)[i] \in frames
              /\ Filled(p)[i].index = i
              /\ Filled(p)[i].count = p.count
              /\ Filled(p)[i].id = joined
    BY <1>2, FilledBuffer DEF TransferInv
  <1>4. ASSUME NEW i \in 0 .. (p.count - 1)
        PROVE  Filled(p)[i] = [id |-> p.id, count |-> p.count, index |-> i]
    <2>1. Filled(p)[i] \in Fragments
      BY <1>3 DEF TypeInv, TypeOK
    <2> QED BY <2>1, <1>2, <1>3 DEF Fragments
  <1>5. Filled(p) = [i \in 0 .. (p.count - 1) |->
                        [id |-> p.id, count |-> p.count, index |-> i]]
    BY <1>3, <1>4
  <1> QED BY <1>1, <1>5 DEF Whole!Data

\* What the client has received, of what counts for WholeTransfer.
Received == {d.data : d \in {e \in delivered : e.connected /\ e.clean}}

LEMMA StepImplements ==
    ASSUME TypeInv, TransferInv, [Next]_vars
    PROVE  [Whole!Next]_<<sent, Received>>
  <1>1. CASE NewSession \/ NextFragment \/ TransferDone \/ SendAgain \/ GiveUp
             \/ ReceiveAck \/ Search \/ Join \/ StopLink \/ UNCHANGED vars
    <2>1. sent' = sent /\ delivered' = delivered
      BY <1>1 DEF NewSession, NextFragment, TransferDone, SendAgain, GiveUp, ReceiveAck,
                  Search, Join, StopLink, vars, hostVars
    <2> QED BY <2>1 DEF Received
  <1>2. CASE BeginTransfer
    <2>1. PICK n \in Counts : sent' = sent \cup {[id |-> session, count |-> n]}
      BY <1>2 DEF BeginTransfer
    <2>2. session \in 1 .. MaxSessions /\ delivered' = delivered
      BY <1>2, LimitsAssumption DEF BeginTransfer, TypeInv, TypeOK, SentOK
    <2>3. [id |-> session, count |-> n] \in [id : 1 .. MaxSessions, count : Counts]
      BY <2>2
    <2>4. Received' = Received
      BY <2>2 DEF Received
    <2> QED BY <2>1, <2>3, <2>4 DEF Whole!Next, Whole!Send, Received
  <1>3. CASE ReceiveFragment
    <2>1. PICK p \in frames :
              /\ Accepts(p) /\ Acknowledge(p)
              /\ UNCHANGED <<hostVars, phase, joined, clean, stayed, searches>>
              /\ \/ ReceiveRepeated(p) \/ ReceiveMismatch(p) \/ ReceiveNext(p)
                 \/ ReceiveLast(p) \/ ReceiveNoMemory(p)
      BY <1>3, ReceiveCases
    <2>2. sent' = sent
      BY <2>1 DEF hostVars
    <2>3. CASE ~ReceiveLast(p)
      <3>1. delivered' = delivered
        BY <2>1, <2>3 DEF ReceiveRepeated, ReceiveMismatch, ReceiveNext, ReceiveNoMemory
      <3> QED BY <2>2, <3>1 DEF Received
    <2>4. CASE ReceiveLast(p)
      <3> DEFINE new == [data |-> Filled(p), connected |-> phase = "joined",
                         clean |-> clean]
      <3>1. Fits(p) /\ p.index + 1 = p.count /\ delivered' = delivered \cup {new}
        BY <2>4 DEF ReceiveLast
      <3>2. CASE ~(phase = "joined" /\ clean)
        <4>1. ~(new.connected /\ new.clean)
          BY <3>2, Zenon
        <4> HIDE DEF new
        <4>2. Received' = Received
          BY <3>1, <4>1 DEF Received
        <4> QED BY <2>2, <4>2
      <3>3. CASE phase = "joined" /\ clean
        <4> DEFINE t == [id |-> p.id, count |-> p.count]
        <4>1. t \in sent /\ Filled(p) = Whole!Data(t)
          BY <2>1, <3>1, <3>3, LastIsWhole
        <4>2. new.connected /\ new.clean /\ new.data = Filled(p)
          BY <3>3, Zenon
        <4> HIDE DEF new, t
        <4>3. Received' = Received \cup {Filled(p)}
          BY <3>1, <4>2 DEF Received
        <4> QED BY <2>2, <4>1, <4>3 DEF Whole!Next, Whole!Deliver, Received
      <3> QED BY <3>2, <3>3
    <2> QED BY <2>3, <2>4
  <1> QED BY <1>1, <1>2, <1>3 DEF Next

\* The fragmented transfer implements WholeTransfer: a client that held nothing
\* of another session when it joined receives a transfer whole or not at all.
THEOREM Implements == Spec => ImplementsWholeTransfer
  <1>1. Init => Whole!Init
    BY DEF Init, Whole!Init
  <1>2. TypeInv /\ TransferInv /\ [Next]_vars => [Whole!Next]_<<sent, Received>>
    BY StepImplements
  <1>3. Spec => [][Whole!Next]_<<sent, Received>>
    BY <1>2, TransferSafe, PTL DEF Spec
  <1>4. Spec => Whole!Init
    BY <1>1 DEF Spec
  <1> QED BY <1>3, <1>4, PTL DEF ImplementsWholeTransfer, Whole!Spec, Received

-----------------------------------------------------------------------------
(* A send that succeeded was received.                                     *)

\* While the client stays and lacks the data, a fragment it receives is at most
\* one ahead of those it has.
LEMMA NothingMissing ==
    ASSUME TypeInv, TransferInv, StayInv, stayed, clean, session \notin noMemory,
           pc = "sending", NEW p \in frames, Accepts(p)
    PROVE  /\ p.id = session /\ joined = session /\ phase = "joined"
           /\ p.count = count /\ p.index \in Nat /\ p.index <= index
           /\ ~Got /\ p.index # 0 => active /\ total = count /\ p.index <= next
  <1>1. /\ phase = "joined" /\ joined = session
        /\ \A a \in acks : a.id = session => Held(a.index)
        /\ \A i \in 0 .. (index - 1) : [id |-> session, index |-> i] \in acks
    BY DEF StayInv, Faultless
  <1>2. p.id = session
    BY <1>1 DEF Accepts
  <1>3. p \in Fragments /\ p.index \in Nat /\ index \in Nat /\ next \in Nat
    BY DEF TypeInv, TypeOK, Fragments
  <1>4. p.count = count
    <2>1. /\ [id |-> p.id, count |-> p.count] \in sent
          /\ [id |-> session, count |-> count] \in sent
      BY DEF TypeInv, FramesOK, SendingOK
    <2>2. [id |-> p.id, count |-> p.count] = [id |-> session, count |-> count]
      BY <1>2, <2>1 DEF TypeInv, SentOK
    <2> QED BY <2>2
  <1>5. p.index <= index
    BY <1>2 DEF TypeInv, FramesOK
  <1>6. ASSUME ~Got, p.index # 0 PROVE active /\ total = count /\ p.index <= next
    <2>1. p.index - 1 \in 0 .. (index - 1)
      BY <1>3, <1>5, <1>6
    <2>2. [id |-> session, index |-> p.index - 1] \in acks
      BY <1>1, <2>1
    <2>3. Held(p.index - 1)
      BY <1>1, <2>2
    <2> QED BY <1>3, <1>6, <2>3 DEF Held
  <1> QED BY <1>1, <1>2, <1>3, <1>4, <1>5, <1>6

LEMMA ReceiveStayInv ==
    ASSUME TypeInv, TransferInv, StayInv, ReceiveFragment
    PROVE  StayInv'
  <1>1. PICK p \in frames :
              /\ Accepts(p) /\ Acknowledge(p)
              /\ UNCHANGED <<hostVars, phase, joined, clean, stayed, searches>>
              /\ \/ ReceiveRepeated(p) \/ ReceiveMismatch(p) \/ ReceiveNext(p)
                 \/ ReceiveLast(p) \/ ReceiveNoMemory(p)
    BY ReceiveCases
  <1>2. UNCHANGED <<session, pc, count, index, frames, sent, phase, joined, clean, stayed>>
    BY <1>1 DEF hostVars
  <1>3. /\ delivered \subseteq delivered' /\ noMemory \subseteq noMemory'
        /\ acks' = acks \cup {[id |-> joined, index |-> p.index]}
    BY <1>1 DEF ReceiveRepeated, ReceiveMismatch, ReceiveNext, ReceiveLast,
                ReceiveNoMemory, Acknowledge
  <1>4. Got => Got'
    BY <1>2, <1>3 DEF Got
  <1>5. Faultless' => Faultless
    BY <1>2, <1>3 DEF Faultless
  <1>6. ~(stayed /\ pc = "idle")
    BY <1>1 DEF StayInv, Accepts, TypeInv, FramesOK, SentOK
  <1>7. ASSUME Faultless', pc = "sending"
        PROVE  \A a \in acks' : a.id = session => Held(a.index)'
    <2>1. Faultless /\ stayed /\ clean /\ session \notin noMemory
      BY <1>5, <1>7 DEF Faultless
    <2>2. /\ p.id = session /\ joined = session /\ phase = "joined"
          /\ p.count = count /\ p.index \in Nat
          /\ ~Got /\ p.index # 0 => active /\ total = count /\ p.index <= next
      BY <1>1, <1>7, <2>1, NothingMissing
    <2>3. \A a \in acks : a.id = session => Held(a.index)
      BY <1>7, <2>1 DEF StayInv
    <2>4. \A a \in acks' : a \in acks \/ a.index = p.index
      BY <1>3
    <2>5. CASE Got
      BY <1>4, <2>5 DEF Held
    <2>6. CASE ~Got /\ ReceiveRepeated(p)
      <3>1. /\ active' = active /\ next' = next /\ total' = total
            /\ active /\ total = count /\ p.index < next
        BY <2>2, <2>6 DEF ReceiveRepeated, Repeated, sequenceVars
      <3> QED BY <1>2, <2>3, <2>4, <2>6, <3>1 DEF Held
    <2>7. CASE ~Got /\ ReceiveMismatch(p)
      <3>1. ~Repeated(p) /\ ~Fits(p)
        BY <2>7 DEF ReceiveMismatch
      <3>2. next \in Nat
        BY DEF TypeInv, TypeOK
      <3> QED BY <2>2, <2>7, <3>1, <3>2 DEF Repeated, Fits
    <2>8. CASE ~Got /\ ReceiveNext(p)
      <3>1. /\ ~Repeated(p) /\ Fits(p)
            /\ active' /\ next' = p.index + 1 /\ total' = count
        BY <2>2, <2>8 DEF ReceiveNext
      <3>2. ASSUME NEW a \in acks, a.id = session PROVE a.index < next'
        <4>1. active /\ total = count /\ a.index < next
          BY <2>3, <2>8, <3>2 DEF Held
        <4>2. a.index \in Nat /\ next \in Nat
          BY DEF TypeInv, TypeOK
        <4> QED BY <2>2, <3>1, <4>1, <4>2 DEF Repeated, Fits
      <3> QED BY <1>2, <2>2, <2>4, <3>1, <3>2 DEF Held
    <2>9. CASE ~Got /\ ReceiveLast(p)
      <3>1. /\ Fits(p) /\ p.index + 1 = p.count
            /\ delivered' = delivered \cup {[data |-> Filled(p),
                               connected |-> phase = "joined", clean |-> clean]}
        BY <2>9 DEF ReceiveLast
      <3>2. Filled(p) = Whole!Data([id |-> p.id, count |-> p.count])
        BY <1>1, <2>1, <2>2, <3>1, LastIsWhole
      <3>3. \A i \in DOMAIN Filled(p) : Filled(p)[i].id = session
        BY <2>2, <3>2 DEF Whole!Data
      <3> DEFINE new == [data |-> Filled(p), connected |-> phase = "joined",
                         clean |-> clean]
      <3>4. new.connected /\ new.clean /\ new.data = Filled(p)
        BY <2>1, <2>2, Zenon
      <3>5. new \in delivered'
        BY <3>1
      <3> HIDE DEF new
      <3>6. Got'
        BY <1>2, <3>3, <3>4, <3>5 DEF Got
      <3> QED BY <3>6 DEF Held
    <2>10. CASE ReceiveNoMemory(p)
      BY <1>2, <1>7, <2>2, <2>10 DEF ReceiveNoMemory, Faultless
    <2> QED BY <1>1, <2>5, <2>6, <2>7, <2>8, <2>9, <2>10
  <1>8. ASSUME Faultless', pc = "sending"
        PROVE  \A i \in 0 .. (index - 1) : [id |-> session, index |-> i] \in acks'
    BY <1>3, <1>5, <1>8 DEF StayInv
  <1>9. Faultless' /\ pc = "done" => Got'
    BY <1>4, <1>5 DEF StayInv
  <1>10. stayed => phase = "joined" /\ joined = session
    BY DEF StayInv
  <1> QED BY <1>2, <1>6, <1>7, <1>8, <1>9, <1>10 DEF StayInv

LEMMA NextStayInv ==
    ASSUME TypeInv, TransferInv, StayInv, [Next]_vars
    PROVE  StayInv'
  <1>1. CASE NewSession \/ Search \/ StopLink
    <2>1. ~stayed'
      BY <1>1, Zenon DEF NewSession, Search, StopLink
    <2> QED BY <2>1 DEF StayInv, Faultless
  <1>2. CASE BeginTransfer
    <2>1. /\ pc = "idle" /\ pc' = "sending" /\ index' = 0
          /\ UNCHANGED <<session, acks, phase, joined, stayed>>
      BY <1>2 DEF BeginTransfer, SendFragment, clientVars
    <2>2. stayed => \A a \in acks : a.id # session
      BY <2>1 DEF StayInv
    <2> QED BY <2>1, <2>2 DEF StayInv, Faultless
  <1>3. CASE NextFragment
    <2>1. /\ pc = "sending" /\ acked = index /\ index' = index + 1
          /\ UNCHANGED <<session, pc, count, acks, phase, joined, active, next, total,
                         clean, stayed, delivered, noMemory>>
      BY <1>3 DEF NextFragment, Answered, SendFragment, clientVars, sequenceVars
    <2>2. index \in Nat /\ [id |-> session, index |-> index] \in acks
      BY <2>1 DEF TypeInv, TypeOK, SendingOK, NoFragment
    <2>3. \A i \in 0 .. (index' - 1) : i \in 0 .. (index - 1) \/ i = index
      BY <2>1, <2>2
    <2> QED BY <2>1, <2>2, <2>3 DEF StayInv, Faultless, Held, Got
  <1>4. CASE TransferDone
    <2>1. /\ pc = "sending" /\ pc' = "done" /\ acked = index /\ index + 1 = count
          /\ UNCHANGED <<session, acks, phase, joined, clean, stayed, delivered, noMemory>>
      BY <1>4 DEF TransferDone, Answered, clientVars
    <2>2. index \in Nat /\ [id |-> session, index |-> index] \in acks
      BY <2>1 DEF TypeInv, TypeOK, SendingOK, NoFragment
    <2>3. Faultless => Got
      <3>1. Faultless => Held(index)
        BY <2>1, <2>2 DEF StayInv
      <3>2. active => next \in 1 .. (total - 1)
        BY DEF TypeInv, TypeOK, BufferType
      <3>3. total = count => total \in Nat
        BY <2>1, <2>2
      <3> QED BY <2>1, <2>2, <3>1, <3>2, <3>3 DEF Held
    <2> QED BY <2>1, <2>3 DEF StayInv, Faultless, Got
  <1>5. CASE SendAgain \/ ReceiveAck \/ UNCHANGED vars
    <2>1. UNCHANGED <<session, pc, count, index, acks, phase, joined, active, next, total,
                      clean, stayed, delivered, noMemory>>
      BY <1>5 DEF SendAgain, ReceiveAck, vars, hostVars, clientVars, sequenceVars
    <2> QED BY <2>1 DEF StayInv, Faultless, Held, Got
  <1>6. CASE GiveUp
    <2>1. /\ pc' = "failed"
          /\ UNCHANGED <<session, phase, joined, stayed>>
      BY <1>6 DEF GiveUp, clientVars
    <2> QED BY <2>1 DEF StayInv
  <1>7. CASE Join
    <2>1. /\ phase' = "joined" /\ joined' = session
          /\ stayed' = (pc = "idle" /\ \A a \in acks : a.id # session)
          /\ UNCHANGED <<session, pc, acks>>
      BY <1>7 DEF Join, hostVars
    <2>2. stayed' => pc = "idle" /\ \A a \in acks : a.id # session
      BY <2>1, Zenon
    <2> QED BY <2>1, <2>2 DEF StayInv, Faultless
  <1>8. CASE ReceiveFragment
    BY <1>8, ReceiveStayInv
  <1> QED BY <1>1, <1>2, <1>3, <1>4, <1>5, <1>6, <1>7, <1>8 DEF Next

\* When the host has been told that every fragment arrived, a client that
\* stayed, and had the memory, has the data.
THEOREM DoneDelivers == Spec => []DoneMeansDelivered
  <1>1. Init => StayInv
    BY DEF Init, StayInv, Faultless
  <1>2. TypeInv /\ TransferInv /\ StayInv /\ [Next]_vars
            => TypeInv' /\ TransferInv' /\ StayInv'
    BY NextTypeInv, NextTransferInv, NextStayInv
  <1>3. StayInv => DoneMeansDelivered
    BY DEF StayInv, Faultless, Got, DoneMeansDelivered
  <1> QED BY <1>1, <1>2, <1>3, InitTypeInv, InitTransferInv, PTL DEF Spec

-----------------------------------------------------------------------------
(* The link cable: the inductive invariant.                                *)


Modes == {"off", "external", "internal"}
Machine == [cc : Nat, sb : GBs \cup {Floating}, sc : Modes, serial : 0..SerialCycles,
            at : Nat \cup {Never}, lcd : Int, extra : 0..(LongOp + Service)]
Machines == [GBs -> Machine]

LcdBound(s) == \A g \in GBs : s[g].lcd <= FrameCycles
Standing(s, r) ==
  \A g \in GBs : s[g].at # Never =>
    s[g].at = s[Peer(g)].cc /\ s[g].cc < s[g].at /\ r # Peer(g)

CableInv == /\ CableTypeOK
        /\ modes \in [GBs -> SUBSET Modes]
        /\ LcdBound(gb)
        /\ Standing(gb, running)

(* ------------------------------- the helpers ---------------------------- *)
LEMMA Peers == \A g \in GBs : Peer(g) \in GBs /\ Peer(g) # g /\ Peer(Peer(g)) = g
                              /\ \A h \in GBs : h = g \/ h = Peer(g)
BY DEF GBs, Peer

\* The passing of n cycles changes only the Game Boy that runs.
LEMMA ElapseFacts ==
  ASSUME NEW s \in Machines, NEW g \in GBs, NEW n \in Nat
  PROVE  /\ Elapse(s, g, n) \in Machines
         /\ Elapse(s, g, n)[g].cc = s[g].cc + n
         /\ Elapse(s, g, n)[g].lcd = s[g].lcd - n
         /\ Elapse(s, g, n)[g].at = s[g].at
         /\ Elapse(s, g, n)[g].sc = s[g].sc
         /\ Elapse(s, g, n)[Peer(g)] = s[Peer(g)]
<1>1. /\ Elapse(s, g, n)[g] = [s[g] EXCEPT !.cc = @ + n, !.lcd = @ - n, !.extra = 0]
      /\ Elapse(s, g, n)[Peer(g)] = s[Peer(g)]
      /\ Elapse(s, g, n) = [h \in GBs |-> Elapse(s, g, n)[h]]
  BY Peers DEF Elapse, Machines
<1>2. s[g] \in Machine /\ s[Peer(g)] \in Machine
  BY Peers DEF Machines
<1>3. s[g].cc + n \in Nat /\ s[g].lcd - n \in Int
  BY <1>2 DEF Machine
<1>4. Elapse(s, g, n)[g] \in Machine
  <2> DEFINE r == s[g]  a == s[g].cc + n  b == s[g].lcd - n  c == 0
  <2>1. r \in Machine /\ a \in Nat /\ b \in Int /\ c \in 0..(LongOp + Service)
    BY <1>2, <1>3, CyclesAssumption
  <2>2. Elapse(s, g, n)[g] = [r EXCEPT !.cc = a, !.lcd = b, !.extra = c]
    BY <1>1
  <2> HIDE DEF r, a, b, c
  <2> QED BY <2>1, <2>2 DEF Machine
<1>5. Elapse(s, g, n) \in Machines
  BY <1>1, <1>2, <1>4, Peers DEF Machines
<1> QED BY <1>1, <1>2, <1>5 DEF Machine

\* A meeting clears the cycle to meet at, and stops both serial ports.
LEMMA MeetFacts ==
  ASSUME NEW s \in Machines, NEW g \in GBs
  PROVE  /\ Meet(s, g) \in Machines
         /\ \A h \in GBs : /\ Meet(s, g)[h].cc = s[h].cc
                           /\ Meet(s, g)[h].lcd = s[h].lcd
                           /\ Meet(s, g)[h].sc \in {s[h].sc, "off"}
         /\ Meet(s, g)[g].at = IF Reached(s, g) THEN Never ELSE s[g].at
         /\ Meet(s, g)[Peer(g)].at = s[Peer(g)].at
<1>1. s[g] \in Machine /\ s[Peer(g)] \in Machine
  BY Peers DEF Machines
<1>2. CASE ~Reached(s, g)
  BY <1>2 DEF Meet
<1>3. CASE Reached(s, g)
  <2> DEFINE x == IF Waiting(s, g) THEN s[Peer(g)].sb ELSE s[g].sb
             y == IF Waiting(s, g) THEN s[g].sb ELSE Floating
  <2>1. /\ Meet(s, g)[g] = [s[g] EXCEPT !.at = Never, !.sb = x, !.sc = "off"]
        /\ Meet(s, g)[Peer(g)] = [s[Peer(g)] EXCEPT !.sb = y, !.sc = "off"]
        /\ Meet(s, g) = [h \in GBs |-> Meet(s, g)[h]]
    BY <1>3, Peers DEF Meet, Machines
  <2>2. x \in GBs \cup {Floating} /\ y \in GBs \cup {Floating} /\ "off" \in Modes
    BY <1>1 DEF Machine, Modes
  <2> HIDE DEF x, y
  <2>3. Meet(s, g)[g] \in Machine
    <3> DEFINE r == s[g]
    <3>1. r \in Machine /\ Meet(s, g)[g] = [r EXCEPT !.at = Never, !.sb = x, !.sc = "off"]
      BY <1>1, <2>1
    <3> HIDE DEF r
    <3> QED BY <3>1, <2>2 DEF Machine
  <2>4. Meet(s, g)[Peer(g)] \in Machine
    <3> DEFINE r == s[Peer(g)]
    <3>1. r \in Machine /\ Meet(s, g)[Peer(g)] = [r EXCEPT !.sb = y, !.sc = "off"]
      BY <1>1, <2>1
    <3> HIDE DEF r
    <3> QED BY <3>1, <2>2 DEF Machine
  <2>5. Meet(s, g) \in Machines
    BY <2>1, <2>3, <2>4, Peers DEF Machines
  <2>6. ASSUME NEW h \in GBs
        PROVE  /\ Meet(s, g)[h].cc = s[h].cc
               /\ Meet(s, g)[h].lcd = s[h].lcd
               /\ Meet(s, g)[h].sc \in {s[h].sc, "off"}
    <3>1. CASE h = g
      BY <1>1, <2>1, <3>1 DEF Machine
    <3>2. CASE h = Peer(g)
      BY <1>1, <2>1, <3>2 DEF Machine
    <3> QED BY <3>1, <3>2, Peers
  <2>7. Meet(s, g)[g].at = Never /\ Meet(s, g)[Peer(g)].at = s[Peer(g)].at
    BY <1>1, <2>1 DEF Machine
  <2> QED BY <1>3, <2>5, <2>6, <2>7
<1> QED BY <1>2, <1>3

\* A byte that is passed in time gives the other its cycle to stop at.
LEMMA ClockFacts ==
  ASSUME NEW s \in Machines, NEW g \in GBs, NEW n \in Nat
  PROVE  /\ Clock(s, g, n) \in Machines
         /\ \A h \in GBs : /\ Clock(s, g, n)[h].cc = s[h].cc
                           /\ Clock(s, g, n)[h].lcd = s[h].lcd
                           /\ Clock(s, g, n)[h].sc \in {s[h].sc, "off"}
         /\ Clock(s, g, n)[g].at = s[g].at
         /\ Clock(s, g, n)[Peer(g)].at =
              IF Expires(s, g, n) /\ ~TooLate(s, g) THEN s[g].cc ELSE s[Peer(g)].at
<1>1. s[g] \in Machine /\ s[Peer(g)] \in Machine
  BY Peers DEF Machines
<1>2. CASE ~Expires(s, g, n)
  <2> DEFINE k == Most(0, s[g].serial - n)
  <2>1. /\ Clock(s, g, n)[g] = [s[g] EXCEPT !.serial = k]
        /\ Clock(s, g, n)[Peer(g)] = s[Peer(g)]
        /\ Clock(s, g, n) = [h \in GBs |-> Clock(s, g, n)[h]]
    BY <1>2, Peers DEF Clock, Machines
  <2>2. k \in 0..SerialCycles
    BY <1>1, CyclesAssumption DEF Machine, Most
  <2> HIDE DEF k
  <2>3. Clock(s, g, n)[g] \in Machine
    BY <1>1, <2>1, <2>2 DEF Machine
  <2>4. Clock(s, g, n) \in Machines
    BY <1>1, <2>1, <2>3, Peers DEF Machines
  <2> QED BY <1>1, <1>2, <2>1, <2>4, Peers DEF Machine
<1>3. CASE Expires(s, g, n) /\ TooLate(s, g)
  <2>1. /\ Clock(s, g, n)[g] = [s[g] EXCEPT !.serial = 0, !.sb = Floating, !.sc = "off"]
        /\ Clock(s, g, n)[Peer(g)] = s[Peer(g)]
        /\ Clock(s, g, n) = [h \in GBs |-> Clock(s, g, n)[h]]
    BY <1>3, Peers DEF Clock, Machines
  <2>2. Clock(s, g, n)[g] \in Machine
    <3> DEFINE r == s[g]  k == 0  x == Floating  m == "off"
    <3>1. r \in Machine /\ k \in 0..SerialCycles /\ x \in GBs \cup {Floating} /\ m \in Modes
      BY <1>1, CyclesAssumption DEF Modes
    <3>2. Clock(s, g, n)[g] = [r EXCEPT !.serial = k, !.sb = x, !.sc = m]
      BY <2>1
    <3> HIDE DEF r, k, x, m
    <3> QED BY <3>1, <3>2 DEF Machine
  <2>3. Clock(s, g, n) \in Machines
    BY <1>1, <2>1, <2>2, Peers DEF Machines
  <2>4. ASSUME NEW h \in GBs
        PROVE  /\ Clock(s, g, n)[h].cc = s[h].cc
               /\ Clock(s, g, n)[h].lcd = s[h].lcd
               /\ Clock(s, g, n)[h].sc \in {s[h].sc, "off"}
    <3>1. CASE h = g
      BY <1>1, <2>1, <3>1 DEF Machine
    <3>2. CASE h = Peer(g)
      BY <1>1, <2>1, <3>2 DEF Machine
    <3> QED BY <3>1, <3>2, Peers
  <2>5. Clock(s, g, n)[g].at = s[g].at
    BY <1>1, <2>1 DEF Machine
  <2> QED BY <1>3, <2>1, <2>3, <2>4, <2>5
<1>4. CASE Expires(s, g, n) /\ ~TooLate(s, g)
  <2>1. /\ Clock(s, g, n)[g] = [s[g] EXCEPT !.serial = 0]
        /\ Clock(s, g, n)[Peer(g)] = [s[Peer(g)] EXCEPT !.at = s[g].cc]
        /\ Clock(s, g, n) = [h \in GBs |-> Clock(s, g, n)[h]]
    BY <1>4, Peers DEF Clock, Machines
  <2>2. s[g].cc \in Nat
    BY <1>1 DEF Machine
  <2>3. Clock(s, g, n)[g] \in Machine /\ Clock(s, g, n)[Peer(g)] \in Machine
    <3> DEFINE r == s[g]  q == s[Peer(g)]  a == s[g].cc
    <3>1. /\ r \in Machine /\ q \in Machine /\ a \in Nat
          /\ Clock(s, g, n)[g] = [r EXCEPT !.serial = 0]
          /\ Clock(s, g, n)[Peer(g)] = [q EXCEPT !.at = a]
      BY <1>1, <2>1, <2>2
    <3> HIDE DEF r, q, a
    <3> QED BY <3>1, CyclesAssumption DEF Machine
  <2>4. Clock(s, g, n) \in Machines
    BY <2>1, <2>3, Peers DEF Machines
  <2> QED BY <1>1, <1>4, <2>1, <2>4, Peers DEF Machine
<1> QED BY <1>2, <1>3, <1>4

\* A write to SC changes no clock.
LEMMA WriteFacts ==
  ASSUME NEW s \in Machines, NEW g \in GBs, NEW mode \in Modes
  PROVE  /\ WriteSC(s, g, mode) \in Machines
         /\ \A h \in GBs : /\ WriteSC(s, g, mode)[h].cc = s[h].cc
                           /\ WriteSC(s, g, mode)[h].lcd = s[h].lcd
                           /\ WriteSC(s, g, mode)[h].at = s[h].at
                           /\ WriteSC(s, g, mode)[h].sc = IF h = g THEN mode ELSE s[h].sc
<1> DEFINE k == IF mode # "internal" THEN 0
                ELSE IF s[g].serial = 0 THEN SerialCycles ELSE s[g].serial
<1>1. s[g] \in Machine /\ s[Peer(g)] \in Machine
  BY Peers DEF Machines
<1>2. /\ WriteSC(s, g, mode)[g] = [s[g] EXCEPT !.sb = g, !.sc = mode, !.serial = k]
      /\ WriteSC(s, g, mode)[Peer(g)] = s[Peer(g)]
      /\ WriteSC(s, g, mode) = [h \in GBs |-> WriteSC(s, g, mode)[h]]
  BY Peers DEF WriteSC, Machines
<1>3. k \in 0..SerialCycles
  BY <1>1, CyclesAssumption DEF Machine
<1> HIDE DEF k
<1>4. WriteSC(s, g, mode)[g] \in Machine
  <2> DEFINE r == s[g]
  <2>1. r \in Machine /\ WriteSC(s, g, mode)[g] = [r EXCEPT !.sb = g, !.sc = mode, !.serial = k]
    BY <1>1, <1>2
  <2> HIDE DEF r
  <2> QED BY <2>1, <1>3 DEF Machine
<1>5. WriteSC(s, g, mode) \in Machines
  BY <1>1, <1>2, <1>4, Peers DEF Machines
<1>6. ASSUME NEW h \in GBs
      PROVE  /\ WriteSC(s, g, mode)[h].cc = s[h].cc
             /\ WriteSC(s, g, mode)[h].lcd = s[h].lcd
             /\ WriteSC(s, g, mode)[h].at = s[h].at
             /\ WriteSC(s, g, mode)[h].sc = IF h = g THEN mode ELSE s[h].sc
  <2>1. CASE h = g
    BY <1>1, <1>2, <2>1 DEF Machine
  <2>2. CASE h = Peer(g)
    BY <1>2, <2>2, Peers
  <2> QED BY <2>1, <2>2, Peers
<1> QED BY <1>5, <1>6

(* -------------------------- one turn of runEmul ------------------------- *)
\* The opcode that runs with the interrupt leaves every clock as it is, and all of
\* the other Game Boy.
LEMMA LateFacts ==
  ASSUME NEW s \in Machines, NEW g \in GBs, modes[g] \subseteq Modes, NEW more,
         NEW s2 \in LateOpcode(s, g, more)
  PROVE  /\ s2 \in Machines /\ s2[Peer(g)] = s[Peer(g)]
         /\ s2[g].cc = s[g].cc /\ s2[g].lcd = s[g].lcd /\ s2[g].at = s[g].at
         /\ s2[g].sc = s[g].sc \/ s2[g].sc \in modes[g]
<1>1. CASE s2 = s
  BY <1>1
<1>2. CASE s2 # s
  <2>1. PICK mode \in modes[g] : s2 = WriteSC(s, g, mode)
    BY <1>2 DEF LateOpcode
  <2>2. mode \in Modes
    OBVIOUS
  <2>3. WriteSC(s, g, mode)[Peer(g)] = s[Peer(g)]
    BY Peers DEF WriteSC, Machines
  <2> QED BY <2>1, <2>2, <2>3, WriteFacts
<1> QED BY <1>1, <1>2

\* What a turn leaves behind: the clock of the Game Boy that ran has passed n
\* cycles, the other's none; its cycles to the next event take it no further
\* than a frame, nor, if it is gbDuo, than the other Game Boy.
LEMMA TurnFacts ==
  ASSUME NEW s \in Machines, NEW g \in GBs, NEW n \in Nat, LcdBound(s), Standing(s, g),
         modes[g] \subseteq Modes, Turn(g, s, n)
  PROVE  /\ gb' \in Machines /\ LcdBound(gb') /\ Standing(gb', running')
         /\ running' \in {g, Nobody} /\ frame' \in {"run", "over"} /\ quota' \in 0..FrameCycles
         /\ UNCHANGED <<uno, modes>>
         /\ gb'[g].cc = s[g].cc + n /\ gb'[Peer(g)].cc = s[Peer(g)].cc
         /\ \A h \in GBs : gb'[h].sc \in {s[h].sc, "off"} \/ (h = g /\ gb'[h].sc \in modes[h])
         /\ running' = g /\ g = duo /\ ~Waiting(gb', Peer(g)) =>
              gb'[g].cc + quota' <= gb'[Peer(g)].cc
<1> DEFINE p == Peer(g)
           ran == Elapse(s, g, n)
           met == Meet(ran, g)
           passed == Clock(met, g, n)
           linked == \/ Reached(ran, g) /\ Waiting(s, g)
                     \/ Expires(met, g, n) /\ ~TooLate(met, g)
                     \/ Leash(passed, g) <= 0
           vblank == passed[g].lcd <= 0
           X == IF passed[g].at = Never THEN {} ELSE {passed[g].at - passed[g].cc}
           Y == IF passed[g].serial = 0 THEN {} ELSE {passed[g].serial}
           events == {Leash(passed, g), passed[g].lcd} \cup X \cup Y
<1>0. TurnEnds(g, s, n, ran, met, passed)
  BY DEF Turn
<1>clocks. PICK more \in Late : \E s2 \in LateOpcode(passed, g, more) :
        gb' = [s2 EXCEPT ![g].extra = more, ![g].lcd = IF vblank THEN @ + FrameCycles ELSE @]
  BY <1>0, Zenon DEF TurnEnds
<1>1. PICK s2 \in LateOpcode(passed, g, more) :
        gb' = [s2 EXCEPT ![g].extra = more, ![g].lcd = IF vblank THEN @ + FrameCycles ELSE @]
  BY <1>clocks
<1>given. /\ running' = IF linked \/ vblank THEN Nobody ELSE g
      /\ quota' = IF linked \/ vblank THEN 0
                  ELSE CHOOSE e \in events : \A f \in events : e <= f
  BY <1>0, Zenon DEF TurnEnds
<1>rest. /\ frame' = IF vblank /\ g = Host THEN "over" ELSE "run"
      /\ UNCHANGED <<uno, modes>>
  BY <1>0, Zenon DEF TurnEnds
<1>2. ran \in Machines /\ met \in Machines /\ passed \in Machines
  BY ElapseFacts, MeetFacts, ClockFacts
<1>3. p \in GBs /\ p # g /\ Peer(p) = g
  BY Peers
<1>4. /\ s[g] \in Machine /\ s[p] \in Machine /\ ran[g] \in Machine /\ ran[p] \in Machine
      /\ passed[g] \in Machine /\ passed[p] \in Machine /\ met[g] \in Machine
  BY <1>2, <1>3 DEF Machines
<1>5. /\ ran[g].cc = s[g].cc + n /\ ran[g].lcd = s[g].lcd - n /\ ran[g].at = s[g].at
      /\ ran[g].sc = s[g].sc /\ ran[p] = s[p]
  BY ElapseFacts
<1>6. /\ met[g].at = (IF Reached(ran, g) THEN Never ELSE ran[g].at) /\ met[p].at = ran[p].at
      /\ \A h \in GBs : /\ met[h].cc = ran[h].cc /\ met[h].lcd = ran[h].lcd
                        /\ met[h].sc \in {ran[h].sc, "off"}
  BY MeetFacts, <1>2
<1>7. /\ passed[g].at = met[g].at
      /\ passed[p].at = (IF Expires(met, g, n) /\ ~TooLate(met, g) THEN met[g].cc ELSE met[p].at)
      /\ \A h \in GBs : /\ passed[h].cc = met[h].cc /\ passed[h].lcd = met[h].lcd
                        /\ passed[h].sc \in {met[h].sc, "off"}
  BY ClockFacts, <1>2
<1>s2. /\ s2 \in Machines /\ s2[p] = passed[p]
       /\ s2[g].cc = passed[g].cc /\ s2[g].lcd = passed[g].lcd /\ s2[g].at = passed[g].at
       /\ s2[g].sc = passed[g].sc \/ s2[g].sc \in modes[g]
  BY LateFacts, <1>2
<1>more. more \in 0..(LongOp + Service) /\ s2[g] \in Machine
  BY <1>s2, CyclesAssumption DEF Machines
<1> HIDE DEF ran, met, passed
<1>8. /\ passed[g].cc = s[g].cc + n /\ passed[p].cc = s[p].cc
      /\ passed[g].lcd = s[g].lcd - n /\ passed[p].lcd = s[p].lcd
      /\ passed[g].sc \in {s[g].sc, "off"} /\ passed[p].sc \in {s[p].sc, "off"}
  BY <1>3, <1>5, <1>6, <1>7
<1>9. passed[g].lcd \in Int /\ passed[g].lcd <= FrameCycles /\ passed[p].lcd <= FrameCycles
  <2>1. s[g].lcd <= FrameCycles /\ s[p].lcd <= FrameCycles
    BY <1>3 DEF LcdBound
  <2>2. s[g].lcd \in Int /\ s[p].lcd \in Int
    BY <1>4 DEF Machine
  <2> QED BY <1>8, <2>1, <2>2, CyclesAssumption
<1>10. /\ gb'[p] = passed[p]
       /\ gb'[g] = [s2[g] EXCEPT !.extra = more,
                                 !.lcd = IF vblank THEN @ + FrameCycles ELSE @]
       /\ gb' = [h \in GBs |-> gb'[h]]
  BY <1>1, <1>s2, <1>3 DEF Machines
<1>11. /\ gb'[g].cc = passed[g].cc /\ gb'[g].at = passed[g].at
       /\ gb'[g].sc = passed[g].sc \/ gb'[g].sc \in modes[g]
       /\ gb'[g].lcd = (IF vblank THEN passed[g].lcd + FrameCycles ELSE passed[g].lcd)
  BY <1>s2, <1>more, <1>10 DEF Machine
<1>12. gb' \in Machines
  <2> DEFINE r == s2[g]  b == IF vblank THEN passed[g].lcd + FrameCycles ELSE passed[g].lcd
  <2>1. r \in Machine /\ b \in Int /\ gb'[g] = [r EXCEPT !.extra = more, !.lcd = b]
    BY <1>more, <1>s2, <1>9, <1>10, CyclesAssumption
  <2> HIDE DEF r, b
  <2>2. gb'[g] \in Machine
    BY <1>more, <2>1 DEF Machine
  <2> QED BY <1>4, <1>10, <2>2, Peers DEF Machines
<1>13. LcdBound(gb')
  <2> SUFFICES ASSUME NEW h \in GBs PROVE gb'[h].lcd <= FrameCycles
    BY DEF LcdBound
  <2>1. CASE h = g
    BY <1>9, <1>11, <2>1, CyclesAssumption
  <2>2. CASE h = p
    BY <1>9, <1>10, <2>2
  <2> QED BY <2>1, <2>2, Peers
<1>14. s[p].at = Never
  BY <1>3 DEF Standing
<1>15. Standing(gb', running')
  <2> SUFFICES ASSUME NEW h \in GBs, gb'[h].at # Never
               PROVE  gb'[h].at = gb'[Peer(h)].cc /\ gb'[h].cc < gb'[h].at /\ running' # Peer(h)
    BY DEF Standing
  <2>1. CASE h = g
    <3>1. ~Reached(ran, g) /\ s[g].at # Never /\ gb'[g].at = s[g].at
      BY <1>5, <1>6, <1>7, <1>11, <2>1
    <3>2. s[g].at = s[p].cc /\ ran[g].cc < ran[g].at
      BY <3>1, <1>4, <1>5 DEF Standing, Reached, Machine
    <3>3. running' # p
      BY <1>given, <1>3 DEF GBs, Nobody
    <3> QED BY <2>1, <3>1, <3>2, <3>3, <1>5, <1>8, <1>10, <1>11
  <2>2. CASE h = p
    <3>1. Expires(met, g, n) /\ ~TooLate(met, g) /\ gb'[p].at = met[g].cc
      BY <1>5, <1>6, <1>7, <1>10, <1>14, <2>2
    <3>2. running' = Nobody
      BY <1>given, <3>1
    <3>3. met[p].cc < met[g].cc
      BY <3>1, <1>3, <1>4, <1>5, <1>6 DEF TooLate, Machine
    <3> QED BY <2>2, <3>1, <3>2, <3>3, <1>3, <1>5, <1>6, <1>8, <1>10, <1>11 DEF GBs, Nobody
  <2> QED BY <2>1, <2>2, Peers
<1>16. Leash(passed, g) \in Int
  BY <1>3, <1>4, CyclesAssumption DEF Leash, Machine
<1>17. ~linked /\ ~vblank =>
         /\ quota' \in 0..FrameCycles
         /\ quota' <= Leash(passed, g)
  <2> SUFFICES ASSUME ~linked, ~vblank
               PROVE  quota' \in 0..FrameCycles /\ quota' <= Leash(passed, g)
    OBVIOUS
  <2> DEFINE a == Leash(passed, g)  b == passed[g].lcd
             c == passed[g].at - passed[g].cc  d == passed[g].serial
  <2>1. a \in Int /\ b \in Int /\ c \in Int /\ d \in Int
    BY <1>4, <1>9, <1>16, CyclesAssumption DEF Machine, Never
  <2>2. events \in {{a, b}, {a, b, c}, {a, b, d}, {a, b, c, d}}
    OBVIOUS
  <2>3. a > 0 /\ b > 0
    BY <2>1
  <2>4. passed[g].at # Never => c > 0
    BY <1>4, <1>5, <1>6, <1>7, <1>8 DEF Reached, Machine, Never
  <2>5. passed[g].serial # 0 => d > 0
    BY <1>4, CyclesAssumption DEF Machine
  <2>6. \A e \in events : e \in Int /\ e > 0
    BY <2>1, <2>3, <2>4, <2>5
  <2>7. a \in events /\ b \in events
    OBVIOUS
  <2>8. quota' = CHOOSE e \in events : \A f \in events : e <= f
    BY <1>given
  <2>9. b <= FrameCycles
    BY <1>9
  <2> HIDE DEF a, b, c, d, events
  <2>10. \E e \in events : \A f \in events : e <= f
    <3>1. CASE events = {a, b}
      BY <2>1, <3>1
    <3>2. CASE events = {a, b, c}
      BY <2>1, <3>2
    <3>3. CASE events = {a, b, d}
      BY <2>1, <3>3
    <3>4. CASE events = {a, b, c, d}
      BY <2>1, <3>4
    <3> QED BY <2>2, <3>1, <3>2, <3>3, <3>4
  <2>11. quota' \in events /\ \A f \in events : quota' <= f
    BY <2>8, <2>10
  <2>12. quota' <= a /\ quota' <= b /\ quota' \in Int /\ quota' > 0
    BY <2>6, <2>7, <2>11
  <2>13. quota' \in 0..FrameCycles
    BY <2>1, <2>9, <2>12, CyclesAssumption
  <2> QED BY <2>12, <2>13 DEF a
<1>18. quota' \in 0..FrameCycles
  BY <1>given, <1>17, CyclesAssumption
<1>19. \A h \in GBs : gb'[h].sc \in {s[h].sc, "off"} \/ (h = g /\ gb'[h].sc \in modes[h])
  BY <1>8, <1>10, <1>11, Peers
<1>20. ASSUME running' = g, g = duo, ~Waiting(gb', p)
       PROVE  gb'[g].cc + quota' <= gb'[p].cc
  <2>1. ~linked /\ ~vblank
    BY <1>given, <1>20 DEF GBs, Nobody
  <2>2. ~BothWait(passed)
    BY <1>3, <1>10, <1>20 DEF BothWait, Waiting
  <2>3. Leash(passed, g) = passed[p].cc - passed[g].cc
    BY <1>20, <2>2 DEF Leash
  <2> QED BY <1>4, <1>10, <1>11, <1>17, <1>18, <2>1, <2>3 DEF Machine
<1>21. /\ gb'[g].cc = s[g].cc + n /\ gb'[p].cc = s[p].cc
       /\ running' \in {g, Nobody} /\ frame' \in {"run", "over"} /\ UNCHANGED <<uno, modes>>
  BY <1>rest, <1>given, <1>8, <1>10, <1>11
<1> QED BY <1>12, <1>13, <1>15, <1>18, <1>19, <1>20, <1>21

(* ------------------------------ the scheduler --------------------------- *)
LEMMA ShortenedFacts ==
  ASSUME NEW s \in Machines, NEW g \in GBs, NEW mode \in Modes, NEW most \in Nat
  PROVE  Shortened(s, g, mode, most) \in 0..most
<1>1. WriteSC(s, g, mode) \in Machines
  BY WriteFacts
<1>2. WriteSC(s, g, mode)[g].serial \in Nat /\ s[g].cc \in Nat /\ s[Peer(g)].cc \in Nat
  BY <1>1, Peers, CyclesAssumption DEF Machines, Machine
<1> QED BY <1>2 DEF Shortened, Least, Most

\* A step of runEmul is a turn, of the Game Boys as they are or with a write to
\* SC, by the cycles it was given and at most an opcode.
LEMMA EmulateTurns ==
  ASSUME CableInv, NEW g \in GBs, Emulate(g)
  PROVE  \E s \in Machines, n \in Nat :
           /\ Turn(g, s, n) /\ LcdBound(s) /\ Standing(s, g)
           /\ running = g /\ n <= quota + LongOp + Service
           /\ \A h \in GBs : s[h].cc = gb[h].cc
           /\ \A h \in GBs : s[h].sc = gb[h].sc \/ (h = g /\ s[h].sc \in modes[h])
<1>1. /\ gb \in Machines /\ quota \in Nat /\ gb[g].extra \in 0..(LongOp + Service)
      /\ LongOp \in Nat /\ LongOp >= 1 /\ Service \in Nat
  BY CyclesAssumption DEF CableInv, CableTypeOK, Machines, Machine, Modes
<1>2. running = g
  BY DEF Emulate, Halt, Execute, ExecuteAndWrite
<1>3. LcdBound(gb) /\ Standing(gb, g)
  BY <1>2 DEF CableInv
<1>4. ASSUME NEW n \in Nat, n <= quota + LongOp + Service, Turn(g, gb, n)
      PROVE  \E s \in Machines, k \in Nat :
               /\ Turn(g, s, k) /\ LcdBound(s) /\ Standing(s, g)
               /\ running = g /\ k <= quota + LongOp + Service
               /\ \A h \in GBs : s[h].cc = gb[h].cc
               /\ \A h \in GBs : s[h].sc = gb[h].sc \/ (h = g /\ s[h].sc \in modes[h])
  <2> gb \in Machines
    BY <1>1
  <2> WITNESS gb \in Machines, n \in Nat
  <2> QED BY <1>2, <1>3, <1>4
<1>5. CASE Halt(g)
  <2>1. Turn(g, gb, quota) /\ quota <= quota + LongOp + Service
    BY <1>1, <1>5 DEF Halt
  <2> QED BY <1>1, <1>4, <2>1
<1>6. CASE Execute(g)
  <2>1. CASE Left(g) <= 0
    <3>1. Turn(g, gb, gb[g].extra) /\ gb[g].extra \in Nat /\ gb[g].extra <= quota + LongOp + Service
      BY <1>1, <1>6, <2>1 DEF Execute
    <3> QED BY <1>4, <3>1
  <2>2. CASE ~(Left(g) <= 0)
    <3>1. PICK over \in 0..(LongOp - 1) : Turn(g, gb, quota + over)
      BY <1>6, <2>2 DEF Execute
    <3>2. quota + over \in Nat /\ quota + over <= quota + LongOp + Service
      BY <1>1
    <3> QED BY <1>4, <3>1, <3>2
  <2> QED BY <2>1, <2>2
<1>7. CASE ExecuteAndWrite(g)
  <2>1. Left(g) > 0 /\ Left(g) \in Nat /\ Left(g) = quota - gb[g].extra
    BY <1>1, <1>7 DEF ExecuteAndWrite, Left
  <2>2. PICK mode \in modes[g] :
          \E t \in Most(1, Shortened(gb, g, mode, Left(g)))..(Left(g) + LongOp - 1) :
            Turn(g, WriteSC(gb, g, mode), t + gb[g].extra)
    BY <1>7 DEF ExecuteAndWrite
  <2>3. mode \in Modes
    BY <2>2 DEF CableInv
  <2> DEFINE most == Shortened(gb, g, mode, Left(g))
             s == WriteSC(gb, g, mode)
  <2>4. most \in 0..Left(g)
    BY <1>1, <2>1, <2>3, ShortenedFacts
  <2>5. PICK t \in Most(1, most)..(Left(g) + LongOp - 1) : Turn(g, s, t + gb[g].extra)
    BY <2>2
  <2>t. t \in Nat /\ t <= Left(g) + LongOp - 1
    BY <1>1, <2>1, <2>4, <2>5 DEF Most
  <2>6. s \in Machines /\ \A h \in GBs : /\ s[h].cc = gb[h].cc /\ s[h].lcd = gb[h].lcd
                                         /\ s[h].at = gb[h].at
                                         /\ s[h].sc = IF h = g THEN mode ELSE gb[h].sc
    BY <1>1, <2>3, WriteFacts
  <2> HIDE DEF s, most
  <2>7. LcdBound(s) /\ Standing(s, g)
    BY <1>3, <2>6, Peers DEF LcdBound, Standing
  <2>8. t + gb[g].extra \in Nat /\ t + gb[g].extra <= quota + LongOp + Service
    BY <1>1, <2>1, <2>t
  <2>9. \A h \in GBs : s[h].sc = gb[h].sc \/ (h = g /\ s[h].sc \in modes[h])
    <3> SUFFICES ASSUME NEW h \in GBs PROVE s[h].sc = gb[h].sc \/ (h = g /\ s[h].sc \in modes[h])
      OBVIOUS
    <3>1. CASE h = g
      BY <2>2, <2>6, <3>1
    <3>2. CASE h # g
      BY <2>6, <3>2
    <3> QED BY <3>1, <3>2
  <2> QED BY <1>2, <2>5, <2>6, <2>7, <2>8, <2>9
<1> QED BY <1>5, <1>6, <1>7 DEF Emulate

\* The end of a frame takes the same time off every clock.
LEMMA RebasedFacts ==
  ASSUME CableInv
  PROVE  /\ Rebased(gb) \in Machines /\ LcdBound(Rebased(gb)) /\ Standing(Rebased(gb), running)
         /\ \A h \in GBs : Rebased(gb)[h].sc = gb[h].sc
         /\ Rebased(gb)["A"].cc - Rebased(gb)["B"].cc = gb["A"].cc - gb["B"].cc
<1> DEFINE m == Least(gb["A"].cc, gb["B"].cc)
           r == Rebased(gb)
<1>1. gb \in Machines
  BY DEF CableInv, CableTypeOK, Machines, Machine, Modes
<1>2. \A h \in GBs : gb[h] \in Machine /\ gb[h].cc \in Nat
  BY <1>1 DEF Machines, Machine
<1>3. m \in Nat /\ \A h \in GBs : m <= gb[h].cc
  BY <1>2 DEF Least, GBs
<1>4. \A h \in GBs : r[h] = [gb[h] EXCEPT !.cc = @ - m, !.at = IF @ = Never THEN Never ELSE @ - m]
  BY DEF Rebased
<1>5. r = [h \in GBs |-> r[h]]
  BY DEF Rebased
<1> HIDE DEF r, m
<1>6. ASSUME NEW h \in GBs
      PROVE  /\ r[h] \in Machine
             /\ r[h].cc = gb[h].cc - m /\ r[h].lcd = gb[h].lcd /\ r[h].sc = gb[h].sc
             /\ r[h].at = IF gb[h].at = Never THEN Never ELSE gb[h].at - m
  <2> DEFINE q == gb[h]  a == gb[h].cc - m
             b == IF gb[h].at = Never THEN Never ELSE gb[h].at - m
  <2>1. gb[h].at # Never => gb[h].at = gb[Peer(h)].cc
    BY DEF CableInv, Standing
  <2>2. q \in Machine /\ a \in Nat /\ b \in Nat \cup {Never}
    BY <1>2, <1>3, <2>1, Peers
  <2>3. r[h] = [q EXCEPT !.cc = a, !.at = b]
    BY <1>4
  <2> HIDE DEF q, a, b
  <2>4. /\ r[h] \in Machine /\ r[h].cc = a /\ r[h].at = b
        /\ r[h].lcd = q.lcd /\ r[h].sc = q.sc
    BY <2>2, <2>3 DEF Machine
  <2> QED BY <2>4 DEF q, a, b
<1>7. r \in Machines
  BY <1>5, <1>6 DEF Machines
<1>8. LcdBound(r)
  BY <1>6 DEF CableInv, LcdBound
<1>9. Standing(r, running)
  <2> SUFFICES ASSUME NEW h \in GBs, r[h].at # Never
               PROVE  r[h].at = r[Peer(h)].cc /\ r[h].cc < r[h].at /\ running # Peer(h)
    BY DEF Standing
  <2>1. gb[h].at # Never /\ r[h].at = gb[h].at - m
    BY <1>6
  <2>2. gb[h].at = gb[Peer(h)].cc /\ gb[h].cc < gb[h].at /\ running # Peer(h)
    BY <2>1 DEF CableInv, Standing
  <2> QED BY <1>2, <1>3, <1>6, <2>1, <2>2, Peers
<1>10. r["A"].cc - r["B"].cc = gb["A"].cc - gb["B"].cc
  BY <1>2, <1>3, <1>6 DEF GBs
<1> QED BY <1>6, <1>7, <1>8, <1>9, <1>10 DEF r

(* -------------------------- type and meeting ---------------------------- *)
LEMMA CableInitInvariant == CableInit => CableInv
<1> SUFFICES ASSUME CableInit PROVE CableInv
  OBVIOUS
<1>1. gb \in Machines
  BY CyclesAssumption DEF CableInit, Machines, Machine, Modes
<1>2. CableTypeOK
  BY <1>1, CyclesAssumption DEF CableInit, CableTypeOK, Machines, Machine, Modes, GBs, Host
<1>3. modes \in [GBs -> SUBSET Modes]
  BY DEF CableInit, Modes
<1> QED BY <1>2, <1>3, CyclesAssumption DEF CableInit, CableInv, LcdBound, Standing

LEMMA PickInvariant ==
  ASSUME CableInv, Pick
  PROVE  CableInv' /\ uno' = (IF Waiting(gb, uno) THEN duo ELSE uno) /\ running' = RunsFirst(uno')
<1>1. uno' = (IF Waiting(gb, uno) THEN duo ELSE uno) /\ running' = RunsFirst(uno')
  BY DEF Pick
<1>2. uno' \in GBs
  BY <1>1, Peers DEF CableInv, CableTypeOK, duo
<1>3. running' \in GBs
  BY <1>1, <1>2, Peers DEF RunsFirst
<1>4. CableTypeOK'
  BY <1>2, <1>3, CyclesAssumption DEF CableInv, CableTypeOK, Pick
<1>5. Standing(gb, running)'
  <2> SUFFICES ASSUME NEW g \in GBs, gb[g].at # Never
               PROVE  gb[g].at = gb[Peer(g)].cc /\ gb[g].cc < gb[g].at /\ running' # Peer(g)
    BY DEF Pick, Standing
  <2>1. gb[g].at = gb[Peer(g)].cc /\ gb[g].cc < gb[g].at
    BY DEF CableInv, Standing
  <2>2. gb[g].cc \in Nat /\ gb[Peer(g)].cc \in Nat
    BY Peers DEF CableInv, CableTypeOK
  <2>3. running' # Peer(g)
    BY <1>1, <1>2, <2>1, <2>2, Peers DEF RunsFirst
  <2> QED BY <2>1, <2>3
<1> QED BY <1>1, <1>4, <1>5 DEF CableInv, Pick, LcdBound

LEMMA EndFrameInvariant ==
  ASSUME CableInv, EndFrame
  PROVE  CableInv'
<1>1. gb' = Rebased(gb) /\ frame' = "run" /\ UNCHANGED <<uno, running, quota, modes>>
  BY DEF EndFrame
<1>2. CableTypeOK'
  BY <1>1, RebasedFacts DEF CableInv, CableTypeOK, Machines, Machine, Modes
<1> QED BY <1>1, <1>2, RebasedFacts DEF CableInv, LcdBound, Standing

LEMMA EmulateInvariant ==
  ASSUME CableInv, NEW g \in GBs, Emulate(g)
  PROVE  CableInv'
<1>1. PICK s \in Machines, n \in Nat : Turn(g, s, n) /\ LcdBound(s) /\ Standing(s, g)
  BY EmulateTurns
<1>2. /\ gb' \in Machines /\ LcdBound(gb') /\ Standing(gb', running')
      /\ running' \in {g, Nobody} /\ frame' \in {"run", "over"} /\ quota' \in 0..FrameCycles
      /\ UNCHANGED <<uno, modes>>
  BY <1>1, TurnFacts DEF CableInv
<1>3. CableTypeOK'
  BY <1>2 DEF CableInv, CableTypeOK, Machines, Machine, Modes
<1> QED BY <1>2, <1>3 DEF CableInv, LcdBound, Standing

LEMMA CableNextInvariant == CableInv /\ [CableNext]_cableVars => CableInv'
<1> SUFFICES ASSUME CableInv, [CableNext]_cableVars PROVE CableInv'
  OBVIOUS
<1>1. CASE Pick
  BY <1>1, PickInvariant
<1>2. CASE EndFrame
  BY <1>2, EndFrameInvariant
<1>3. CASE \E g \in GBs : Emulate(g)
  BY <1>3, EmulateInvariant
<1>4. CASE UNCHANGED cableVars
  BY <1>4 DEF CableInv, CableTypeOK, LcdBound, Standing, cableVars
<1> QED BY <1>1, <1>2, <1>3, <1>4 DEF CableNext

THEOREM CableInvariantHolds == CableSpec => []CableInv
<1>1. CableInit => CableInv
  BY CableInitInvariant
<1>2. CableInv /\ [CableNext]_cableVars => CableInv'
  BY CableNextInvariant
<1> QED BY <1>1, <1>2, PTL DEF CableSpec

(***************************************************************************)
(* A Game Boy that has passed its byte stands still until the other arrives  *)
(* at the very cycle it stopped at (gameboy.cpp, gbmanager.cpp): whatever  *)
(* the two programs write to SC, however far a batch overshoots, and       *)
(* across the ends of frames, which set the clocks back.                   *)
(***************************************************************************)
THEOREM AlwaysStandsStill == CableSpec => []StandsStill
<1>1. CableInv => StandsStill
  BY DEF CableInv, Standing, StandsStill
<1> QED BY <1>1, CableInvariantHolds, PTL

(* ------------------------------ lost bytes ------------------------------ *)
\* Where the host only clocks and the other only waits, the other is never more
\* ahead by more than an opcode and the service of an interrupt.
Leashed ==
  FixedRoles =>
    /\ uno = Host /\ ~Waiting(gb, Host)
    /\ gb["B"].cc <= gb["A"].cc + LongOp + Service
    /\ running = "B" => gb["B"].cc + quota <= gb["A"].cc

LEMMA InitLeashed == CableInit => Leashed
BY CyclesAssumption DEF CableInit, Leashed, Waiting, GBs, Host, Nobody

LEMMA PickLeashed ==
  ASSUME CableInv, Leashed, Pick
  PROVE  Leashed'
<1> SUFFICES ASSUME FixedRoles
             PROVE  (/\ uno = Host /\ ~Waiting(gb, Host)
                     /\ gb["B"].cc <= gb["A"].cc + LongOp + Service
                     /\ running = "B" => gb["B"].cc + quota <= gb["A"].cc)'
  BY DEF Leashed, Pick, FixedRoles
<1>1. /\ uno = Host /\ ~Waiting(gb, Host)
      /\ gb["B"].cc <= gb["A"].cc + LongOp + Service
  BY DEF Leashed
<1>2. gb' = gb /\ quota' = 0 /\ uno' = Host /\ running' = RunsFirst(Host)
  BY <1>1, PickInvariant DEF Pick
<1>3. gb["A"].cc \in Nat /\ gb["B"].cc \in Nat
  BY DEF CableInv, CableTypeOK, GBs
<1>4. running' = "B" => gb["B"].cc + 0 <= gb["A"].cc
  BY <1>2, <1>3 DEF RunsFirst, Host, Peer
<1> QED BY <1>1, <1>2, <1>4 DEF Waiting

LEMMA EndFrameLeashed ==
  ASSUME CableInv, Leashed, EndFrame
  PROVE  Leashed'
<1> SUFFICES ASSUME FixedRoles
             PROVE  (/\ uno = Host /\ ~Waiting(gb, Host)
                     /\ gb["B"].cc <= gb["A"].cc + LongOp + Service
                     /\ running = "B" => gb["B"].cc + quota <= gb["A"].cc)'
  BY DEF Leashed, EndFrame, FixedRoles
<1>1. /\ uno = Host /\ ~Waiting(gb, Host)
      /\ gb["B"].cc <= gb["A"].cc + LongOp + Service
      /\ running = "B" => gb["B"].cc + quota <= gb["A"].cc
  BY DEF Leashed
<1>2. gb' = Rebased(gb) /\ UNCHANGED <<uno, running, quota>>
  BY DEF EndFrame
<1>3. gb["A"].cc \in Nat /\ gb["B"].cc \in Nat /\ quota \in Nat
  BY DEF CableInv, CableTypeOK, GBs
<1>4. /\ gb'["A"].cc - gb'["B"].cc = gb["A"].cc - gb["B"].cc
      /\ gb'["A"].cc \in Nat /\ gb'["B"].cc \in Nat /\ gb'[Host].sc = gb[Host].sc
  BY <1>2, RebasedFacts DEF Machines, Machine, GBs, Host
<1> QED BY <1>1, <1>2, <1>3, <1>4, CyclesAssumption DEF Waiting

\* A turn adds its cycles to the clock of the Game Boy that runs, and leaves
\* the other's alone.
LEMMA EmulateLeashed ==
  ASSUME CableInv, Leashed, NEW g \in GBs, Emulate(g)
  PROVE  Leashed' /\ gb'[Peer(g)].cc = gb[Peer(g)].cc /\ gb'[g].cc >= gb[g].cc
<1>1. PICK s \in Machines, n \in Nat :
        /\ Turn(g, s, n) /\ LcdBound(s) /\ Standing(s, g)
        /\ running = g /\ n <= quota + LongOp + Service
        /\ \A h \in GBs : s[h].cc = gb[h].cc
        /\ \A h \in GBs : s[h].sc = gb[h].sc \/ (h = g /\ s[h].sc \in modes[h])
  BY EmulateTurns
<1>2. /\ running' \in {g, Nobody} /\ quota' \in 0..FrameCycles
      /\ UNCHANGED <<uno, modes>>
      /\ gb'[g].cc = s[g].cc + n /\ gb'[Peer(g)].cc = s[Peer(g)].cc
      /\ \A h \in GBs : gb'[h].sc \in {s[h].sc, "off"} \/ (h = g /\ gb'[h].sc \in modes[h])
      /\ running' = g /\ g = duo /\ ~Waiting(gb', Peer(g)) =>
           gb'[g].cc + quota' <= gb'[Peer(g)].cc
  BY <1>1, TurnFacts DEF CableInv
<1>3. gb["A"].cc \in Nat /\ gb["B"].cc \in Nat /\ quota \in Nat
      /\ LongOp \in Nat /\ Service \in Nat
  BY CyclesAssumption DEF CableInv, CableTypeOK, GBs
<1>4. gb'[g].cc = gb[g].cc + n /\ gb'[Peer(g)].cc = gb[Peer(g)].cc
  BY <1>1, <1>2, Peers
<1>5. gb'[g].cc >= gb[g].cc
  BY <1>3, <1>4 DEF GBs
<1>6. Leashed'
  <2> SUFFICES ASSUME FixedRoles
               PROVE  (/\ uno = Host /\ ~Waiting(gb, Host)
                       /\ gb["B"].cc <= gb["A"].cc + LongOp + Service
                       /\ running = "B" => gb["B"].cc + quota <= gb["A"].cc)'
    BY <1>2 DEF Leashed, FixedRoles
  <2>1. /\ uno = Host /\ ~Waiting(gb, Host)
        /\ gb["B"].cc <= gb["A"].cc + LongOp + Service
        /\ running = "B" => gb["B"].cc + quota <= gb["A"].cc
    BY DEF Leashed
  <2>2. uno' = Host
    BY <1>2, <2>1
  <2>3. s[Host].sc # "external"
    BY <1>1, <2>1 DEF FixedRoles, Waiting, Host, GBs
  <2>4. ~Waiting(gb', Host)
    BY <1>2, <2>3 DEF FixedRoles, Waiting, Host, GBs
  <2>5. CASE g = "A"
    BY <1>2, <1>3, <1>4, <2>1, <2>2, <2>4, <2>5 DEF Peer, Nobody
  <2>6. CASE g = "B"
    <3>1. gb'["B"].cc <= gb'["A"].cc + LongOp + Service
      BY <1>1, <1>3, <1>4, <2>1, <2>6 DEF Peer
    <3>2. running' = "B" => gb'["B"].cc + quota' <= gb'["A"].cc
      BY <1>2, <2>1, <2>4, <2>6 DEF Peer, duo, Host
    <3> QED BY <2>2, <2>4, <3>1, <3>2 DEF Waiting
  <2> QED BY <2>5, <2>6 DEF GBs
<1> QED BY <1>4, <1>5, <1>6

LEMMA NextLeashed == CableInv /\ Leashed /\ [CableNext]_cableVars => Leashed'
<1> SUFFICES ASSUME CableInv, Leashed, [CableNext]_cableVars PROVE Leashed'
  OBVIOUS
<1>1. CASE Pick
  BY <1>1, PickLeashed
<1>2. CASE EndFrame
  BY <1>2, EndFrameLeashed
<1>3. CASE \E g \in GBs : Emulate(g)
  BY <1>3, EmulateLeashed
<1>4. CASE UNCHANGED cableVars
  BY <1>4 DEF Leashed, FixedRoles, Waiting, cableVars
<1> QED BY <1>1, <1>2, <1>3, <1>4 DEF CableNext

(***************************************************************************)
(* While one program only clocks and the other only waits, a byte is lost  *)
(* only because the waiting Game Boy could not stop in the middle of an    *)
(* opcode, or before an interrupt was served: it is ahead of the one that  *)
(* sends by no more than the longest opcode and the service take           *)
(* (gameboy.cpp, the end of runEmul's batch).                              *)
(***************************************************************************)
THEOREM LosesOnlyByAnOpcode == CableSpec => []LosesByAnOpcode
<1>1. CableInit => Leashed
  BY InitLeashed
<1>2. CableInv /\ Leashed /\ [CableNext]_cableVars => Leashed'
  BY NextLeashed
<1>3. Leashed => LosesByAnOpcode
  BY DEF Leashed, LosesByAnOpcode, Host, Peer
<1> QED BY <1>1, <1>2, <1>3, CableInvariantHolds, PTL DEF CableSpec
=============================================================================
