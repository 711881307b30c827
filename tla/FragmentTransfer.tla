-------------------------- MODULE FragmentTransfer --------------------------
(***************************************************************************)
(* Save data is sent in fragments, each acknowledged before the next one   *)
(* (platform/ds/arm9/source/nifi.cpp, nifiSendPacket), and put together by *)
(* the packet interrupt of the peer (handlePacketCommand, and              *)
(* FragmentSequence in platform/common/nifi_protocol.cpp).                 *)
(*                                                                         *)
(* The host sends and the client receives; the other direction differs in  *)
(* that a host only ever hears its own session.  The radio loses, repeats  *)
(* and reorders: whatever was sent may be received any number of times.    *)
(* Each session of the link menu has an id of its own, and the host sends  *)
(* its save data once in a session, so a session's id names the transfer   *)
(* and an index its acknowledged sequence number.                          *)
(***************************************************************************)
EXTENDS Integers, FiniteSets

CONSTANTS
    Counts,       \* fragment counts of save data: 8 per bank of cartridge RAM
    Retries,      \* times a fragment is sent again before the link is dropped
    MaxSessions,  \* bound: sessions of the host
    MaxSearches   \* bound: times the client enters its menu

\* Data of a single fragment is not fragmented.
ASSUME CountsAssumption == Counts \subseteq Nat \ {0, 1}
ASSUME LimitsAssumption ==
    Retries \in Nat /\ MaxSessions \in Nat /\ MaxSearches \in Nat

VARIABLES
    session,   \* the host's hostId
    pc,        \* the host: "idle", "sending", "done" or "failed"
    count,     \* numFragments
    index,     \* i, the fragment being sent
    tries,     \* attemptCounter
    acked,     \* acknowledgedSequence
    frames,    \* every fragment sent so far
    acks,      \* every acknowledgement sent so far
    phase,     \* the client: nobody's peer, in the menu, or connected
    joined,    \* the client's hostId
    active,    \* fragmentSequence.active
    next,      \* fragmentSequence.next
    total,     \* fragmentSequence.total and count
    buffer,    \* fragmentBuffer: <<>> when NULL
    delivered, \* the data passed on, by a client connected or not, clean or not
    clean,     \* history: nothing of another session was there when it joined
    stayed,    \* history: the client joined before the transfer, and stayed; it
               \* had acknowledged nothing under this session's id before
    sent,      \* history: the transfers begun
    searches,  \* history: times the client entered its menu
    noMemory   \* history: the sessions in which malloc failed

hostVars == <<session, pc, count, index, tries, acked, frames, sent>>
sequenceVars == <<active, next, total, buffer>>
clientVars == <<phase, joined, sequenceVars, clean, stayed, searches>>
vars == <<hostVars, acks, clientVars, delivered, noMemory>>

NoFragment == -1
Fragment(s, n, i) == [id |-> s, count |-> n, index |-> i]
Garbage == Fragment(0, 0, 0)   \* what malloc returns is no fragment of a session

Init ==
    /\ session = 0 /\ pc = "idle"
    /\ count = 0 /\ index = 0 /\ tries = 0 /\ acked = NoFragment
    /\ frames = {} /\ acks = {} /\ sent = {}
    /\ phase = "off" /\ joined = 0
    /\ active = FALSE /\ next = 0 /\ total = 0 /\ buffer = <<>>
    /\ delivered = {}
    /\ clean = FALSE /\ stayed = FALSE /\ searches = 0
    /\ noMemory = {}

-----------------------------------------------------------------------------
(* The host.                                                               *)

\* The host menu: a new hostId, with the transfer still to come.
NewSession ==
    /\ pc # "sending"
    /\ session < MaxSessions
    /\ session' = session + 1
    /\ pc' = "idle"
    /\ stayed' = FALSE
    /\ UNCHANGED <<count, index, tries, acked, frames, acks, sent, phase,
                   joined, sequenceVars, clean, searches, delivered, noMemory>>

SendFragment(n, i) ==
    /\ frames' = frames \cup {Fragment(session, n, i)}
    /\ index' = i
    /\ tries' = 0
    /\ acked' = NoFragment

BeginTransfer ==
    /\ pc = "idle" /\ session > 0
    /\ pc' = "sending"
    /\ \E n \in Counts :
          /\ count' = n
          /\ sent' = sent \cup {[id |-> session, count |-> n]}
          /\ SendFragment(n, 0)
    /\ UNCHANGED <<session, acks, clientVars, delivered, noMemory>>

\* Mutant: an acknowledgement of any fragment will do.
AnyAnswer == acked # NoFragment
Answered == acked = index

NextFragment ==
    /\ pc = "sending" /\ Answered /\ index + 1 < count
    /\ SendFragment(count, index + 1)
    /\ UNCHANGED <<session, pc, count, sent, acks, clientVars, delivered, noMemory>>

\* None of these is read again before the next transfer sets them.
EndTransfer ==
    count' = 0 /\ index' = 0 /\ tries' = 0 /\ acked' = NoFragment

TransferDone ==
    /\ pc = "sending" /\ Answered /\ index + 1 = count
    /\ pc' = "done"
    /\ EndTransfer
    /\ UNCHANGED <<session, frames, sent, acks, clientVars, delivered, noMemory>>

SendAgain ==
    /\ pc = "sending" /\ ~Answered /\ tries < Retries
    /\ tries' = tries + 1
    /\ UNCHANGED <<session, pc, count, index, acked, frames, sent, acks,
                   clientVars, delivered, noMemory>>

\* "Connection lost.": nifiStop.
GiveUp ==
    /\ pc = "sending" /\ ~Answered /\ tries >= Retries
    /\ pc' = "failed"
    /\ EndTransfer
    /\ UNCHANGED <<session, frames, sent, acks, clientVars, delivered, noMemory>>

\* The packet interrupt during the wait: only this session is listened to.
ReceiveAck ==
    /\ pc = "sending"
    /\ \E a \in acks : a.id = session /\ acked' = a.index
    /\ UNCHANGED <<session, pc, count, index, tries, frames, sent, acks,
                   clientVars, delivered, noMemory>>

-----------------------------------------------------------------------------
(* The client.                                                             *)

\* The client menu, also when the last link failed and the interrupt is still
\* installed: it forgets no fragments.
Search ==
    /\ phase # "searching"
    /\ searches < MaxSearches
    /\ searches' = searches + 1
    /\ phase' = "searching"
    /\ stayed' = FALSE
    /\ UNCHANGED <<hostVars, acks, joined, sequenceVars, clean, delivered, noMemory>>

\* The handshake with the host is over.
Join ==
    /\ phase = "searching" /\ session > 0 /\ pc # "failed"
    /\ phase' = "joined"
    /\ joined' = session
    /\ clean' = (active => \A i \in 0 .. (next - 1) :
                              buffer[i] = Fragment(session, total, i))
    /\ stayed' = (pc = "idle" /\ \A a \in acks : a.id # session)
    /\ UNCHANGED <<hostVars, acks, sequenceVars, searches, delivered, noMemory>>

\* Mutant: the sequence is reset but the buffer stays allocated.
ForgetSequence ==
    /\ active' = FALSE
    /\ next' = 0
    /\ total' = 0
    /\ UNCHANGED buffer

\* fragmentSequence.reset(), and the buffer freed.
Forget ==
    /\ active' = FALSE
    /\ next' = 0
    /\ total' = 0
    /\ buffer' = <<>>

\* nifiStop.
StopLink ==
    /\ phase # "off"
    /\ phase' = "off"
    /\ stayed' = FALSE
    /\ Forget
    /\ UNCHANGED <<hostVars, acks, joined, clean, searches, delivered, noMemory>>

\* Mutant: a connected client listens to every session.
AcceptsAll(p) == phase # "off"
\* A searching client hears every session, a connected one only its own.
Accepts(p) == phase = "searching" \/ (phase = "joined" /\ p.id = joined)

\* FRAGMENT_DUPLICATE
Repeated(p) == active /\ total = p.count /\ p.index < next

\* Mutant: a missing fragment is not noticed.
FitsLater(p) == p.index = 0 \/ (active /\ total = p.count /\ p.index >= next)
\* FRAGMENT_ACCEPTED or FRAGMENT_COMPLETE; the others are INVALID or GAP.
Fits(p) == p.index = 0 \/ (active /\ total = p.count /\ p.index = next)

\* The buffer with p copied to its place, allocated for a first fragment.
Filled(p) ==
    LET old == IF p.index = 0 THEN [i \in 0 .. (p.count - 1) |-> Garbage] ELSE buffer
    IN  [old EXCEPT ![p.index] = p]

Acknowledge(p) == acks' = acks \cup {[id |-> joined, index |-> p.index]}

ReceiveRepeated(p) ==
    /\ Repeated(p)
    /\ UNCHANGED <<sequenceVars, delivered, noMemory>>

ReceiveMismatch(p) ==
    /\ ~Repeated(p) /\ ~Fits(p)
    /\ Forget
    /\ UNCHANGED <<delivered, noMemory>>

ReceiveNext(p) ==
    /\ ~Repeated(p) /\ Fits(p) /\ p.index + 1 < p.count
    /\ active' = TRUE
    /\ next' = p.index + 1
    /\ total' = p.count
    /\ buffer' = Filled(p)
    /\ UNCHANGED <<delivered, noMemory>>

ReceiveLast(p) ==
    /\ ~Repeated(p) /\ Fits(p) /\ p.index + 1 = p.count
    /\ delivered' = delivered \cup
          {[data |-> Filled(p), connected |-> phase = "joined", clean |-> clean]}
    /\ Forget
    /\ UNCHANGED noMemory

\* malloc fails for a first fragment, which has been acknowledged.
ReceiveNoMemory(p) ==
    /\ ~Repeated(p) /\ p.index = 0
    /\ noMemory' = noMemory \cup {p.id}
    /\ Forget
    /\ UNCHANGED delivered

\* The packet interrupt: acknowledge first, then handle.
ReceiveFragment ==
    \E p \in frames :
        /\ Accepts(p)
        /\ Acknowledge(p)
        /\ \/ ReceiveRepeated(p)
           \/ ReceiveMismatch(p)
           \/ ReceiveNext(p)
           \/ ReceiveLast(p)
           \/ ReceiveNoMemory(p)
        /\ UNCHANGED <<hostVars, phase, joined, clean, stayed, searches>>

-----------------------------------------------------------------------------
Next ==
    \/ NewSession \/ BeginTransfer \/ NextFragment \/ TransferDone
    \/ SendAgain \/ GiveUp \/ ReceiveAck
    \/ Search \/ Join \/ StopLink \/ ReceiveFragment

Spec == Init /\ [][Next]_vars

-----------------------------------------------------------------------------
(* Properties.                                                             *)

Fragments == [id : Nat, count : Counts, index : Nat]

BufferType ==
    IF active
    THEN /\ total # 0 /\ next \in 1 .. (total - 1)
         /\ buffer \in [0 .. (total - 1) -> Fragments \cup {Garbage}]
    ELSE next = 0 /\ total = 0 /\ buffer = <<>>

\* Every variable keeps its type; the buffer exists while a sequence is active.
TypeOK ==
    /\ session \in Nat /\ pc \in {"idle", "sending", "done", "failed"}
    /\ count \in Counts \cup {0} /\ index \in Nat /\ tries \in 0 .. Retries
    /\ acked \in Nat \cup {NoFragment}
    /\ frames \subseteq Fragments /\ acks \subseteq [id : Nat, index : Nat]
    /\ sent \subseteq [id : Nat, count : Counts]
    /\ phase \in {"off", "searching", "joined"} /\ joined \in Nat
    /\ active \in BOOLEAN /\ clean \in BOOLEAN /\ stayed \in BOOLEAN
    /\ next \in Nat /\ total \in Counts \cup {0}
    /\ BufferType
    /\ noMemory \subseteq Nat /\ searches \in Nat

\* Whatever happened before, data that is passed on has in every place a
\* fragment that was sent for that place of data of that size: no hole, no
\* fragment out of place.
Assembled ==
    \A d \in delivered :
        \A i \in DOMAIN d.data :
            /\ d.data[i] \in frames
            /\ d.data[i].index = i
            /\ DOMAIN d.data = 0 .. (d.data[i].count - 1)

\* The host was told that every fragment arrived: then a client that joined it
\* with no fragments left over, stayed and had the memory has the data.
DoneMeansDelivered ==
    pc = "done" /\ stayed /\ clean /\ session \notin noMemory =>
        \E d \in delivered :
            /\ d.connected /\ d.clean
            /\ \A i \in DOMAIN d.data : d.data[i].id = session

\* A client that held nothing of another session when it joined receives a
\* transfer whole or not at all, through every loss and repetition: the
\* protocol implements WholeTransfer.
Whole == INSTANCE WholeTransfer WITH
    Transfers <- [id : 1 .. MaxSessions, count : Counts],
    sent <- sent,
    received <- {d.data : d \in {e \in delivered : e.connected /\ e.clean}}
ImplementsWholeTransfer == Whole!Spec
=============================================================================
