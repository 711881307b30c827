----------------------------- MODULE NifiSetup ------------------------------
(***************************************************************************)
(* How a wireless cable link comes about (platform/ds/arm9/source/         *)
(* nifi.cpp): discovery, the confirmed handshake, the second Game Boy that *)
(* stands for the peer, and the exchange of save data, up to the frame in  *)
(* which NifiLockstep begins.                                              *)
(*                                                                         *)
(* Each console has a main thread, blocked in a menu or in nifiStartLink,  *)
(* and a packet interrupt that runs between any two of its steps.  The     *)
(* radio delays packets and loses them (a lost one is never received); a   *)
(* packet is sent again until it is acknowledged, so the receiver may see  *)
(* it more than once.  Save data is one packet here: its fragments are     *)
(* each acknowledged the same way.                                         *)
(***************************************************************************)
EXTENDS Integers, Sequences, FiniteSets

CONSTANTS
    Consoles,     \* the consoles in range of each other
    HasSave,      \* the consoles whose cartridge has battery RAM
    Leftover,     \* the consoles with a second Game Boy from a local link
    Retries,      \* times a packet is sent again before the link is dropped (10)
    Patience,     \* VBlanks nifiReceiveSram waits for the save data (300)
    Hosts, Joiners, \* bound: who enters the host menu, and the client menu
    MaxEvents     \* bound: menus entered plus kinds of failure

ASSUME ConsolesAssumption ==
    HasSave \cup Leftover \cup Hosts \cup Joiners \subseteq Consoles
ASSUME LimitAssumption ==
    /\ Retries \in Nat /\ Patience \in Nat
    /\ MaxEvents \in Nat

VARIABLES
    pc,        \* where the main thread is
    todo,      \* what nifiStartLink has still to do
    role,      \* isHost and isClient
    status,    \* status
    hostId,    \* hostId; rand() is taken to name a new session
    attached,  \* nifiInitialized: the packet interrupt is installed
    found,     \* foundClient or foundHost
    seq,       \* nextSequence, counting the packets that ask for an answer
    acked,     \* acknowledgedSequence, kept while a send waits for it
    tries,     \* attemptCounter, and the VBlanks nifiReceiveSram has waited
    save,      \* the RAM of gb2: "none" when gb2 is NULL
    gotSave,   \* receivedSram
    started,   \* nifiStartLink returned 0
    net,       \* packets in the air
    sessions,  \* who entered a menu, in order: a session is a place in it
    fresh,     \* history: there was no gb2 when this session began
    stale,     \* history: the consoles that entered a menu with a gb2
    waited,    \* history: the sessions a console got the peer's save data in
    imported,  \* history: the sessions the interrupt stored save data in
    faults     \* history: who failed to send, and to take in, a packet

sessionVars == <<role, status, hostId, attached, found>>
sendVars == <<seq, acked, tries>>
saveVars == <<save, gotSave>>
historyVars == <<sessions, fresh, stale, waited, imported, faults>>
vars == <<pc, todo, sessionVars, sendVars, saveVars, started, net, historyVars>>

NoSequence == -1
NoHost == 0

\* The radio has no addresses: every other console hears a packet.
Peers(c) == Consoles \ {c}
MoreEvents == Len(sessions) + Cardinality(faults) < MaxEvents
\* A console fails to send a packet, or to take in one it has acknowledged.
Fault(c, way) ==
    /\ MoreEvents \/ <<c, way>> \in faults
    /\ faults' = faults \cup {<<c, way>>}
PeerSaves(c) == Peers(c) \cap HasSave # {}

-----------------------------------------------------------------------------
Init ==
    /\ pc = [c \in Consoles |-> "game"]
    /\ todo = [c \in Consoles |-> <<>>]
    /\ role = [c \in Consoles |-> "none"]
    /\ status = [c \in Consoles |-> "off"]
    /\ hostId = [c \in Consoles |-> NoHost]
    /\ attached = [c \in Consoles |-> FALSE]
    /\ found = [c \in Consoles |-> FALSE]
    /\ seq = [c \in Consoles |-> 1]
    /\ acked = [c \in Consoles |-> NoSequence]
    /\ tries = [c \in Consoles |-> 0]
    /\ save = [c \in Consoles |-> IF c \in Leftover THEN "old" ELSE "none"]
    /\ gotSave = [c \in Consoles |-> FALSE]
    /\ started = [c \in Consoles |-> FALSE]
    /\ net = {}
    /\ sessions = <<>>
    /\ fresh = [c \in Consoles |-> FALSE]
    /\ stale = {}
    /\ waited = [c \in Consoles |-> {}]
    /\ imported = [c \in Consoles |-> {}]
    /\ faults = {}

-----------------------------------------------------------------------------
(* nifiHostMenu and nifiClientMenu.                                        *)

EnterMenu(c) ==
    /\ pc[c] = "game"
    /\ role[c] = "none"
    /\ MoreEvents
    /\ sessions' = Append(sessions, c)
    /\ gotSave' = [gotSave EXCEPT ![c] = FALSE]
    /\ attached' = [attached EXCEPT ![c] = TRUE]
    /\ found' = [found EXCEPT ![c] = FALSE]
    /\ seq' = [seq EXCEPT ![c] = 1]
    /\ started' = [started EXCEPT ![c] = FALSE]
    /\ fresh' = [fresh EXCEPT ![c] = save[c] = "none"]
    /\ stale' = stale \cup (IF save[c] = "none" THEN {} ELSE {c})
    /\ UNCHANGED <<todo, acked, tries, save, net, waited, imported, faults>>

EnterHostMenu(c) ==
    /\ c \in Hosts
    /\ EnterMenu(c)
    /\ pc' = [pc EXCEPT ![c] = "hosting"]
    /\ role' = [role EXCEPT ![c] = "host"]
    /\ status' = [status EXCEPT ![c] = "host_waiting"]
    /\ hostId' = [hostId EXCEPT ![c] = Len(sessions) + 1]

EnterClientMenu(c) ==
    /\ c \in Joiners
    /\ EnterMenu(c)
    /\ pc' = [pc EXCEPT ![c] = "searching"]
    /\ role' = [role EXCEPT ![c] = "client"]
    /\ status' = [status EXCEPT ![c] = "client_waiting"]
    /\ UNCHANGED hostId

HostPacket(id) == [cmd |-> "HOST", id |-> id]
ClientPacket(id, s) == [cmd |-> "CLIENT", id |-> id, seq |-> s]
SavePacket(id, s) == [cmd |-> "SRAM", id |-> id, seq |-> s]
AckPacket(id, s) == [cmd |-> "ACK", id |-> id, seq |-> s]

\* A packet in the air on its way to console d.
To(d, p) == [dest |-> d, packet |-> p]
Sent(c, p) == {To(d, p) : d \in Peers(c)}

Announce(c) ==
    /\ pc[c] = "hosting" /\ ~found[c]
    /\ net' = net \cup Sent(c, HostPacket(hostId[c]))
    /\ UNCHANGED <<pc, todo, sessionVars, sendVars, saveVars, started, historyVars>>

\* The user gives up; the packet interrupt stays installed.
HostGivesUp(c) ==
    /\ pc[c] = "hosting" /\ ~found[c]
    /\ pc' = [pc EXCEPT ![c] = "game"]
    /\ role' = [role EXCEPT ![c] = "none"]
    /\ status' = [status EXCEPT ![c] = "off"]
    /\ UNCHANGED <<todo, hostId, attached, found, sendVars, saveVars, started,
                   net, historyVars>>

HostConnects(c) ==
    /\ pc[c] = "hosting" /\ found[c]
    /\ pc' = [pc EXCEPT ![c] = "starting"]
    /\ status' = [status EXCEPT ![c] = "host_connected"]
    /\ UNCHANGED <<todo, role, hostId, attached, found, sendVars, saveVars,
                   started, net, historyVars>>

\* nifiStop: the interrupt is removed and the console is nobody's peer.
Stop(c) ==
    /\ attached' = [attached EXCEPT ![c] = FALSE]
    /\ role' = [role EXCEPT ![c] = "none"]

ClientGivesUp(c) ==
    /\ pc[c] = "searching" /\ ~found[c]
    /\ Stop(c)
    /\ pc' = [pc EXCEPT ![c] = "game"]
    /\ status' = [status EXCEPT ![c] = "off"]
    /\ UNCHANGED <<todo, hostId, found, sendVars, saveVars, started, net,
                   historyVars>>

ClientFindsHost(c) ==
    /\ pc[c] = "searching" /\ found[c]
    /\ pc' = [pc EXCEPT ![c] = "asked"]
    /\ UNCHANGED <<todo, sessionVars, sendVars, saveVars, started, net,
                   historyVars>>

\* Declining leaves the console a client that waits for a host.
ClientDeclines(c) ==
    /\ pc[c] = "asked"
    /\ pc' = [pc EXCEPT ![c] = "game"]
    /\ UNCHANGED <<todo, sessionVars, sendVars, saveVars, started, net,
                   historyVars>>

-----------------------------------------------------------------------------
(* nifiSendPacket with acknowledge: the thread blocks until the packet is  *)
(* answered or has been sent Retries times more.                           *)

BeginSend(c, p) ==
    /\ net' = net \cup Sent(c, p)
    /\ seq' = [seq EXCEPT ![c] = @ + 1]
    /\ acked' = [acked EXCEPT ![c] = NoSequence]
    /\ tries' = [tries EXCEPT ![c] = 0]

\* Neither counter is read again before the next wait begins.
EndWait(c) ==
    /\ tries' = [tries EXCEPT ![c] = 0]
    /\ acked' = [acked EXCEPT ![c] = NoSequence]
    /\ UNCHANGED seq

\* The sequence number of the packet the thread is waiting for.
Awaited(c) == seq[c] - 1
\* Mutant: any acknowledgement will do.
AnyAnswer(c) == acked[c] # NoSequence
Answered(c) == acked[c] = Awaited(c)
Sending(c) == pc[c] \in {"joining", "sending"}

\* Mutant: a packet is sent again for ever.
AlwaysRetry(c) == tries[c] <= Retries
MayRetry(c) == tries[c] < Retries

\* Mutant: attempts are not counted.
SameTry(c) == tries[c]
NextTry(c) == tries[c] + 1

PendingPacket(c) ==
    IF pc[c] = "joining" THEN ClientPacket(hostId[c], Awaited(c))
    ELSE SavePacket(hostId[c], Awaited(c))

SendAgain(c) ==
    /\ Sending(c) /\ ~Answered(c) /\ MayRetry(c)
    /\ tries' = [tries EXCEPT ![c] = NextTry(c)]
    /\ net' = net \cup Sent(c, PendingPacket(c))
    /\ UNCHANGED <<pc, todo, sessionVars, seq, acked, saveVars, started,
                   historyVars>>

ClientAccepts(c) ==
    /\ pc[c] = "asked"
    /\ pc' = [pc EXCEPT ![c] = "joining"]
    /\ BeginSend(c, ClientPacket(hostId[c], seq[c]))
    /\ UNCHANGED <<todo, sessionVars, saveVars, started, historyVars>>

ClientConnects(c) ==
    /\ pc[c] = "joining" /\ Answered(c)
    /\ pc' = [pc EXCEPT ![c] = "starting"]
    /\ status' = [status EXCEPT ![c] = "client_connected"]
    /\ EndWait(c)
    /\ UNCHANGED <<todo, role, hostId, attached, found, saveVars,
                   started, net, historyVars>>

HandshakeFails(c) ==
    /\ pc[c] = "joining" /\ ~Answered(c) /\ ~MayRetry(c)
    /\ Stop(c)
    /\ pc' = [pc EXCEPT ![c] = "game"]
    /\ EndWait(c)
    /\ UNCHANGED <<todo, status, hostId, found, saveVars, started,
                   net, historyVars>>

\* The driver refuses to send the packet (again): the send ends in an error,
\* but without nifiStop, and only the handshake looks at the error.
DriverFails(c) ==
    /\ Sending(c)
    /\ Fault(c, "send")
    /\ IF pc[c] = "joining"
       THEN pc' = [pc EXCEPT ![c] = "game"] /\ UNCHANGED todo
       ELSE pc' = [pc EXCEPT ![c] = "exchange"] /\ todo' = [todo EXCEPT ![c] = Tail(@)]
    /\ EndWait(c)
    /\ UNCHANGED <<sessionVars, saveVars, started, net, sessions, fresh, stale,
                   waited, imported>>

-----------------------------------------------------------------------------
(* nifiStartLink.                                                          *)

\* Mutant: both consoles send their save data before they wait for the peer's.
SendFirst(c) ==
    (IF c \in HasSave THEN <<"send">> ELSE <<>>)
        \o (IF PeerSaves(c) THEN <<"receive">> ELSE <<>>)

\* The host sends its save data first, the client waits for it first.
Exchange(c) ==
    LET send == IF c \in HasSave THEN <<"send">> ELSE <<>>
        receive == IF PeerSaves(c) THEN <<"receive">> ELSE <<>>
    IN  IF role[c] = "host" THEN send \o receive ELSE receive \o send

\* mgr_startGb2 (and, for another cartridge, loadOtherRom) gives the peer's
\* Game Boy cleared RAM, whatever was in it.
StartGb2(c) ==
    /\ pc[c] = "starting"
    /\ save' = [save EXCEPT ![c] = "blank"]
    /\ todo' = [todo EXCEPT ![c] = Exchange(c)]
    /\ pc' = [pc EXCEPT ![c] = "exchange"]
    /\ UNCHANGED <<sessionVars, sendVars, gotSave, started, net, historyVars>>

\* Out of memory, or the peer's cartridge file is missing: mgr_stopGb2.
StartGb2Fails(c) ==
    /\ pc[c] = "starting"
    /\ save' = [save EXCEPT ![c] = "none"]
    /\ pc' = [pc EXCEPT ![c] = "game"]
    /\ UNCHANGED <<todo, sessionVars, sendVars, gotSave, started, net,
                   historyVars>>

NextTodo(c) == IF todo[c] = <<>> THEN "done" ELSE Head(todo[c])
Done(c) == todo' = [todo EXCEPT ![c] = Tail(@)]

\* nifiSendSram.  The handler is attached: nothing has stopped the link since
\* the menu was entered.
BeginSendSave(c) ==
    /\ pc[c] = "exchange" /\ NextTodo(c) = "send"
    /\ pc' = [pc EXCEPT ![c] = "sending"]
    /\ BeginSend(c, SavePacket(hostId[c], seq[c]))
    /\ UNCHANGED <<todo, sessionVars, saveVars, started, historyVars>>

\* There is no memory for a copy of the save data: nothing is sent, and
\* nifiSendSram does not tell its caller.
SendFails(c) ==
    /\ pc[c] = "exchange" /\ NextTodo(c) = "send"
    /\ Fault(c, "send")
    /\ Done(c)
    /\ UNCHANGED <<pc, sessionVars, sendVars, saveVars, started, net, sessions,
                   fresh, stale, waited, imported>>

SaveSent(c) ==
    /\ pc[c] = "sending" /\ Answered(c)
    /\ pc' = [pc EXCEPT ![c] = "exchange"]
    /\ Done(c)
    /\ EndWait(c)
    /\ UNCHANGED <<sessionVars, saveVars, started, net, historyVars>>

\* The link is dropped but nifiSendSram does not tell its caller.
SaveNotSent(c) ==
    /\ pc[c] = "sending" /\ ~Answered(c) /\ ~MayRetry(c)
    /\ Stop(c)
    /\ pc' = [pc EXCEPT ![c] = "exchange"]
    /\ Done(c)
    /\ EndWait(c)
    /\ UNCHANGED <<status, hostId, found, saveVars, started, net,
                   historyVars>>

BeginReceiveSave(c) ==
    /\ pc[c] = "exchange" /\ NextTodo(c) = "receive"
    /\ pc' = [pc EXCEPT ![c] = "receiving"]
    /\ tries' = [tries EXCEPT ![c] = 0]
    /\ UNCHANGED <<todo, sessionVars, seq, acked, saveVars, started, net,
                   historyVars>>

\* Mutant: the wait for the save data ends at once.
NoWait(c) == TRUE
SaveReceived(c) == gotSave[c]

EndReceiveSave(c) ==
    /\ pc[c] = "receiving" /\ SaveReceived(c)
    /\ pc' = [pc EXCEPT ![c] = "exchange"]
    /\ Done(c)
    /\ waited' = [waited EXCEPT ![c] = @ \cup {hostId[c]}]
    /\ EndWait(c)
    /\ UNCHANGED <<sessionVars, saveVars, started, net, sessions, fresh,
                   stale, imported, faults>>

WaitForSave(c) ==
    /\ pc[c] = "receiving" /\ ~SaveReceived(c) /\ tries[c] < Patience
    /\ tries' = [tries EXCEPT ![c] = @ + 1]
    /\ UNCHANGED <<pc, todo, sessionVars, seq, acked, saveVars, started, net,
                   historyVars>>

\* "Link failed.": the console keeps its role.
ReceiveTimesOut(c) ==
    /\ pc[c] = "receiving" /\ ~SaveReceived(c) /\ tries[c] >= Patience
    /\ pc' = [pc EXCEPT ![c] = "game"]
    /\ todo' = [todo EXCEPT ![c] = <<>>]
    /\ EndWait(c)
    /\ UNCHANGED <<sessionVars, saveVars, started, net, historyVars>>

StartLink(c) ==
    /\ pc[c] = "exchange" /\ todo[c] = <<>>
    /\ pc' = [pc EXCEPT ![c] = "game"]
    /\ started' = [started EXCEPT ![c] = TRUE]
    /\ UNCHANGED <<todo, sessionVars, sendVars, saveVars, net, historyVars>>

\* nifiUpdateInput has waited too often for the peer (NifiLockstep).
LinkLost(c) ==
    /\ pc[c] = "game" /\ role[c] # "none"
    /\ Stop(c)
    /\ UNCHANGED <<pc, todo, status, hostId, found, sendVars, saveVars,
                   started, net, historyVars>>

-----------------------------------------------------------------------------
(* packetHandler: acknowledge first, then handle.                          *)

Searching(c) == role[c] = "client" /\ status[c] = "client_waiting"
Accepts(c, p) == attached[c] /\ (Searching(c) \/ p.id = hostId[c])

ReceiveAck(c, p) ==
    /\ p.cmd = "ACK"
    /\ acked' = [acked EXCEPT ![c] = IF Sending(c) THEN p.seq ELSE @]
    /\ UNCHANGED <<sessionVars, saveVars, imported, faults>>

ReceiveHost(c, p) ==
    /\ p.cmd = "HOST"
    /\ IF Searching(c)
       THEN /\ hostId' = [hostId EXCEPT ![c] = p.id]
            /\ found' = [found EXCEPT ![c] = TRUE]
       ELSE UNCHANGED <<hostId, found>>
    /\ UNCHANGED <<role, status, attached, acked, saveVars, imported, faults>>

ReceiveClient(c, p) ==
    /\ p.cmd = "CLIENT"
    /\ found' = [found EXCEPT ![c] =
                    @ \/ (role[c] = "host" /\ status[c] = "host_waiting")]
    /\ UNCHANGED <<role, status, hostId, attached, acked, saveVars, imported,
                   faults>>

\* Save data is dropped when there is no memory to hold its fragments, or, by
\* importLinkSaveData, no second Game Boy to hold it.
DropSave(c) ==
    /\ IF save[c] = "none" THEN UNCHANGED faults ELSE Fault(c, "receive")
    /\ UNCHANGED <<saveVars, imported>>

StoreSave(c, p) ==
    /\ save[c] # "none"
    /\ save' = [save EXCEPT ![c] = "peer"]
    /\ gotSave' = [gotSave EXCEPT ![c] = TRUE]
    /\ imported' = [imported EXCEPT ![c] = @ \cup {p.id}]
    /\ UNCHANGED faults

ReceiveSave(c, p) ==
    /\ p.cmd = "SRAM"
    /\ DropSave(c) \/ StoreSave(c, p)
    /\ UNCHANGED <<sessionVars, acked>>

Answer(c, p) ==
    IF p.cmd \in {"CLIENT", "SRAM"} THEN Sent(c, AckPacket(hostId[c], p.seq))
    ELSE {}

Receive(c) ==
    \E m \in net :
        /\ m.dest = c
        /\ Accepts(c, m.packet)
        /\ net' = (net \ {m}) \cup Answer(c, m.packet)
        /\ \/ ReceiveAck(c, m.packet)
           \/ ReceiveHost(c, m.packet)
           \/ ReceiveClient(c, m.packet)
           \/ ReceiveSave(c, m.packet)
        /\ UNCHANGED <<pc, todo, seq, tries, started, sessions, fresh, stale,
                       waited>>

-----------------------------------------------------------------------------
\* What the user decides.
UserChooses(c) ==
    \/ EnterHostMenu(c) \/ EnterClientMenu(c)
    \/ HostGivesUp(c) \/ ClientGivesUp(c)
    \/ ClientAccepts(c) \/ ClientDeclines(c)

\* What the main thread does by itself.
Proceed(c) ==
    \/ HostConnects(c) \/ ClientFindsHost(c)
    \/ SendAgain(c) \/ ClientConnects(c) \/ HandshakeFails(c)
    \/ StartGb2(c) \/ StartGb2Fails(c)
    \/ BeginSendSave(c) \/ SaveSent(c) \/ SaveNotSent(c)
    \/ BeginReceiveSave(c) \/ EndReceiveSave(c) \/ WaitForSave(c)
    \/ ReceiveTimesOut(c) \/ StartLink(c)

Next ==
    \E c \in Consoles :
        \/ UserChooses(c) \/ Announce(c) \/ Proceed(c)
        \/ DriverFails(c) \/ SendFails(c)
        \/ LinkLost(c) \/ Receive(c)

\* A main thread runs on; nothing is assumed of the radio or of the users.
Spec == Init /\ [][Next]_vars /\ \A c \in Consoles : WF_vars(Proceed(c))

-----------------------------------------------------------------------------
(* Properties.                                                             *)

Packets ==
    [cmd : {"HOST"}, id : Nat]
        \cup [cmd : {"CLIENT", "SRAM", "ACK"}, id : Nat, seq : Nat]

Todos == {<<>>, <<"send">>, <<"receive">>, <<"send", "receive">>,
          <<"receive", "send">>}

Failures == Consoles \X {"send", "receive"}

\* Every variable keeps its type.
TypeOK ==
    /\ pc \in [Consoles -> {"game", "hosting", "searching", "asked", "joining",
                            "starting", "exchange", "sending", "receiving"}]
    /\ todo \in [Consoles -> Todos]
    /\ role \in [Consoles -> {"none", "host", "client"}]
    /\ status \in [Consoles -> {"off", "host_waiting", "host_connected",
                                "client_waiting", "client_connected"}]
    /\ hostId \in [Consoles -> Nat]
    /\ attached \in [Consoles -> BOOLEAN]
    /\ found \in [Consoles -> BOOLEAN]
    /\ seq \in [Consoles -> Nat \ {0}]
    /\ acked \in [Consoles -> Nat \cup {NoSequence}]
    /\ tries \in [Consoles -> Nat]
    /\ save \in [Consoles -> {"none", "old", "blank", "peer"}]
    /\ gotSave \in [Consoles -> BOOLEAN]
    /\ started \in [Consoles -> BOOLEAN]
    /\ \A m \in net : m.dest \in Consoles /\ m.packet \in Packets
    /\ sessions \in Seq(Consoles)
    /\ fresh \in [Consoles -> BOOLEAN]
    /\ stale \subseteq Consoles
    /\ waited \in [Consoles -> SUBSET Nat]
    /\ imported \in [Consoles -> SUBSET Nat]
    /\ faults \subseteq Failures

\* A packet is sent again at most Retries times, and nothing has detached the
\* handler, which hears the answer, while save data is still to be sent.
SendsAreHeard ==
    \A c \in Consoles :
        /\ Sending(c) => attached[c] /\ tries[c] <= Retries
        /\ pc[c] = "exchange" /\ NextTodo(c) = "send" => attached[c]

Linked(c) == pc[c] = "game" /\ started[c] /\ role[c] # "none"

\* A linked console plays with the save data its peer sent in this session
\* when no second Game Boy was left over from before: nothing clears the RAM
\* again, and the emulation does not start with the data still on its way.
FreshLinkHoldsPeerSave ==
    \A c \in Consoles :
        Linked(c) /\ fresh[c] /\ PeerSaves(c) => save[c] = "peer"

\* Two consoles that both have save data.
Pair(h, c) == h # c /\ Consoles = {h, c} /\ HasSave = Consoles

\* The host is the last to start: the client has got the host's save data
\* before the host runs its first frame, whatever packets were lost.
HostStartsLast ==
    \A h, c \in Consoles :
        Pair(h, c) /\ Linked(h) /\ role[h] = "host" => hostId[h] \in waited[c]

\* A linked client's save data is in the host's second Game Boy: the host has
\* one by then, since it created it before it sent the data the client got.
\* Excepted is a client that failed to send (its driver refused, or there was no
\* memory for a copy), for it goes on and links all the same; and a host that had
\* no memory for what it received, for it acknowledges a packet before it handles
\* it.  So is a client that enters the menu with a Game Boy left over: it may take
\* an old packet for the host's data, answer before the host has a Game Boy, and
\* be acknowledged all the same.
ClientStartsStored ==
    \A h, c \in Consoles :
        /\ Pair(h, c)
        /\ Linked(c) /\ role[c] = "client" /\ c \notin stale
        /\ faults \cap {<<c, "send">>, <<h, "receive">>} = {}
        => hostId[c] \in imported[h]

\* Both sides of the order in which the consoles start.
StartsInOrder ==
    TypeOK /\ SendsAreHeard /\ HostStartsLast /\ ClientStartsStored

\* Setting up a link never blocks the emulator for ever.
SetupEnds ==
    \A c \in Consoles :
        pc[c] \in {"joining", "starting", "exchange", "sending", "receiving"}
            ~> pc[c] = "game"
=============================================================================
