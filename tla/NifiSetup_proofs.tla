-------------------------- MODULE NifiSetup_proofs ---------------------------
(***************************************************************************)
(* What setting up a wireless link promises, for every number of consoles, *)
(* sessions, retries and lost packets: a linked console whose Game Boy was *)
(* created for this link plays with its peer's save data, and two consoles *)
(* with battery RAM start in an order in which each has what it needs.     *)
(***************************************************************************)
EXTENDS NifiSetup, SequenceTheorems, TLAPS

-----------------------------------------------------------------------------
(* What nifiStartLink has still to do.                                     *)

ToSend == {<<"send">>, <<"send", "receive">>, <<"receive", "send">>}
ToReceive == {<<"receive">>, <<"send", "receive">>, <<"receive", "send">>}

-----------------------------------------------------------------------------
(* The inductive invariant, in parts.  First what holds of each console    *)
(* alone.                                                                  *)

BeforeStart == {"hosting", "searching", "asked", "joining", "starting"}
InExchange == {"exchange", "sending", "receiving"}

\* The plan of a console that exchanges save data, and where it is in it.
TodoInv(c) ==
    /\ pc[c] = "sending" => NextTodo(c) = "send"
    /\ pc[c] = "receiving" => NextTodo(c) = "receive"

\* The handler stays attached as long as there is something to send, and a
\* packet is sent again at most Retries times.
AttachedInv(c) ==
    /\ \/ pc[c] \in BeforeStart
       \/ pc[c] \in InExchange /\ todo[c] \in ToSend
       => attached[c]
    /\ Sending(c) => tries[c] <= Retries

AsHost(c) == role[c] = "host" /\ status[c] = "host_connected"
AsClient(c) == role[c] = "client" /\ status[c] = "client_connected" /\ found[c]

\* Which half of the protocol the thread is in, and who it takes itself for.
RoleInv(c) ==
    /\ pc[c] = "hosting" => role[c] = "host" /\ status[c] = "host_waiting"
    /\ pc[c] \in {"searching", "asked", "joining"} =>
        role[c] = "client" /\ status[c] = "client_waiting"
    /\ pc[c] \in {"asked", "joining"} => found[c]
    /\ pc[c] = "starting" => AsHost(c) \/ AsClient(c)
    /\ pc[c] \in InExchange =>
        \/ AsHost(c) \/ AsClient(c)
        \/ role[c] = "none" /\ todo[c] \notin ToSend
    /\ pc[c] = "game" /\ started[c] =>
        AsHost(c) \/ AsClient(c) \/ role[c] = "none"
    /\ pc[c] # "game" => ~started[c]

\* The save data of the peer: received when the plan says so, and not before
\* there is a Game Boy made for it.
SaveInv(c) ==
    /\ fresh[c] /\ pc[c] \in BeforeStart => save[c] = "none" /\ ~gotSave[c]
    /\ fresh[c] /\ gotSave[c] => save[c] = "peer"
    /\ pc[c] \in InExchange => save[c] # "none"
    /\ PeerSaves(c) =>
        /\ pc[c] \in InExchange /\ todo[c] \notin ToReceive => gotSave[c]
        /\ pc[c] = "game" /\ started[c] => gotSave[c]

LocalInv(c) == TodoInv(c) /\ AttachedInv(c) /\ RoleInv(c) /\ SaveInv(c)
ConsoleInv == TypeOK /\ \A c \in Consoles : LocalInv(c)

-----------------------------------------------------------------------------
(* Sessions are told apart by their names.                                 *)

Opened == 1 .. Len(sessions)

SessionOf(c) ==
    /\ hostId[c] = NoHost \/ hostId[c] \in Opened
    /\ imported[c] \subseteq Opened \cup {NoHost}
    /\ role[c] = "host" => hostId[c] \in Opened /\ sessions[hostId[c]] = c
    /\ role[c] = "client" /\ found[c] =>
        hostId[c] \in Opened /\ sessions[hostId[c]] # c

SessionIn(m) ==
    /\ m.packet.id = NoHost \/ m.packet.id \in Opened
    /\ m.packet.cmd = "HOST" =>
        m.packet.id \in Opened /\ sessions[m.packet.id] # m.dest

SessionInv ==
    (\A c \in Consoles : SessionOf(c)) /\ (\A m \in net : SessionIn(m))

\* Each console asks for at most two answers in a session: a client for that to
\* its handshake and that to its save data, a host for that to its save data.
SequenceOf(c) ==
    /\ pc[c] \in {"hosting", "searching", "asked"} => seq[c] = 1
    /\ pc[c] = "joining" => seq[c] = 2
    /\ \/ pc[c] = "starting"
       \/ pc[c] \in {"exchange", "receiving"} /\ todo[c] \in ToSend
       => seq[c] = IF role[c] = "host" THEN 1 ELSE 2
    /\ pc[c] = "sending" => seq[c] = IF role[c] = "host" THEN 2 ELSE 3

SequenceInv ==
    /\ \A c \in Consoles : SequenceOf(c)
    /\ \A m \in net : m.packet.cmd = "CLIENT" => m.packet.seq = 1

-----------------------------------------------------------------------------
(* Two consoles, h and c, that both have save data.                        *)

\* The order of a client's exchange.
ClientOrder(c) ==
    /\ pc[c] \in InExchange /\ role[c] = "client" =>
        todo[c] \in {<<"receive", "send">>, <<"send">>, <<>>}
    /\ pc[c] \in InExchange /\ role[c] = "client" /\ todo[c] \notin ToReceive =>
        hostId[c] \in waited[c]

\* The save data a host gets is sent by a client that has got the host's.
HostInv(h, c) ==
    /\ \A m \in net :
        /\ m.dest = h /\ m.packet.cmd = "SRAM"
        /\ role[h] = "host" /\ m.packet.id = hostId[h]
        => hostId[h] \in waited[c]
    /\ role[h] = "host" /\ gotSave[h] => hostId[h] \in waited[c]

NoGameBoyYet(c) ==
    /\ status[c] \in {"host_waiting", "client_waiting"} => save[c] = "none"
    /\ pc[c] \in BeforeStart => save[c] = "none"
    /\ gotSave[c] => save[c] # "none"

\* A console with no Game Boy left over has none before it starts a link, and
\* sends no save data before.
NewcomerInv(h, c) ==
    c \notin stale =>
        /\ NoGameBoyYet(c)
        /\ gotSave[c] /\ role[c] = "client" => hostId[c] \in imported[c]
        /\ \A m \in net :
            /\ m.dest = h /\ m.packet.cmd = "SRAM" =>
                /\ save[c] # "none"
                /\ m.packet.seq \in {1, 2}
                /\ m.packet.seq = 2 =>
                    /\ m.packet.id = hostId[c] /\ m.packet.id \in Opened
                    /\ sessions[m.packet.id] = h /\ m.packet.id \in imported[c]
            /\ m.dest = c /\ m.packet.cmd = "ACK" /\ m.packet.seq = 2 =>
                save[c] # "none"

\* A console whose save data is on its way to the other, or there, has the Game
\* Boy of its session.
OwnerInv(h, c) ==
    /\ hostId[h] \in Opened /\ sessions[hostId[h]] = h
    /\ \/ hostId[h] \in imported[c]
       \/ \E m \in net : /\ m.dest = c /\ m.packet.cmd = "SRAM"
                         /\ m.packet.id = hostId[h]
    => /\ save[h] # "none"
       /\ role[h] = "host" => pc[h] \notin {"hosting", "starting"}

\* The client takes its save data to be stored.
HasAnswer(c) ==
    \/ pc[c] = "sending" /\ acked[c] = 2
    \/ /\ <<c, "send">> \notin faults
       /\ \/ pc[c] \in {"exchange", "receiving"} /\ todo[c] \notin ToSend
          \/ pc[c] = "game" /\ started[c]

\* What the acknowledgement of a newcomer's save data by a host that had the
\* memory for it means.
AnsweredInv(h, c) ==
    c \notin stale /\ <<h, "receive">> \notin faults =>
        /\ \A m \in net :
            /\ m.dest = c /\ m.packet.cmd = "ACK" /\ m.packet.seq = 2
            /\ m.packet.id = hostId[c]
            /\ m.packet.id \in Opened /\ sessions[m.packet.id] = h
            => hostId[c] \in imported[h]
        /\ role[c] = "client" /\ HasAnswer(c) => hostId[c] \in imported[h]

PairInv(h, c) ==
    /\ ClientOrder(c) /\ HostInv(h, c)
    /\ NewcomerInv(h, c) /\ OwnerInv(h, c) /\ AnsweredInv(h, c)

-----------------------------------------------------------------------------
(* Lemmas.                                                                 *)

\* What a step of the exchange leaves to do.
LEMMA TodoStep ==
    ASSUME NEW t \in Todos
    PROVE  /\ t = <<>> \/ (t # <<>> /\ Head(t) \in {"send", "receive"})
           /\ t # <<>> /\ Head(t) = "send" =>
                /\ t \in ToSend
                /\ Tail(t) \in Todos /\ Tail(t) \notin ToSend
                /\ Tail(t) \in ToReceive <=> t \in ToReceive
           /\ t # <<>> /\ Head(t) = "receive" =>
                /\ t \in ToReceive
                /\ Tail(t) \in Todos /\ Tail(t) \notin ToReceive
                /\ Tail(t) \in ToSend <=> t \in ToSend
<1>1. CASE t = <<>>
  BY <1>1
<1>2. CASE t = <<"send">>
  BY <1>2 DEF Todos, ToSend, ToReceive
<1>3. CASE t = <<"receive">>
  BY <1>3 DEF Todos, ToSend, ToReceive
<1>4. CASE t = <<"send", "receive">>
  <2>1. Head(t) = "send" /\ Tail(t) = <<"receive">>
    BY <1>4
  <2> QED
    BY <2>1, <1>4 DEF Todos, ToSend, ToReceive
<1>5. CASE t = <<"receive", "send">>
  <2>1. Head(t) = "receive" /\ Tail(t) = <<"send">>
    BY <1>5
  <2> QED
    BY <2>1, <1>5 DEF Todos, ToSend, ToReceive
<1> QED
  BY <1>1, <1>2, <1>3, <1>4, <1>5 DEF Todos

LEMMA TodoEmpty == <<>> \in Todos /\ <<>> \notin ToSend /\ <<>> \notin ToReceive
  BY DEF Todos, ToSend, ToReceive

LEMMA TwoInARow ==
    ASSUME NEW S, NEW x \in S, NEW y \in S
    PROVE  <<x>> \o <<y>> = <<x, y>>
<1>1. <<x>> \in Seq(S) /\ <<y>> \in Seq(S) /\ <<x, y>> \in Seq(S)
  OBVIOUS
<1>2. /\ <<x>> \o <<y>> \in Seq(S) /\ Len(<<x>> \o <<y>>) = 2
      /\ (<<x>> \o <<y>>)[1] = x /\ (<<x>> \o <<y>>)[2] = y
  BY <1>1
<1>3. Len(<<x, y>>) = 2 /\ <<x, y>>[1] = x /\ <<x, y>>[2] = y /\ 1 .. 2 = {1, 2}
  OBVIOUS
<1> QED
  BY <1>1, <1>2, <1>3, SeqEqual

\* nifiStartLink sends when this console has a save, and waits when another has.
LEMMA ExchangeTodo ==
    ASSUME NEW c \in Consoles
    PROVE  /\ Exchange(c) \in Todos
           /\ Exchange(c) \in ToReceive <=> PeerSaves(c)
           /\ role[c] = "client" /\ c \in HasSave /\ PeerSaves(c) =>
                Exchange(c) = <<"receive", "send">>
<1>0. /\ <<"send">> \o <<"receive">> = <<"send", "receive">>
      /\ <<"receive">> \o <<"send">> = <<"receive", "send">>
      /\ <<"send">> \o <<>> = <<"send">> /\ <<>> \o <<"send">> = <<"send">>
      /\ <<"receive">> \o <<>> = <<"receive">>
      /\ <<>> \o <<"receive">> = <<"receive">>
      /\ <<>> \o <<>> = <<>>
  <2>1. \A S : \A s \in Seq(S) : s \o <<>> = s /\ <<>> \o s = s
    BY ConcatEmptySeq
  <2>2. /\ <<"send">> \in Seq({"send"}) /\ <<"receive">> \in Seq({"receive"})
        /\ <<>> \in Seq({"send"})
    OBVIOUS
  <2>3. \A x, y \in {"send", "receive"} : <<x>> \o <<y>> = <<x, y>>
    BY TwoInARow
  <2> QED
    BY <2>1, <2>2, <2>3, Zenon
<1>1. CASE c \in HasSave /\ PeerSaves(c)
  BY <1>0, <1>1 DEF Exchange, Todos, ToReceive
<1>2. CASE c \in HasSave /\ ~PeerSaves(c)
  BY <1>0, <1>2 DEF Exchange, Todos, ToReceive
<1>3. CASE c \notin HasSave /\ PeerSaves(c)
  BY <1>0, <1>3 DEF Exchange, Todos, ToReceive
<1>4. CASE c \notin HasSave /\ ~PeerSaves(c)
  BY <1>0, <1>4 DEF Exchange, Todos, ToReceive
<1> QED
  BY <1>1, <1>2, <1>3, <1>4

\* The packets of the protocol.
LEMMA PacketTypes ==
    ASSUME NEW id \in Nat
    PROVE  /\ HostPacket(id) \in Packets
           /\ HostPacket(id).cmd = "HOST" /\ HostPacket(id).id = id
           /\ \A s \in Nat :
                /\ ClientPacket(id, s) \in Packets /\ SavePacket(id, s) \in Packets
                /\ AckPacket(id, s) \in Packets
                /\ ClientPacket(id, s).cmd = "CLIENT"
                /\ ClientPacket(id, s).id = id /\ ClientPacket(id, s).seq = s
                /\ SavePacket(id, s).cmd = "SRAM"
                /\ SavePacket(id, s).id = id /\ SavePacket(id, s).seq = s
                /\ AckPacket(id, s).cmd = "ACK"
                /\ AckPacket(id, s).id = id /\ AckPacket(id, s).seq = s
  BY DEF HostPacket, ClientPacket, SavePacket, AckPacket, Packets

LEMMA PacketFields ==
    ASSUME NEW p \in Packets
    PROVE  /\ p.id \in Nat /\ p.cmd \in {"HOST", "CLIENT", "SRAM", "ACK"}
           /\ p.cmd # "HOST" => p.seq \in Nat
  BY DEF Packets

\* Every other console hears what a console sends, and nobody else.
LEMMA SentPackets ==
    ASSUME NEW c \in Consoles, NEW p, NEW m \in Sent(c, p)
    PROVE  m.dest \in Consoles /\ m.dest # c /\ m.packet = p
  BY DEF Sent, To, Peers

-----------------------------------------------------------------------------
(* The types.                                                              *)

LEMMA TypeInit == Init => ConsoleInv
<1> SUFFICES ASSUME Init PROVE ConsoleInv
  OBVIOUS
<1>1. TypeOK
  <2>1. sessions \in Seq(Consoles)
    BY DEF Init
  <2> QED
    BY <2>1, TodoEmpty DEF Init, TypeOK, NoHost, NoSequence
<1>2. \A c \in Consoles :
        /\ pc[c] = "game" /\ ~started[c] /\ ~fresh[c] /\ role[c] = "none"
  BY DEF Init
<1>3. ASSUME NEW c \in Consoles PROVE LocalInv(c)
  BY <1>2
  DEF LocalInv, TodoInv, AttachedInv, RoleInv, SaveInv, BeforeStart, InExchange,
      Sending
<1> QED
  BY <1>1, <1>3 DEF ConsoleInv

LEMMA NetType ==
    ASSUME TypeOK, NEW c \in Consoles, NEW p \in Packets
    PROVE  \A m \in net \cup Sent(c, p) : m.dest \in Consoles /\ m.packet \in Packets
  BY SentPackets DEF TypeOK

\* A step of console c: of its user, its main thread or its packet interrupt.
Step(c) ==
    \/ UserChooses(c) \/ Announce(c) \/ Proceed(c)
    \/ DriverFails(c) \/ SendFails(c)
    \/ LinkLost(c) \/ Receive(c)

\* The rest of the exchange when its first part is over.
LEMMA DoneType ==
    ASSUME TypeOK, NEW c \in Consoles, NextTodo(c) # "done", Done(c)
    PROVE  /\ todo' \in [Consoles -> Todos]
           /\ todo'[c] = Tail(todo[c])
           /\ \A d \in Consoles : d # c => todo'[d] = todo[d]
           /\ NextTodo(c) = "send" => todo'[c] \notin ToSend
           /\ NextTodo(c) = "receive" => todo'[c] \notin ToReceive
           /\ NextTodo(c) = "send" => (todo'[c] \in ToReceive <=> todo[c] \in ToReceive)
           /\ NextTodo(c) = "receive" => (todo'[c] \in ToSend <=> todo[c] \in ToSend)
<1>1. todo[c] \in Todos
  BY DEF TypeOK
<1>2. todo[c] # <<>> /\ NextTodo(c) = Head(todo[c]) /\ Head(todo[c]) \in {"send", "receive"}
  BY <1>1, TodoStep DEF NextTodo
<1>3. Tail(todo[c]) \in Todos
  BY <1>1, <1>2, TodoStep
<1>4. /\ todo' \in [Consoles -> Todos]
      /\ todo'[c] = Tail(todo[c])
      /\ \A d \in Consoles : d # c => todo'[d] = todo[d]
  BY <1>3 DEF Done, TypeOK
<1> QED
  BY <1>1, <1>2, <1>4, TodoStep

\* Packet m is handled by console c, and answered if it asks for that.
Handled(c, m) ==
    /\ m \in net /\ m.dest = c /\ Accepts(c, m.packet)
    /\ UNCHANGED <<pc, todo, role, status, attached, seq, tries, started, sessions,
                   fresh, stale, waited>>
    /\ faults' \in {faults, faults \cup {<<c, "receive">>}}
    /\ \/ ReceiveAck(c, m.packet) /\ net' = net \ {m}
       \/ ReceiveHost(c, m.packet) /\ net' = net \ {m}
       \/ /\ ReceiveClient(c, m.packet) \/ ReceiveSave(c, m.packet)
          /\ net' = (net \ {m}) \cup Sent(c, AckPacket(hostId[c], m.packet.seq))

LEMMA ReceivedPacket ==
    ASSUME NEW c \in Consoles, Receive(c)
    PROVE  \E m \in net : Handled(c, m)
  BY DEF Receive, Answer, Handled, ReceiveAck, ReceiveHost, ReceiveClient,
     ReceiveSave, DropSave, StoreSave, Fault, sessionVars, saveVars

LEMMA TypeStep == ConsoleInv /\ [Next]_vars => TypeOK'
<1> SUFFICES ASSUME ConsoleInv, [Next]_vars PROVE TypeOK'
  OBVIOUS
<1>t. TypeOK /\ \A c \in Consoles : TodoInv(c)
  BY DEF ConsoleInv, LocalInv
<1>s. CASE UNCHANGED vars
  BY <1>t, <1>s DEF vars, sessionVars, sendVars, saveVars, historyVars, TypeOK
<1>n. ASSUME NEW c \in Consoles, Step(c)
      PROVE  TypeOK'
  <2> USE DEF sessionVars, sendVars, saveVars, historyVars, NoSequence, NoHost
  <2>t. /\ hostId[c] \in Nat /\ seq[c] \in Nat \ {0}
        /\ todo[c] \in Todos /\ Exchange(c) \in Todos
    BY <1>t, ExchangeTodo DEF TypeOK
  <2>1. CASE EnterHostMenu(c)
    BY <2>1, <1>t, <2>t, TodoEmpty DEF EnterHostMenu, EnterMenu, TypeOK
  <2>2. CASE EnterClientMenu(c)
    BY <2>2, <1>t, <2>t, TodoEmpty DEF EnterClientMenu, EnterMenu, TypeOK
  <2>3. CASE HostGivesUp(c)
    BY <2>3, <1>t, <2>t, TodoEmpty DEF HostGivesUp, TypeOK
  <2>4. CASE ClientGivesUp(c)
    BY <2>4, <1>t, <2>t, TodoEmpty DEF ClientGivesUp, Stop, TypeOK
  <2>5. CASE ClientAccepts(c)
    <3>1. \A m \in net' : m.dest \in Consoles /\ m.packet \in Packets
      BY <2>5, <1>t, <2>t, PacketTypes, NetType DEF ClientAccepts, BeginSend
    <3> QED
      BY <3>1, <2>5, <1>t, <2>t DEF ClientAccepts, BeginSend, TypeOK
  <2>6. CASE ClientDeclines(c)
    BY <2>6, <1>t, <2>t, TodoEmpty DEF ClientDeclines, TypeOK
  <2>7. CASE Announce(c)
    <3>1. \A m \in net' : m.dest \in Consoles /\ m.packet \in Packets
      BY <2>7, <1>t, <2>t, PacketTypes, NetType DEF Announce
    <3> QED
      BY <3>1, <2>7, <1>t DEF Announce, TypeOK
  <2>8. CASE HostConnects(c)
    BY <2>8, <1>t, <2>t, TodoEmpty DEF HostConnects, TypeOK
  <2>9. CASE ClientFindsHost(c)
    BY <2>9, <1>t, <2>t, TodoEmpty DEF ClientFindsHost, TypeOK
  <2>10. CASE SendAgain(c)
    <3>1. seq[c] - 1 \in Nat
      BY <2>t
    <3>2. PendingPacket(c) \in Packets
      BY <3>1, <2>t, PacketTypes DEF PendingPacket, Awaited
    <3>3. \A m \in net' : m.dest \in Consoles /\ m.packet \in Packets
      BY <2>10, <1>t, <3>2, NetType DEF SendAgain
    <3> QED
      BY <3>3, <2>10, <1>t DEF SendAgain, NextTry, TypeOK
  <2>11. CASE ClientConnects(c)
    BY <2>11, <1>t, <2>t, TodoEmpty DEF ClientConnects, EndWait, TypeOK
  <2>12. CASE HandshakeFails(c)
    BY <2>12, <1>t, <2>t, TodoEmpty DEF HandshakeFails, Stop, EndWait, TypeOK
  <2>13. CASE StartGb2(c)
    BY <2>13, <1>t, <2>t, TodoEmpty DEF StartGb2, TypeOK
  <2>14. CASE StartGb2Fails(c)
    BY <2>14, <1>t, <2>t, TodoEmpty DEF StartGb2Fails, TypeOK
  <2>15. CASE BeginSendSave(c)
    <3>1. \A m \in net' : m.dest \in Consoles /\ m.packet \in Packets
      BY <2>15, <1>t, <2>t, PacketTypes, NetType DEF BeginSendSave, BeginSend
    <3> QED
      BY <3>1, <2>15, <1>t DEF BeginSendSave, BeginSend, TypeOK
  <2>16. CASE SaveSent(c)
    <3>1. todo' \in [Consoles -> Todos]
      BY <2>16, <1>t, DoneType DEF SaveSent, TodoInv
    <3> QED
      BY <3>1, <2>16, <1>t DEF SaveSent, TypeOK, EndWait, Stop
  <2>17. CASE SaveNotSent(c)
    <3>1. todo' \in [Consoles -> Todos]
      BY <2>17, <1>t, DoneType DEF SaveNotSent, TodoInv
    <3> QED
      BY <3>1, <2>17, <1>t DEF SaveNotSent, TypeOK, EndWait, Stop
  <2>18. CASE BeginReceiveSave(c)
    BY <2>18, <1>t, <2>t, TodoEmpty DEF BeginReceiveSave, TypeOK
  <2>19. CASE EndReceiveSave(c)
    <3>1. todo' \in [Consoles -> Todos]
      BY <2>19, <1>t, DoneType DEF EndReceiveSave, TodoInv
    <3> QED
      BY <3>1, <2>19, <1>t DEF EndReceiveSave, TypeOK, EndWait, Stop
  <2>20. CASE WaitForSave(c)
    BY <2>20, <1>t, <2>t, TodoEmpty DEF WaitForSave, TypeOK
  <2>21. CASE ReceiveTimesOut(c)
    BY <2>21, <1>t, <2>t, TodoEmpty DEF ReceiveTimesOut, EndWait, TypeOK
  <2>22. CASE StartLink(c)
    BY <2>22, <1>t, <2>t, TodoEmpty DEF StartLink, TypeOK
  <2>23. CASE DriverFails(c)
    <3>1. todo' \in [Consoles -> Todos]
      BY <2>23, <1>t, DoneType DEF DriverFails, TodoInv, Sending, Done, TypeOK
    <3>2. faults' \subseteq Failures
      BY <2>23, <1>t DEF DriverFails, Fault, Failures, TypeOK
    <3> QED
      BY <3>1, <3>2, <2>23, <1>t DEF DriverFails, TypeOK, EndWait, Stop
  <2>24. CASE LinkLost(c)
    BY <2>24, <1>t, <2>t, TodoEmpty DEF LinkLost, Stop, TypeOK
  <2>25. CASE Receive(c)
    <3>1. PICK m \in net : Handled(c, m)
      BY <2>25, ReceivedPacket
    <3>2. m.packet \in Packets /\ m.packet.id \in Nat
      BY <1>t, PacketFields DEF TypeOK
    <3>3. \A q \in net' : q.dest \in Consoles /\ q.packet \in Packets
      <4>1. CASE net' = net \ {m}
        BY <4>1, <1>t DEF TypeOK
      <4>2. CASE ReceiveClient(c, m.packet) \/ ReceiveSave(c, m.packet)
        <5>1. AckPacket(hostId[c], m.packet.seq) \in Packets
          BY <4>2, <3>2, <2>t, PacketFields, PacketTypes
          DEF ReceiveClient, ReceiveSave
        <5> QED
          BY <5>1, <3>1, <4>2, <1>t, NetType
          DEF Handled, ReceiveClient, ReceiveSave
      <4> QED
        BY <3>1, <4>1, <4>2 DEF Handled
    <3>4. m.packet.cmd = "ACK" => m.packet.seq \in Nat
      BY <3>2, PacketFields
    <3>5. CASE ReceiveAck(c, m.packet)
      BY <3>1, <3>3, <3>4, <3>5, <1>t DEF Handled, ReceiveAck, TypeOK
    <3>6. CASE ReceiveHost(c, m.packet)
      BY <3>1, <3>2, <3>3, <3>6, <1>t DEF Handled, ReceiveHost, TypeOK
    <3>7. CASE ReceiveClient(c, m.packet)
      BY <3>1, <3>3, <3>7, <1>t DEF Handled, ReceiveClient, TypeOK
    <3>8. CASE ReceiveSave(c, m.packet)
      <4>1. /\ save' \in [Consoles -> {"none", "old", "blank", "peer"}]
            /\ gotSave' \in [Consoles -> BOOLEAN]
            /\ imported' \in [Consoles -> SUBSET Nat]
        <5> DEFINE S == imported[c] \cup {m.packet.id}
        <5>1. S \in SUBSET Nat
          BY <3>2, <1>t DEF TypeOK
        <5>2. CASE DropSave(c)
          BY <5>2, <1>t DEF DropSave, TypeOK
        <5>3. CASE StoreSave(c, m.packet)
          <6>1. imported' = [imported EXCEPT ![c] = S]
            BY <5>3 DEF StoreSave
          <6> HIDE DEF S
          <6> QED
            BY <6>1, <5>1, <5>3, <1>t DEF StoreSave, TypeOK
        <5> QED
          BY <5>2, <5>3, <3>8 DEF ReceiveSave
      <4>2. faults' \subseteq Failures
        BY <3>1, <1>t DEF Handled, Failures, TypeOK
      <4> QED
        BY <4>1, <4>2, <3>1, <3>3, <3>8, <1>t DEF Handled, ReceiveSave, TypeOK
    <3> QED
      BY <3>1, <3>5, <3>6, <3>7, <3>8 DEF Handled
  <2>26. CASE SendFails(c)
    <3>1. todo' \in [Consoles -> Todos]
      BY <2>26, <1>t, DoneType DEF SendFails, TodoInv
    <3> QED
      BY <3>1, <2>26, <1>t DEF SendFails, Fault, Failures, TypeOK
  <2> QED
    BY <1>n, <2>1, <2>2, <2>3, <2>4, <2>5, <2>6, <2>7, <2>8, <2>9, <2>10, <2>11,
       <2>12, <2>13, <2>14, <2>15, <2>16, <2>17, <2>18, <2>19, <2>20, <2>21,
       <2>22, <2>23, <2>24, <2>25, <2>26
    DEF Step, UserChooses, Proceed
<1> QED
  BY <1>s, <1>n DEF Next, Step

-----------------------------------------------------------------------------
(* A step of one console changes nothing of another, but for what is in    *)
(* the air.                                                                *)

Untouched(d) ==
    /\ pc'[d] = pc[d] /\ todo'[d] = todo[d] /\ role'[d] = role[d]
    /\ status'[d] = status[d] /\ hostId'[d] = hostId[d]
    /\ attached'[d] = attached[d] /\ found'[d] = found[d]
    /\ seq'[d] = seq[d] /\ acked'[d] = acked[d] /\ tries'[d] = tries[d]
    /\ save'[d] = save[d] /\ gotSave'[d] = gotSave[d] /\ started'[d] = started[d]
    /\ fresh'[d] = fresh[d] /\ waited'[d] = waited[d] /\ imported'[d] = imported[d]
    /\ d \in stale' <=> d \in stale
    /\ <<d, "send">> \in faults' <=> <<d, "send">> \in faults
    /\ <<d, "receive">> \in faults' <=> <<d, "receive">> \in faults

LEMMA OthersUntouched ==
    ASSUME TypeOK, NEW c \in Consoles, Step(c), NEW d \in Consoles, d # c
    PROVE  Untouched(d)
<1> USE DEF TypeOK, Untouched, sessionVars, sendVars, saveVars, historyVars
<1>1. CASE EnterHostMenu(c)
  BY <1>1 DEF EnterHostMenu, EnterMenu
<1>2. CASE EnterClientMenu(c)
  BY <1>2 DEF EnterClientMenu, EnterMenu
<1>3. CASE HostGivesUp(c)
  BY <1>3 DEF HostGivesUp
<1>4. CASE ClientGivesUp(c)
  BY <1>4 DEF ClientGivesUp, Stop
<1>5. CASE ClientAccepts(c)
  BY <1>5 DEF ClientAccepts, BeginSend
<1>6. CASE ClientDeclines(c)
  BY <1>6 DEF ClientDeclines
<1>7. CASE Announce(c)
  BY <1>7 DEF Announce
<1>8. CASE HostConnects(c)
  BY <1>8 DEF HostConnects
<1>9. CASE ClientFindsHost(c)
  BY <1>9 DEF ClientFindsHost
<1>10. CASE SendAgain(c)
  BY <1>10 DEF SendAgain
<1>11. CASE ClientConnects(c)
  BY <1>11 DEF ClientConnects, EndWait
<1>12. CASE HandshakeFails(c)
  BY <1>12 DEF HandshakeFails, Stop, EndWait
<1>13. CASE StartGb2(c)
  BY <1>13 DEF StartGb2
<1>14. CASE StartGb2Fails(c)
  BY <1>14 DEF StartGb2Fails
<1>15. CASE BeginSendSave(c)
  BY <1>15 DEF BeginSendSave, BeginSend
<1>16. CASE SaveSent(c)
  BY <1>16 DEF SaveSent, Done, EndWait
<1>17. CASE SaveNotSent(c)
  BY <1>17 DEF SaveNotSent, Done, Stop, EndWait
<1>18. CASE BeginReceiveSave(c)
  BY <1>18 DEF BeginReceiveSave
<1>19. CASE EndReceiveSave(c)
  BY <1>19 DEF EndReceiveSave, Done, EndWait
<1>20. CASE WaitForSave(c)
  BY <1>20 DEF WaitForSave
<1>21. CASE ReceiveTimesOut(c)
  BY <1>21 DEF ReceiveTimesOut, EndWait
<1>22. CASE StartLink(c)
  BY <1>22 DEF StartLink
<1>23. CASE DriverFails(c)
  BY <1>23 DEF DriverFails, Fault, EndWait
<1>24. CASE LinkLost(c)
  BY <1>24 DEF LinkLost, Stop
<1>25. CASE Receive(c)
  BY <1>25
  DEF Receive, ReceiveAck, ReceiveHost, ReceiveClient, ReceiveSave, DropSave, StoreSave,
      Fault
<1>26. CASE SendFails(c)
  BY <1>26 DEF SendFails, Fault, Done
<1> QED
  BY <1>1, <1>2, <1>3, <1>4, <1>5, <1>6, <1>7, <1>8, <1>9, <1>10, <1>11, <1>12,
     <1>13, <1>14, <1>15, <1>16, <1>17, <1>18, <1>19, <1>20, <1>21, <1>22,
     <1>23, <1>24, <1>25, <1>26
  DEF Step, UserChooses, Proceed

LEMMA LocalStep ==
    ASSUME ConsoleInv, NEW c \in Consoles, Step(c)
    PROVE  LocalInv(c)'
<1>t. TypeOK /\ TodoInv(c) /\ AttachedInv(c) /\ RoleInv(c) /\ SaveInv(c)
  BY DEF ConsoleInv, LocalInv
<1>d. todo[c] \in Todos /\ hostId[c] \in Nat
  BY <1>t DEF TypeOK
<1>p. PeerSaves(c)' <=> PeerSaves(c)
  BY DEF PeerSaves, Peers
<1> USE DEF LocalInv, TodoInv, AttachedInv, RoleInv, SaveInv, BeforeStart, InExchange,
            AsHost, AsClient, Sending, NextTodo,
            sessionVars, sendVars, saveVars, historyVars
<1>1. CASE EnterHostMenu(c)
  BY <1>1, <1>t, <1>d, <1>p, TodoStep, TodoEmpty, ExchangeTodo, LimitAssumption
  DEF EnterHostMenu, EnterMenu, TypeOK
<1>2. CASE EnterClientMenu(c)
  BY <1>2, <1>t, <1>d, <1>p, TodoStep, TodoEmpty, ExchangeTodo, LimitAssumption
  DEF EnterClientMenu, EnterMenu, TypeOK
<1>3. CASE HostGivesUp(c)
  BY <1>3, <1>t, <1>d, <1>p, TodoStep, TodoEmpty, ExchangeTodo, LimitAssumption
  DEF HostGivesUp, TypeOK
<1>4. CASE ClientGivesUp(c)
  BY <1>4, <1>t, <1>d, <1>p, TodoStep, TodoEmpty, ExchangeTodo, LimitAssumption
  DEF ClientGivesUp, Stop, TypeOK
<1>5. CASE ClientAccepts(c)
  BY <1>5, <1>t, <1>d, <1>p, TodoStep, TodoEmpty, ExchangeTodo, LimitAssumption
  DEF ClientAccepts, BeginSend, TypeOK
<1>6. CASE ClientDeclines(c)
  BY <1>6, <1>t, <1>d, <1>p, TodoStep, TodoEmpty, ExchangeTodo, LimitAssumption
  DEF ClientDeclines, TypeOK
<1>7. CASE Announce(c)
  BY <1>7, <1>t, <1>d, <1>p, TodoStep, TodoEmpty, ExchangeTodo, LimitAssumption
  DEF Announce, TypeOK
<1>8. CASE HostConnects(c)
  BY <1>8, <1>t, <1>d, <1>p, TodoStep, TodoEmpty, ExchangeTodo, LimitAssumption
  DEF HostConnects, TypeOK
<1>9. CASE ClientFindsHost(c)
  BY <1>9, <1>t, <1>d, <1>p, TodoStep, TodoEmpty, ExchangeTodo, LimitAssumption
  DEF ClientFindsHost, TypeOK
<1>10. CASE SendAgain(c)
  BY <1>10, <1>t, <1>d, <1>p, TodoStep, TodoEmpty, ExchangeTodo, LimitAssumption
  DEF SendAgain, MayRetry, NextTry, TypeOK
<1>11. CASE ClientConnects(c)
  BY <1>11, <1>t, <1>d, <1>p, TodoStep, TodoEmpty, ExchangeTodo, LimitAssumption
  DEF ClientConnects, EndWait, TypeOK
<1>12. CASE HandshakeFails(c)
  BY <1>12, <1>t, <1>d, <1>p, TodoStep, TodoEmpty, ExchangeTodo, LimitAssumption
  DEF HandshakeFails, Stop, EndWait, TypeOK
<1>13. CASE StartGb2(c)
  BY <1>13, <1>t, <1>d, <1>p, TodoStep, TodoEmpty, ExchangeTodo, LimitAssumption
  DEF StartGb2, TypeOK
<1>14. CASE StartGb2Fails(c)
  BY <1>14, <1>t, <1>d, <1>p, TodoStep, TodoEmpty, ExchangeTodo, LimitAssumption
  DEF StartGb2Fails, TypeOK
<1>15. CASE BeginSendSave(c)
  BY <1>15, <1>t, <1>d, <1>p, TodoStep, TodoEmpty, ExchangeTodo, LimitAssumption
  DEF BeginSendSave, BeginSend, TypeOK
<1>16. CASE SaveSent(c)
  <2>1. NextTodo(c) = "send" /\ Done(c)
    BY <1>16, <1>t DEF SaveSent
  <2> QED
  BY <2>1, DoneType, TodoStep, <1>16, <1>t, <1>d, <1>p
  DEF SaveSent, EndWait, TypeOK
<1>17. CASE SaveNotSent(c)
  <2>1. NextTodo(c) = "send" /\ Done(c)
    BY <1>17, <1>t DEF SaveNotSent
  <2> QED
  BY <2>1, DoneType, TodoStep, <1>17, <1>t, <1>d, <1>p
  DEF SaveNotSent, Stop, EndWait, TypeOK
<1>18. CASE BeginReceiveSave(c)
  BY <1>18, <1>t, <1>d, <1>p, TodoStep, TodoEmpty, ExchangeTodo, LimitAssumption
  DEF BeginReceiveSave, TypeOK
<1>19. CASE EndReceiveSave(c)
  <2>1. NextTodo(c) = "receive" /\ Done(c)
    BY <1>19, <1>t DEF EndReceiveSave
  <2> QED
  BY <2>1, DoneType, TodoStep, <1>19, <1>t, <1>d, <1>p
  DEF EndReceiveSave, SaveReceived, EndWait, TypeOK
<1>20. CASE WaitForSave(c)
  BY <1>20, <1>t, <1>d, <1>p, TodoStep, TodoEmpty, ExchangeTodo, LimitAssumption
  DEF WaitForSave, TypeOK
<1>21. CASE ReceiveTimesOut(c)
  BY <1>21, <1>t, <1>d, <1>p, TodoStep, TodoEmpty, ExchangeTodo, LimitAssumption
  DEF ReceiveTimesOut, EndWait, TypeOK
<1>22. CASE StartLink(c)
  BY <1>22, <1>t, <1>d, <1>p, TodoStep, TodoEmpty, ExchangeTodo, LimitAssumption
  DEF StartLink, TypeOK
<1>23. CASE DriverFails(c)
  <2>1. CASE pc[c] = "joining"
    BY <2>1, <1>23, <1>t, <1>d, <1>p DEF DriverFails, EndWait, TypeOK
  <2>2. CASE pc[c] = "sending"
    <3>1. NextTodo(c) = "send" /\ Done(c)
      BY <2>2, <1>23, <1>t DEF DriverFails, Done
    <3> QED
      BY <2>2, <3>1, DoneType, TodoStep, <1>23, <1>t, <1>d, <1>p
      DEF DriverFails, EndWait, TypeOK
  <2> QED
    BY <2>1, <2>2, <1>23 DEF DriverFails
<1>24. CASE LinkLost(c)
  BY <1>24, <1>t, <1>d, <1>p, TodoStep, TodoEmpty, ExchangeTodo, LimitAssumption
  DEF LinkLost, Stop, TypeOK
<1>25. CASE Receive(c)
  BY <1>25, <1>t, <1>d, <1>p, TodoStep, TodoEmpty, ExchangeTodo, LimitAssumption
  DEF Receive, ReceiveAck, ReceiveHost, ReceiveClient, ReceiveSave, DropSave, StoreSave,
      TypeOK
<1>26. CASE SendFails(c)
  <2>1. NextTodo(c) = "send" /\ Done(c)
    BY <1>26 DEF SendFails
  <2> QED
    BY <2>1, DoneType, TodoStep, <1>26, <1>t, <1>d, <1>p DEF SendFails, TypeOK
<1> QED
  BY <1>1, <1>2, <1>3, <1>4, <1>5, <1>6, <1>7, <1>8, <1>9, <1>10, <1>11, <1>12,
     <1>13, <1>14, <1>15, <1>16, <1>17, <1>18, <1>19, <1>20, <1>21, <1>22,
     <1>23, <1>24, <1>25, <1>26
  DEF Step, UserChooses, Proceed

LEMMA ConsoleStep == ConsoleInv /\ [Next]_vars => ConsoleInv'
<1> SUFFICES ASSUME ConsoleInv, [Next]_vars PROVE ConsoleInv'
  OBVIOUS
<1>1. TypeOK'
  BY TypeStep
<1>2. ASSUME NEW d \in Consoles PROVE LocalInv(d)'
  <2> USE DEF ConsoleInv, LocalInv, TodoInv, AttachedInv, RoleInv, SaveInv, Sending,
              NextTodo, AsHost, AsClient, PeerSaves, Peers
  <2>1. CASE UNCHANGED vars
    BY <2>1 DEF vars, sessionVars, sendVars, saveVars, historyVars
  <2>2. ASSUME NEW c \in Consoles, Step(c) PROVE LocalInv(d)'
    <3>1. CASE d = c
      BY <2>2, <3>1, LocalStep
    <3>2. CASE d # c
      <4>1. Untouched(d)
        BY <2>2, <3>2, OthersUntouched
      <4> QED
        BY <4>1 DEF Untouched
    <3> QED
      BY <3>1, <3>2
  <2> QED
    BY <2>1, <2>2 DEF Next, Step
<1> QED
  BY <1>1, <1>2 DEF ConsoleInv

LEMMA ConsoleAlways == Spec => []ConsoleInv
  BY TypeInit, ConsoleStep, PTL DEF Spec

\* Every variable keeps its type.
THEOREM TypeCorrect == Spec => []TypeOK
<1>1. ConsoleInv => TypeOK
  BY DEF ConsoleInv
<1> QED
  BY <1>1, ConsoleAlways, PTL

\* A linked console whose Game Boy was made for this link plays with the save
\* data its peer sent in this session (nifiStartLink, importLinkSaveData).
THEOREM FreshLinkHolds == Spec => []FreshLinkHoldsPeerSave
<1>1. ConsoleInv => FreshLinkHoldsPeerSave
  BY DEF ConsoleInv, LocalInv, SaveInv, FreshLinkHoldsPeerSave, Linked
<1> QED
  BY <1>1, ConsoleAlways, PTL

-----------------------------------------------------------------------------
(* What a step of console c puts in the air, and what it does to the       *)
(* sessions.                                                               *)

NewPacket(c, m) ==
    LET p == m.packet IN
    /\ m.dest \in Consoles /\ m.dest # c /\ p.id = hostId[c]
    /\ \/ p.cmd = "HOST" /\ pc[c] = "hosting"
       \/ p.cmd = "CLIENT" /\ pc'[c] = "joining" /\ p.seq = seq'[c] - 1
       \/ /\ p.cmd = "SRAM" /\ p.seq = seq'[c] - 1
          /\ pc[c] \in {"exchange", "sending"} /\ pc'[c] = "sending"
          /\ UNCHANGED <<role, hostId, todo, save, stale, imported, waited, sessions>>
       \/ /\ p.cmd = "ACK"
          /\ \E q \in net :
                /\ q.dest = c /\ Accepts(c, q.packet)
                /\ q.packet.cmd \in {"CLIENT", "SRAM"} /\ q.packet.seq = p.seq
                /\ q.packet.cmd = "SRAM" /\ save[c] # "none" =>
                    q.packet.id \in imported'[c] \/ <<c, "receive">> \in faults'

LEMMA NewPackets ==
    ASSUME TypeOK, NEW c \in Consoles, Step(c), NEW m \in net', m \notin net
    PROVE  NewPacket(c, m)
<1>t. hostId[c] \in Nat /\ seq[c] \in Nat \ {0} /\ seq[c] - 1 \in Nat
  BY DEF TypeOK
<1> USE DEF sessionVars, sendVars, saveVars, historyVars
<1>1. CASE EnterHostMenu(c)
  BY <1>1 DEF EnterHostMenu, EnterMenu
<1>2. CASE EnterClientMenu(c)
  BY <1>2 DEF EnterClientMenu, EnterMenu
<1>3. CASE HostGivesUp(c)
  BY <1>3 DEF HostGivesUp
<1>4. CASE ClientGivesUp(c)
  BY <1>4 DEF ClientGivesUp, Stop
<1>5. CASE ClientAccepts(c)
  <2>1. m.dest \in Consoles /\ m.dest # c /\ m.packet = ClientPacket(hostId[c], seq[c])
    BY <1>5, SentPackets DEF ClientAccepts, BeginSend
  <2>2. pc'[c] = "joining" /\ seq'[c] - 1 = seq[c]
    BY <1>5, <1>t DEF ClientAccepts, BeginSend, TypeOK
  <2> QED
    BY <2>1, <2>2, <1>t, PacketTypes DEF NewPacket
<1>6. CASE ClientDeclines(c)
  BY <1>6 DEF ClientDeclines
<1>7. CASE Announce(c)
  <2>1. m.dest \in Consoles /\ m.dest # c /\ m.packet = HostPacket(hostId[c])
    BY <1>7, SentPackets DEF Announce
  <2> QED
    BY <2>1, <1>7, <1>t, PacketTypes DEF Announce, NewPacket
<1>8. CASE HostConnects(c)
  BY <1>8 DEF HostConnects
<1>9. CASE ClientFindsHost(c)
  BY <1>9 DEF ClientFindsHost
<1>10. CASE SendAgain(c)
  <2>1. m.dest \in Consoles /\ m.dest # c /\ m.packet = PendingPacket(c)
    BY <1>10, SentPackets DEF SendAgain
  <2>2. Sending(c) /\ seq' = seq /\ pc' = pc
    BY <1>10 DEF SendAgain
  <2>3. CASE pc[c] = "joining"
    BY <2>1, <2>2, <2>3, <1>t, PacketTypes DEF PendingPacket, Awaited, NewPacket
  <2>4. CASE pc[c] = "sending"
    BY <2>1, <2>2, <2>4, <1>10, <1>t, PacketTypes
    DEF SendAgain, PendingPacket, Awaited, NewPacket
  <2> QED
    BY <2>2, <2>3, <2>4 DEF Sending
<1>11. CASE ClientConnects(c)
  BY <1>11 DEF ClientConnects, EndWait
<1>12. CASE HandshakeFails(c)
  BY <1>12 DEF HandshakeFails, Stop, EndWait
<1>13. CASE StartGb2(c)
  BY <1>13 DEF StartGb2
<1>14. CASE StartGb2Fails(c)
  BY <1>14 DEF StartGb2Fails
<1>15. CASE BeginSendSave(c)
  <2>1. m.dest \in Consoles /\ m.dest # c /\ m.packet = SavePacket(hostId[c], seq[c])
    BY <1>15, SentPackets DEF BeginSendSave, BeginSend
  <2>2. pc[c] = "exchange" /\ pc'[c] = "sending" /\ seq'[c] - 1 = seq[c]
    BY <1>15, <1>t DEF BeginSendSave, BeginSend, TypeOK
  <2> QED
    BY <2>1, <2>2, <1>15, <1>t, PacketTypes DEF BeginSendSave, NewPacket
<1>16. CASE SaveSent(c)
  BY <1>16 DEF SaveSent, EndWait, Done
<1>17. CASE SaveNotSent(c)
  BY <1>17 DEF SaveNotSent, Stop, EndWait, Done
<1>18. CASE BeginReceiveSave(c)
  BY <1>18 DEF BeginReceiveSave
<1>19. CASE EndReceiveSave(c)
  BY <1>19 DEF EndReceiveSave, EndWait, Done
<1>20. CASE WaitForSave(c)
  BY <1>20 DEF WaitForSave
<1>21. CASE ReceiveTimesOut(c)
  BY <1>21 DEF ReceiveTimesOut, EndWait
<1>22. CASE StartLink(c)
  BY <1>22 DEF StartLink
<1>23. CASE DriverFails(c)
  BY <1>23 DEF DriverFails, Fault, Done, EndWait
<1>24. CASE LinkLost(c)
  BY <1>24 DEF LinkLost, Stop
<1>25. CASE Receive(c)
  <2>1. PICK q \in net : Handled(c, q)
    BY <1>25, ReceivedPacket
  <2>2. /\ q.dest = c /\ Accepts(c, q.packet)
        /\ ReceiveClient(c, q.packet) \/ ReceiveSave(c, q.packet)
        /\ m \in Sent(c, AckPacket(hostId[c], q.packet.seq))
    BY <2>1 DEF Handled
  <2>3. q.packet.cmd \in {"CLIENT", "SRAM"}
    BY <2>2 DEF ReceiveClient, ReceiveSave
  <2>4. q.packet.seq \in Nat
    BY <2>3, PacketFields DEF TypeOK
  <2>5. q.packet.cmd = "SRAM" /\ save[c] # "none" =>
            q.packet.id \in imported'[c] \/ <<c, "receive">> \in faults'
    BY <2>2 DEF ReceiveClient, ReceiveSave, DropSave, StoreSave, Fault, TypeOK
  <2>6. m.dest \in Consoles /\ m.dest # c /\ m.packet = AckPacket(hostId[c], q.packet.seq)
    BY <2>2, SentPackets
  <2> QED
    BY <2>2, <2>3, <2>4, <2>5, <2>6, <1>t, PacketTypes DEF NewPacket
<1>26. CASE SendFails(c)
  BY <1>26 DEF SendFails, Done
<1> QED
  BY <1>1, <1>2, <1>3, <1>4, <1>5, <1>6, <1>7, <1>8, <1>9, <1>10, <1>11, <1>12,
     <1>13, <1>14, <1>15, <1>16, <1>17, <1>18, <1>19, <1>20, <1>21, <1>22,
     <1>23, <1>24, <1>25, <1>26
  DEF Step, UserChooses, Proceed

\* A session keeps its name and who opened it.
LEMMA SessionsKept ==
    ASSUME TypeOK, NEW c \in Consoles, Step(c)
    PROVE  /\ \A i \in Opened : i \in Opened' /\ sessions'[i] = sessions[i]
           /\ \/ UNCHANGED sessions
              \/ sessions' = Append(sessions, c) /\ pc[c] = "game"
<1>1. UNCHANGED sessions \/ (sessions' = Append(sessions, c) /\ pc[c] = "game")
  <2> USE DEF sessionVars, sendVars, saveVars, historyVars
  <2>1. CASE EnterHostMenu(c)
    BY <2>1 DEF EnterHostMenu, EnterMenu
  <2>2. CASE EnterClientMenu(c)
    BY <2>2 DEF EnterClientMenu, EnterMenu
  <2>3. CASE HostGivesUp(c)
    BY <2>3 DEF HostGivesUp
  <2>4. CASE ClientGivesUp(c)
    BY <2>4 DEF ClientGivesUp
  <2>5. CASE ClientAccepts(c)
    BY <2>5 DEF ClientAccepts
  <2>6. CASE ClientDeclines(c)
    BY <2>6 DEF ClientDeclines
  <2>7. CASE Announce(c)
    BY <2>7 DEF Announce
  <2>8. CASE HostConnects(c)
    BY <2>8 DEF HostConnects
  <2>9. CASE ClientFindsHost(c)
    BY <2>9 DEF ClientFindsHost
  <2>10. CASE SendAgain(c)
    BY <2>10 DEF SendAgain
  <2>11. CASE ClientConnects(c)
    BY <2>11 DEF ClientConnects
  <2>12. CASE HandshakeFails(c)
    BY <2>12 DEF HandshakeFails
  <2>13. CASE StartGb2(c)
    BY <2>13 DEF StartGb2
  <2>14. CASE StartGb2Fails(c)
    BY <2>14 DEF StartGb2Fails
  <2>15. CASE BeginSendSave(c)
    BY <2>15 DEF BeginSendSave
  <2>16. CASE SaveSent(c)
    BY <2>16 DEF SaveSent
  <2>17. CASE SaveNotSent(c)
    BY <2>17 DEF SaveNotSent
  <2>18. CASE BeginReceiveSave(c)
    BY <2>18 DEF BeginReceiveSave
  <2>19. CASE EndReceiveSave(c)
    BY <2>19 DEF EndReceiveSave
  <2>20. CASE WaitForSave(c)
    BY <2>20 DEF WaitForSave
  <2>21. CASE ReceiveTimesOut(c)
    BY <2>21 DEF ReceiveTimesOut
  <2>22. CASE StartLink(c)
    BY <2>22 DEF StartLink
  <2>23. CASE DriverFails(c)
    BY <2>23 DEF DriverFails
  <2>24. CASE LinkLost(c)
    BY <2>24 DEF LinkLost
  <2>25. CASE Receive(c)
    BY <2>25 DEF Receive
  <2>26. CASE SendFails(c)
    BY <2>26 DEF SendFails
  <2> QED
    BY <2>1, <2>2, <2>3, <2>4, <2>5, <2>6, <2>7, <2>8, <2>9, <2>10, <2>11,
       <2>12, <2>13, <2>14, <2>15, <2>16, <2>17, <2>18, <2>19, <2>20, <2>21,
       <2>22, <2>23, <2>24, <2>25, <2>26
    DEF Step, UserChooses, Proceed
<1>2. sessions \in Seq(Consoles)
  BY DEF TypeOK
<1>3. \A i \in Opened : i \in Opened' /\ sessions'[i] = sessions[i]
  BY <1>1, <1>2 DEF Opened
<1> QED
  BY <1>1, <1>3

\* How a console comes by the name of its session.
NameKept(c) ==
    /\ hostId'[c] = hostId[c]
    /\ role'[c] = "host" => role[c] = "host"
    /\ role'[c] = "client" /\ found'[c] => role[c] = "client" /\ found[c]

NameHeard(c) ==
    /\ Searching(c)
    /\ UNCHANGED <<pc, role, save, gotSave, stale>>
    /\ \E q \in net : q.dest = c /\ q.packet.cmd = "HOST" /\ hostId'[c] = q.packet.id

LEMMA NameChanges ==
    ASSUME TypeOK, NEW c \in Consoles, Step(c)
    PROVE  EnterHostMenu(c) \/ NameHeard(c) \/ NameKept(c)
<1> USE DEF sessionVars, sendVars, saveVars, historyVars, TypeOK
<1>1. CASE EnterHostMenu(c)
  BY <1>1
<1>2. CASE EnterClientMenu(c)
  BY <1>2 DEF EnterClientMenu, EnterMenu, NameKept
<1>3. CASE HostGivesUp(c)
  BY <1>3 DEF HostGivesUp, NameKept
<1>4. CASE ClientGivesUp(c)
  BY <1>4 DEF ClientGivesUp, Stop, NameKept
<1>5. CASE ClientAccepts(c)
  BY <1>5 DEF ClientAccepts, BeginSend, NameKept
<1>6. CASE ClientDeclines(c)
  BY <1>6 DEF ClientDeclines, NameKept
<1>7. CASE Announce(c)
  BY <1>7 DEF Announce, NameKept
<1>8. CASE HostConnects(c)
  BY <1>8 DEF HostConnects, NameKept
<1>9. CASE ClientFindsHost(c)
  BY <1>9 DEF ClientFindsHost, NameKept
<1>10. CASE SendAgain(c)
  BY <1>10 DEF SendAgain, MayRetry, NextTry, NameKept
<1>11. CASE ClientConnects(c)
  BY <1>11 DEF ClientConnects, EndWait, NameKept
<1>12. CASE HandshakeFails(c)
  BY <1>12 DEF HandshakeFails, Stop, EndWait, NameKept
<1>13. CASE StartGb2(c)
  BY <1>13 DEF StartGb2, NameKept
<1>14. CASE StartGb2Fails(c)
  BY <1>14 DEF StartGb2Fails, NameKept
<1>15. CASE BeginSendSave(c)
  BY <1>15 DEF BeginSendSave, BeginSend, NameKept
<1>16. CASE SaveSent(c)
  BY <1>16 DEF SaveSent, EndWait, Done, NameKept
<1>17. CASE SaveNotSent(c)
  BY <1>17 DEF SaveNotSent, Stop, EndWait, Done, NameKept
<1>18. CASE BeginReceiveSave(c)
  BY <1>18 DEF BeginReceiveSave, NameKept
<1>19. CASE EndReceiveSave(c)
  BY <1>19 DEF EndReceiveSave, EndWait, Done, NameKept
<1>20. CASE WaitForSave(c)
  BY <1>20 DEF WaitForSave, NameKept
<1>21. CASE ReceiveTimesOut(c)
  BY <1>21 DEF ReceiveTimesOut, EndWait, NameKept
<1>22. CASE StartLink(c)
  BY <1>22 DEF StartLink, NameKept
<1>23. CASE DriverFails(c)
  BY <1>23 DEF DriverFails, Done, EndWait, NameKept
<1>24. CASE LinkLost(c)
  BY <1>24 DEF LinkLost, Stop, NameKept
<1>25. CASE Receive(c)
  <2>1. PICK q \in net : Handled(c, q)
    BY <1>25, ReceivedPacket
  <2>2. CASE ReceiveHost(c, q.packet) /\ Searching(c)
    <3>1. hostId'[c] = q.packet.id /\ q.packet.cmd = "HOST"
      BY <2>2 DEF ReceiveHost
    <3> QED
      BY <2>1, <2>2, <3>1 DEF Handled, ReceiveHost, NameHeard
  <2>3. CASE ~(ReceiveHost(c, q.packet) /\ Searching(c))
    BY <2>1, <2>3
    DEF Handled, ReceiveAck, ReceiveHost, ReceiveClient, ReceiveSave, NameKept
  <2> QED
    BY <2>2, <2>3
<1>26. CASE SendFails(c)
  BY <1>26 DEF SendFails, Done, NameKept
<1> QED
  BY <1>1, <1>2, <1>3, <1>4, <1>5, <1>6, <1>7, <1>8, <1>9, <1>10, <1>11, <1>12,
     <1>13, <1>14, <1>15, <1>16, <1>17, <1>18, <1>19, <1>20, <1>21, <1>22,
     <1>23, <1>24, <1>25, <1>26
  DEF Step, UserChooses, Proceed

\* What the packet interrupt has stored, it has heard.
LEMMA ImportedHeard ==
    ASSUME TypeOK, NEW c \in Consoles, Step(c)
    PROVE  /\ imported[c] \subseteq imported'[c]
           /\ \A i \in imported'[c] \ imported[c] :
                \E q \in net : /\ q.dest = c /\ q.packet.cmd = "SRAM" /\ q.packet.id = i
                               /\ save[c] # "none"
<1> USE DEF sessionVars, sendVars, saveVars, historyVars, TypeOK
<1>1. CASE EnterHostMenu(c)
  BY <1>1 DEF EnterHostMenu, EnterMenu
<1>2. CASE EnterClientMenu(c)
  BY <1>2 DEF EnterClientMenu, EnterMenu
<1>3. CASE HostGivesUp(c)
  BY <1>3 DEF HostGivesUp
<1>4. CASE ClientGivesUp(c)
  BY <1>4 DEF ClientGivesUp, Stop
<1>5. CASE ClientAccepts(c)
  BY <1>5 DEF ClientAccepts, BeginSend
<1>6. CASE ClientDeclines(c)
  BY <1>6 DEF ClientDeclines
<1>7. CASE Announce(c)
  BY <1>7 DEF Announce
<1>8. CASE HostConnects(c)
  BY <1>8 DEF HostConnects
<1>9. CASE ClientFindsHost(c)
  BY <1>9 DEF ClientFindsHost
<1>10. CASE SendAgain(c)
  BY <1>10 DEF SendAgain, MayRetry, NextTry
<1>11. CASE ClientConnects(c)
  BY <1>11 DEF ClientConnects, EndWait
<1>12. CASE HandshakeFails(c)
  BY <1>12 DEF HandshakeFails, Stop, EndWait
<1>13. CASE StartGb2(c)
  BY <1>13 DEF StartGb2
<1>14. CASE StartGb2Fails(c)
  BY <1>14 DEF StartGb2Fails
<1>15. CASE BeginSendSave(c)
  BY <1>15 DEF BeginSendSave, BeginSend
<1>16. CASE SaveSent(c)
  BY <1>16 DEF SaveSent, EndWait, Done
<1>17. CASE SaveNotSent(c)
  BY <1>17 DEF SaveNotSent, Stop, EndWait, Done
<1>18. CASE BeginReceiveSave(c)
  BY <1>18 DEF BeginReceiveSave
<1>19. CASE EndReceiveSave(c)
  BY <1>19 DEF EndReceiveSave, EndWait, Done
<1>20. CASE WaitForSave(c)
  BY <1>20 DEF WaitForSave
<1>21. CASE ReceiveTimesOut(c)
  BY <1>21 DEF ReceiveTimesOut, EndWait
<1>22. CASE StartLink(c)
  BY <1>22 DEF StartLink
<1>23. CASE DriverFails(c)
  BY <1>23 DEF DriverFails, Fault, Done, EndWait
<1>24. CASE LinkLost(c)
  BY <1>24 DEF LinkLost, Stop
<1>25. CASE Receive(c)
  <2>1. PICK q \in net : Handled(c, q)
    BY <1>25, ReceivedPacket
  <2>2. CASE q.packet.cmd = "SRAM" /\ StoreSave(c, q.packet) /\ UNCHANGED sessionVars
    <3>1. imported'[c] = imported[c] \cup {q.packet.id} /\ q.packet.cmd = "SRAM"
      BY <2>2 DEF StoreSave
    <3> QED
      BY <2>1, <2>2, <3>1 DEF Handled, StoreSave
  <2>3. CASE ReceiveSave(c, q.packet) /\ DropSave(c)
    BY <2>1, <2>3 DEF Handled, ReceiveSave, DropSave
  <2>4. CASE ~ReceiveSave(c, q.packet)
    BY <2>1, <2>4 DEF Handled, ReceiveAck, ReceiveHost, ReceiveClient
  <2> QED
    BY <2>2, <2>3, <2>4 DEF ReceiveSave
<1>26. CASE SendFails(c)
  BY <1>26 DEF SendFails, Done
<1> QED
  BY <1>1, <1>2, <1>3, <1>4, <1>5, <1>6, <1>7, <1>8, <1>9, <1>10, <1>11, <1>12,
     <1>13, <1>14, <1>15, <1>16, <1>17, <1>18, <1>19, <1>20, <1>21, <1>22,
     <1>23, <1>24, <1>25, <1>26
  DEF Step, UserChooses, Proceed

LEMMA SessionStep == ConsoleInv /\ SessionInv /\ [Next]_vars => SessionInv'
<1> SUFFICES ASSUME ConsoleInv, SessionInv, [Next]_vars PROVE SessionInv'
  OBVIOUS
<1>t. TypeOK /\ \A c \in Consoles : LocalInv(c)
  BY DEF ConsoleInv
<1>1. CASE UNCHANGED vars
  BY <1>1
  DEF vars, sessionVars, sendVars, saveVars, historyVars, SessionInv, SessionOf,
      
              SessionIn, Opened
<1>2. ASSUME NEW c \in Consoles, Step(c) PROVE SessionInv'
  <2>0. \A i \in Opened : i \in Opened' /\ sessions'[i] = sessions[i]
    BY <1>2, <1>t, SessionsKept
  <2>1. ASSUME NEW m \in net' PROVE SessionIn(m)'
    <3>1. CASE m \in net
      BY <3>1, <2>0 DEF SessionInv, SessionIn
    <3>2. CASE m \notin net
      <4>1. NewPacket(c, m)
        BY <1>2, <1>t, <3>2, NewPackets
      <4>2. SessionOf(c) /\ RoleInv(c)
        BY <1>t DEF SessionInv, LocalInv
      <4>3. m.packet.cmd = "HOST" => role[c] = "host"
        BY <4>1, <4>2 DEF NewPacket, RoleInv
      <4> QED
        BY <4>1, <4>2, <4>3, <2>0 DEF NewPacket, SessionOf, SessionIn
    <3> QED
      BY <3>1, <3>2
  <2>2. ASSUME NEW d \in Consoles PROVE SessionOf(d)'
    <3>1. CASE d # c
      <4>1. Untouched(d)
        BY <3>1, <1>2, <1>t, OthersUntouched
      <4> QED
        BY <4>1, <2>0 DEF Untouched, SessionInv, SessionOf
    <3>2. CASE d = c
      <4>0. SessionOf(c)
        BY DEF SessionInv
      <4>1. imported'[c] \subseteq Opened' \cup {NoHost}
        BY <4>0, <2>0, <1>2, <1>t, ImportedHeard
        DEF SessionInv, SessionOf, SessionIn
      <4>2. CASE EnterHostMenu(c)
        <5>1. /\ hostId'[c] = Len(sessions) + 1 /\ sessions' = Append(sessions, c)
              /\ role'[c] = "host"
          BY <4>2, <1>t DEF EnterHostMenu, EnterMenu, TypeOK
        <5>2. hostId'[c] \in Opened' /\ sessions'[hostId'[c]] = c
          BY <5>1, <1>t DEF Opened, TypeOK
        <5> QED
          BY <5>1, <5>2, <4>1, <3>2 DEF SessionOf
      <4>3. CASE NameHeard(c)
        BY <4>3, <4>1, <3>2, <2>0
        DEF NameHeard, Searching, SessionInv, SessionIn, SessionOf
      <4>4. CASE NameKept(c)
        BY <4>4, <4>0, <4>1, <3>2, <2>0 DEF NameKept, SessionOf
      <4> QED
        BY <4>2, <4>3, <4>4, <1>2, <1>t, NameChanges
    <3> QED
      BY <3>1, <3>2
  <2> QED
    BY <2>1, <2>2 DEF SessionInv
<1> QED
  BY <1>1, <1>2 DEF Next, Step

LEMMA SequenceStep == ConsoleInv /\ SequenceInv /\ [Next]_vars => SequenceInv'
<1> SUFFICES ASSUME ConsoleInv, SequenceInv, [Next]_vars PROVE SequenceInv'
  OBVIOUS
<1>t. TypeOK /\ \A c \in Consoles : LocalInv(c)
  BY DEF ConsoleInv
<1>1. CASE UNCHANGED vars
  BY <1>1
  DEF vars, sessionVars, sendVars, saveVars, historyVars, SequenceInv,
      SequenceOf
<1>2. ASSUME NEW c \in Consoles, Step(c) PROVE SequenceInv'
  <2>0. SequenceOf(c)' /\ (pc'[c] = "joining" => seq'[c] = 2)
    <3>t. SequenceOf(c) /\ TodoInv(c) /\ RoleInv(c) /\ todo[c] \in Todos
      BY <1>t DEF SequenceInv, LocalInv, TypeOK
    <3> USE DEF sessionVars, sendVars, saveVars, historyVars, SequenceOf, RoleInv,
                InExchange, AsHost, AsClient
    <3>1. CASE EnterHostMenu(c)
      BY <3>1, <3>t, <1>t DEF EnterHostMenu, EnterMenu, TypeOK
    <3>2. CASE EnterClientMenu(c)
      BY <3>2, <3>t, <1>t DEF EnterClientMenu, EnterMenu, TypeOK
    <3>3. CASE HostGivesUp(c)
      BY <3>3, <3>t, <1>t DEF HostGivesUp, TypeOK
    <3>4. CASE ClientGivesUp(c)
      BY <3>4, <3>t, <1>t DEF ClientGivesUp, Stop, TypeOK
    <3>5. CASE ClientAccepts(c)
      BY <3>5, <3>t, <1>t DEF ClientAccepts, BeginSend, TypeOK
    <3>6. CASE ClientDeclines(c)
      BY <3>6, <3>t, <1>t DEF ClientDeclines, TypeOK
    <3>7. CASE Announce(c)
      BY <3>7, <3>t, <1>t DEF Announce, TypeOK
    <3>8. CASE HostConnects(c)
      BY <3>8, <3>t, <1>t DEF HostConnects, TypeOK
    <3>9. CASE ClientFindsHost(c)
      BY <3>9, <3>t, <1>t DEF ClientFindsHost, TypeOK
    <3>10. CASE SendAgain(c)
      BY <3>10, <3>t, <1>t DEF SendAgain, MayRetry, NextTry, TypeOK
    <3>11. CASE ClientConnects(c)
      BY <3>11, <3>t, <1>t DEF ClientConnects, EndWait, TypeOK
    <3>12. CASE HandshakeFails(c)
      BY <3>12, <3>t, <1>t DEF HandshakeFails, Stop, EndWait, TypeOK
    <3>13. CASE StartGb2(c)
      BY <3>13, <3>t, <1>t DEF StartGb2, TypeOK
    <3>14. CASE StartGb2Fails(c)
      BY <3>14, <3>t, <1>t DEF StartGb2Fails, TypeOK
    <3>15. CASE BeginSendSave(c)
      <4>1. todo[c] \in ToSend
        BY <3>15, <3>t, TodoStep DEF BeginSendSave, NextTodo
      <4> QED
        BY <4>1, <3>15, <3>t, <1>t DEF BeginSendSave, BeginSend, TypeOK
    <3>16. CASE SaveSent(c)
      <4>1. NextTodo(c) \in {"send", "receive"} /\ Done(c)
        BY <3>16, <3>t DEF SaveSent, TodoInv
      <4> QED
        BY <4>1, <3>16, <3>t, <1>t, DoneType
        DEF SaveSent, EndWait, Done, TypeOK, TodoInv
    <3>17. CASE SaveNotSent(c)
      <4>1. NextTodo(c) \in {"send", "receive"} /\ Done(c)
        BY <3>17, <3>t DEF SaveNotSent, TodoInv
      <4> QED
        BY <4>1, <3>17, <3>t, <1>t, DoneType
        DEF SaveNotSent, Stop, EndWait, Done, TypeOK, TodoInv
    <3>18. CASE BeginReceiveSave(c)
      BY <3>18, <3>t, <1>t DEF BeginReceiveSave, TypeOK
    <3>19. CASE EndReceiveSave(c)
      <4>1. NextTodo(c) \in {"send", "receive"} /\ Done(c)
        BY <3>19, <3>t DEF EndReceiveSave, TodoInv
      <4> QED
        BY <4>1, <3>19, <3>t, <1>t, DoneType
        DEF EndReceiveSave, EndWait, Done, TypeOK, TodoInv
    <3>20. CASE WaitForSave(c)
      BY <3>20, <3>t, <1>t DEF WaitForSave, TypeOK
    <3>21. CASE ReceiveTimesOut(c)
      BY <3>21, <3>t, <1>t DEF ReceiveTimesOut, EndWait, TypeOK
    <3>22. CASE StartLink(c)
      BY <3>22, <3>t, <1>t DEF StartLink, TypeOK
    <3>23. CASE DriverFails(c)
      <4>1. CASE pc[c] = "joining"
        BY <4>1, <3>23, <1>t DEF DriverFails, EndWait, TypeOK
      <4>2. CASE pc[c] = "sending"
        <5>1. NextTodo(c) = "send" /\ Done(c)
          BY <4>2, <3>23, <3>t DEF DriverFails, Done, TodoInv
        <5> QED
          BY <4>2, <5>1, <3>23, <3>t, <1>t, DoneType
          DEF DriverFails, EndWait, TypeOK
      <4> QED
        BY <4>1, <4>2, <3>23 DEF DriverFails, Sending
    <3>24. CASE LinkLost(c)
      BY <3>24, <3>t, <1>t DEF LinkLost, Stop, TypeOK
    <3>25. CASE Receive(c)
      BY <3>25, <3>t, <1>t
      DEF Receive, ReceiveAck, ReceiveHost, ReceiveClient, ReceiveSave, TypeOK
    <3>26. CASE SendFails(c)
      <4>1. NextTodo(c) \in {"send", "receive"} /\ Done(c)
        BY <3>26 DEF SendFails
      <4> QED
        BY <4>1, <3>26, <3>t, <1>t, DoneType DEF SendFails, TypeOK
    <3> QED
      BY <1>2, <3>1, <3>2, <3>3, <3>4, <3>5, <3>6, <3>7, <3>8, <3>9, <3>10,
         <3>11, <3>12, <3>13, <3>14, <3>15, <3>16, <3>17, <3>18, <3>19, <3>20,
         <3>21, <3>22, <3>23, <3>24, <3>25, <3>26
      DEF Step, UserChooses, Proceed
  <2>1. ASSUME NEW m \in net', m.packet.cmd = "CLIENT" PROVE m.packet.seq = 1
    <3>1. CASE m \in net
      BY <2>1, <3>1 DEF SequenceInv
    <3>2. CASE m \notin net
      <4>1. NewPacket(c, m)
        BY <1>2, <1>t, <3>2, NewPackets
      <4> QED
        BY <2>0, <2>1, <4>1 DEF NewPacket
    <3> QED
      BY <3>1, <3>2
  <2>2. ASSUME NEW d \in Consoles PROVE SequenceOf(d)'
    <3>1. CASE d # c
      <4>1. Untouched(d)
        BY <3>1, <1>2, <1>t, OthersUntouched
      <4> QED
        BY <4>1 DEF Untouched, SequenceInv, SequenceOf
    <3> QED
      BY <3>1, <2>0
  <2> QED
    BY <2>1, <2>2 DEF SequenceInv
<1> QED
  BY <1>1, <1>2 DEF Next, Step

-----------------------------------------------------------------------------
(* What a step of console c does to its save data.                         *)

LEMMA SaveChanges ==
    ASSUME ConsoleInv, NEW c \in Consoles, Step(c)
    PROVE  /\ save'[c] = "none" => save[c] = "none" \/ pc[c] = "starting"
           /\ waited[c] \subseteq waited'[c] /\ stale \subseteq stale'
           /\ faults \subseteq faults'
           /\ role'[c] = "client" /\ role[c] # "client" => ~gotSave'[c]
           /\ gotSave'[c] /\ ~gotSave[c] =>
                /\ UNCHANGED <<role, status, hostId, waited>>
                /\ save'[c] # "none"
                /\ \E q \in net :
                    /\ q.dest = c /\ q.packet.cmd = "SRAM" /\ Accepts(c, q.packet)
                    /\ save[c] # "none" /\ q.packet.id \in imported'[c]
           /\ pc'[c] \in {"hosting", "starting"} /\ role'[c] = "host" =>
                EnterHostMenu(c) \/ (pc[c] \in {"hosting", "starting"} /\ role[c] = "host")
<1>t. TypeOK /\ RoleInv(c)
  BY DEF ConsoleInv, LocalInv
<1> USE <1>t DEF sessionVars, sendVars, saveVars, historyVars, TypeOK
<1>1. CASE EnterHostMenu(c)
  BY <1>1 DEF EnterHostMenu, EnterMenu
<1>2. CASE EnterClientMenu(c)
  BY <1>2 DEF EnterClientMenu, EnterMenu
<1>3. CASE HostGivesUp(c)
  BY <1>3 DEF HostGivesUp
<1>4. CASE ClientGivesUp(c)
  BY <1>4 DEF ClientGivesUp, Stop
<1>5. CASE ClientAccepts(c)
  BY <1>5 DEF ClientAccepts, BeginSend
<1>6. CASE ClientDeclines(c)
  BY <1>6 DEF ClientDeclines
<1>7. CASE Announce(c)
  BY <1>7 DEF Announce
<1>8. CASE HostConnects(c)
  BY <1>8 DEF HostConnects
<1>9. CASE ClientFindsHost(c)
  BY <1>9 DEF ClientFindsHost
<1>10. CASE SendAgain(c)
  BY <1>10 DEF SendAgain, MayRetry, NextTry
<1>11. CASE ClientConnects(c)
  BY <1>11 DEF ClientConnects, EndWait, RoleInv
<1>12. CASE HandshakeFails(c)
  BY <1>12 DEF HandshakeFails, Stop, EndWait
<1>13. CASE StartGb2(c)
  BY <1>13 DEF StartGb2
<1>14. CASE StartGb2Fails(c)
  BY <1>14 DEF StartGb2Fails
<1>15. CASE BeginSendSave(c)
  BY <1>15 DEF BeginSendSave, BeginSend
<1>16. CASE SaveSent(c)
  BY <1>16 DEF SaveSent, EndWait
<1>17. CASE SaveNotSent(c)
  BY <1>17 DEF SaveNotSent, Stop, EndWait
<1>18. CASE BeginReceiveSave(c)
  BY <1>18 DEF BeginReceiveSave
<1>19. CASE EndReceiveSave(c)
  <2> DEFINE W == waited[c] \cup {hostId[c]}
  <2>1. waited' = [waited EXCEPT ![c] = W] /\ W \in SUBSET Nat /\ waited[c] \subseteq W
    BY <1>19 DEF EndReceiveSave
  <2> HIDE DEF W
  <2> QED
    BY <2>1, <1>19 DEF EndReceiveSave, EndWait
<1>20. CASE WaitForSave(c)
  BY <1>20 DEF WaitForSave
<1>21. CASE ReceiveTimesOut(c)
  BY <1>21 DEF ReceiveTimesOut, EndWait
<1>22. CASE StartLink(c)
  BY <1>22 DEF StartLink
<1>23. CASE DriverFails(c)
  BY <1>23 DEF DriverFails, Fault, Done, EndWait
<1>24. CASE LinkLost(c)
  BY <1>24 DEF LinkLost, Stop
<1>25. CASE Receive(c)
  <2>1. PICK q \in net : Handled(c, q)
    BY <1>25, ReceivedPacket
  <2>2. CASE q.packet.cmd = "SRAM" /\ StoreSave(c, q.packet) /\ UNCHANGED sessionVars
    <3>1. /\ imported'[c] = imported[c] \cup {q.packet.id} /\ q.packet.cmd = "SRAM"
          /\ save'[c] = "peer" /\ UNCHANGED <<role, status, hostId>>
      BY <2>2 DEF StoreSave
    <3> QED
      BY <2>1, <2>2, <3>1 DEF Handled, StoreSave
  <2>3. CASE ReceiveSave(c, q.packet) /\ DropSave(c)
    BY <2>1, <2>3 DEF Handled, ReceiveSave, DropSave
  <2>4. CASE ~ReceiveSave(c, q.packet)
    BY <2>1, <2>4 DEF Handled, ReceiveAck, ReceiveHost, ReceiveClient
  <2> QED
    BY <2>2, <2>3, <2>4 DEF ReceiveSave
<1>26. CASE SendFails(c)
  BY <1>26 DEF SendFails, Fault, Done
<1> QED
  BY <1>1, <1>2, <1>3, <1>4, <1>5, <1>6, <1>7, <1>8, <1>9, <1>10, <1>11, <1>12,
     <1>13, <1>14, <1>15, <1>16, <1>17, <1>18, <1>19, <1>20, <1>21, <1>22,
     <1>23, <1>24, <1>25, <1>26
  DEF Step, UserChooses, Proceed

-----------------------------------------------------------------------------
(* Two consoles with save data: the order in which they start.             *)

LEMMA ClientTodo ==
    ASSUME NEW t \in {<<"receive", "send">>, <<"send">>, <<>>}
    PROVE  /\ t \notin ToReceive /\ t # <<>> => t = <<"send">>
           /\ t # <<>> /\ Head(t) = "send" => t = <<"send">>
           /\ t # <<>> => Tail(t) \in {<<"send">>, <<>>}
           /\ <<"send">> \notin ToReceive /\ <<>> \notin ToReceive
<1>1. Tail(<<"receive", "send">>) = <<"send">> /\ Head(<<"receive", "send">>) = "receive"
  OBVIOUS
<1>2. Tail(<<"send">>) = <<>>
  OBVIOUS
<1> QED
  BY <1>1, <1>2 DEF ToReceive

LEMMA ClientOrderStep ==
    ASSUME ConsoleInv, NEW c \in Consoles, PeerSaves(c), c \in HasSave, ClientOrder(c),
           NEW x \in Consoles, Step(x)
    PROVE  ClientOrder(c)'
<1>t. TypeOK /\ LocalInv(c) /\ todo[c] \in Todos
  BY DEF ConsoleInv, TypeOK
<1>o. CASE x # c
  BY <1>o, <1>t, OthersUntouched DEF Untouched, ClientOrder
<1>x. CASE x = c
  <2> USE DEF sessionVars, sendVars, saveVars, historyVars, InExchange, ClientOrder
  <2>t. Step(c) /\ TodoInv(c) /\ RoleInv(c)
    BY <1>x, <1>t DEF LocalInv
  <2>1. CASE EnterHostMenu(c)
    BY <2>1, <1>t DEF EnterHostMenu, EnterMenu, TypeOK
  <2>2. CASE EnterClientMenu(c)
    BY <2>2, <1>t DEF EnterClientMenu, EnterMenu, TypeOK
  <2>3. CASE HostGivesUp(c)
    BY <2>3, <1>t DEF HostGivesUp, TypeOK
  <2>4. CASE ClientGivesUp(c)
    BY <2>4, <1>t DEF ClientGivesUp, Stop, TypeOK
  <2>5. CASE ClientAccepts(c)
    BY <2>5, <1>t DEF ClientAccepts, BeginSend, TypeOK
  <2>6. CASE ClientDeclines(c)
    BY <2>6, <1>t DEF ClientDeclines, TypeOK
  <2>7. CASE Announce(c)
    BY <2>7, <1>t DEF Announce, TypeOK
  <2>8. CASE HostConnects(c)
    BY <2>8, <1>t DEF HostConnects, TypeOK
  <2>9. CASE ClientFindsHost(c)
    BY <2>9, <1>t DEF ClientFindsHost, TypeOK
  <2>10. CASE SendAgain(c)
    BY <2>10, <1>t DEF SendAgain, MayRetry, NextTry, TypeOK
  <2>11. CASE ClientConnects(c)
    BY <2>11, <1>t DEF ClientConnects, EndWait, TypeOK
  <2>12. CASE HandshakeFails(c)
    BY <2>12, <1>t DEF HandshakeFails, Stop, EndWait, TypeOK
  <2>13. CASE StartGb2(c)
    <3>1. todo'[c] = Exchange(c) /\ role' = role /\ hostId' = hostId
      BY <2>13, <1>t DEF StartGb2, TypeOK
    <3>2. <<"receive", "send">> \in ToReceive
      BY DEF ToReceive
    <3> QED
      BY <3>1, <3>2, ExchangeTodo
  <2>14. CASE StartGb2Fails(c)
    BY <2>14, <1>t DEF StartGb2Fails, TypeOK
  <2>15. CASE BeginSendSave(c)
    BY <2>15, <1>t DEF BeginSendSave, BeginSend, TypeOK
  <2>16. CASE SaveSent(c)
    <3>1. NextTodo(c) = "send" /\ Done(c)
      BY <2>16, <2>t DEF SaveSent, TodoInv
    <3> QED
      BY <3>1, <2>16, <1>t, DoneType, TodoEmpty, ClientTodo
      DEF SaveSent, EndWait, NextTodo, TypeOK
  <2>17. CASE SaveNotSent(c)
    <3>1. NextTodo(c) = "send" /\ Done(c)
      BY <2>17, <2>t DEF SaveNotSent, TodoInv
    <3> QED
      BY <3>1, <2>17, <1>t, DoneType, TodoEmpty, ClientTodo
      DEF SaveNotSent, Stop, EndWait, NextTodo, TypeOK
  <2>18. CASE BeginReceiveSave(c)
    BY <2>18, <1>t DEF BeginReceiveSave, TypeOK
  <2>19. CASE EndReceiveSave(c)
    <3>1. NextTodo(c) = "receive" /\ Done(c)
      BY <2>19, <2>t DEF EndReceiveSave, TodoInv
    <3>2. hostId'[c] \in waited'[c]
      BY <2>19, <1>t DEF EndReceiveSave, TypeOK
    <3> QED
      BY <3>1, <3>2, <2>19, <1>t, DoneType, TodoEmpty, ClientTodo
      DEF EndReceiveSave, NextTodo
  <2>20. CASE WaitForSave(c)
    BY <2>20, <1>t DEF WaitForSave, TypeOK
  <2>21. CASE ReceiveTimesOut(c)
    BY <2>21, <1>t DEF ReceiveTimesOut, EndWait, TypeOK
  <2>22. CASE StartLink(c)
    BY <2>22, <1>t DEF StartLink, TypeOK
  <2>23. CASE DriverFails(c)
    <3>1. CASE pc[c] = "joining"
      BY <3>1, <2>23, <1>t DEF DriverFails, TypeOK
    <3>2. CASE pc[c] = "sending"
      <4>1. NextTodo(c) = "send" /\ Done(c)
        BY <3>2, <2>23, <2>t DEF DriverFails, Done, TodoInv
      <4> QED
        BY <3>2, <4>1, <2>23, <1>t, DoneType, TodoEmpty, ClientTodo
        DEF DriverFails, NextTodo, TypeOK
    <3> QED
      BY <3>1, <3>2, <2>23 DEF DriverFails, Sending
  <2>24. CASE LinkLost(c)
    BY <2>24, <1>t DEF LinkLost, Stop, TypeOK
  <2>25. CASE Receive(c)
    <3>1. PICK q \in net : Handled(c, q)
      BY <2>25, ReceivedPacket
    <3>2. pc[c] \in InExchange /\ role[c] = "client" => ~Searching(c)
      BY <2>t DEF RoleInv, AsHost, AsClient, Searching
    <3>3. pc[c] \in InExchange /\ role[c] = "client" => hostId'[c] = hostId[c]
      BY <3>1, <3>2
      DEF Handled, ReceiveAck, ReceiveHost, ReceiveClient, ReceiveSave
    <3> QED
      BY <3>1, <3>3 DEF Handled
  <2>26. CASE SendFails(c)
    <3>1. NextTodo(c) = "send" /\ Done(c)
      BY <2>26 DEF SendFails
    <3> QED
      BY <3>1, <2>26, <1>t, DoneType, TodoEmpty, ClientTodo
      DEF SendFails, NextTodo, TypeOK
  <2> QED
    BY <2>t, <2>1, <2>2, <2>3, <2>4, <2>5, <2>6, <2>7, <2>8, <2>9, <2>10, <2>11,
       <2>12, <2>13, <2>14, <2>15, <2>16, <2>17, <2>18, <2>19, <2>20, <2>21,
       <2>22, <2>23, <2>24, <2>25, <2>26
    DEF Step, UserChooses, Proceed
<1> QED
  BY <1>o, <1>x

\* What follows is about a pair of consoles in a state where the invariants of
\* single consoles hold, and about the state after a step of either.
Sound(h, c) ==
    /\ ConsoleInv /\ SessionInv /\ SequenceInv
    /\ ClientOrder(h) /\ ClientOrder(c)

LEMMA PairFacts ==
    ASSUME NEW h \in Consoles, NEW c \in Consoles, Pair(h, c)
    PROVE  /\ h # c /\ \A x \in Consoles : x = h \/ x = c
           /\ PeerSaves(h) /\ PeerSaves(c) /\ h \in HasSave /\ c \in HasSave
  BY DEF Pair, PeerSaves, Peers

LEMMA SoundStep ==
    ASSUME NEW h \in Consoles, NEW c \in Consoles, Pair(h, c), Sound(h, c),
           NEW x \in Consoles, Step(x)
    PROVE  Sound(h, c)'
<1>1. [Next]_vars
  BY DEF Next, Step
<1>2. ClientOrder(h)' /\ ClientOrder(c)'
  BY PairFacts, ClientOrderStep DEF Sound
<1> QED
  BY <1>1, <1>2, ConsoleStep, SessionStep, SequenceStep DEF Sound

\* Save data is sent by the host of a session, or by a client that has got the
\* host's.
LEMMA SaveSender ==
    ASSUME NEW h \in Consoles, NEW c \in Consoles, Pair(h, c), Sound(h, c), Step(c),
           NEW m \in net', m \notin net, m.packet.cmd = "SRAM"
    PROVE  /\ m.dest = h /\ m.packet.id = hostId[c] /\ save[c] # "none"
           /\ UNCHANGED <<role, hostId, save, stale, imported, waited, sessions>>
           /\ pc'[c] = "sending" /\ pc[c] \in {"exchange", "sending"}
           /\ \/ /\ role[c] = "host" /\ m.packet.seq = 1
                 /\ hostId[c] \in Opened /\ sessions[hostId[c]] = c
              \/ /\ role[c] = "client" /\ m.packet.seq = 2
                 /\ hostId[c] \in Opened /\ sessions[hostId[c]] = h
                 /\ hostId[c] \in waited[c] /\ gotSave[c]
<1>1. NewPacket(c, m)
  BY NewPackets DEF Sound, ConsoleInv
<1>2. /\ m.dest = h /\ m.packet.id = hostId[c] /\ m.packet.seq = seq'[c] - 1
      /\ pc[c] \in {"exchange", "sending"} /\ pc'[c] = "sending"
      /\ UNCHANGED <<role, hostId, todo, save, stale, imported, waited, sessions>>
  BY <1>1, PairFacts DEF NewPacket
<1>3. Sound(h, c)'
  BY SoundStep
<1>4. LocalInv(c) /\ LocalInv(c)' /\ ClientOrder(c)' /\ SequenceOf(c)' /\ SessionOf(c)
  BY <1>3 DEF Sound, ConsoleInv, SessionInv, SequenceInv
<1>5. /\ todo[c] \in Todos /\ todo[c] # <<>> /\ Head(todo[c]) = "send"
      /\ todo[c] \in ToSend
  BY <1>2, <1>4, TodoStep
  DEF LocalInv, TodoInv, NextTodo, Sound, ConsoleInv, TypeOK
<1>6. save[c] # "none"
  BY <1>2, <1>4 DEF LocalInv, SaveInv, InExchange
<1>7. AsHost(c)' \/ AsClient(c)'
  BY <1>2, <1>4, <1>5 DEF LocalInv, RoleInv, InExchange
<1>8. CASE role[c] = "host"
  BY <1>2, <1>4, <1>6, <1>8 DEF SequenceOf, SessionOf
<1>9. CASE role[c] = "client"
  <2>1. AsClient(c)
    BY <1>2, <1>4, <1>5, <1>9 DEF LocalInv, RoleInv, InExchange, AsHost
  <2>2. todo[c] \notin ToReceive
    BY <1>2, <1>4, <1>5, <1>9, ClientTodo DEF ClientOrder, InExchange
  <2>3. hostId[c] \in waited[c]
    BY <2>2, <1>2, <1>4, <1>9 DEF ClientOrder, InExchange
  <2>4. gotSave[c]
    BY <2>2, <1>2, <1>4, PairFacts DEF LocalInv, SaveInv, InExchange
  <2>5. hostId[c] \in Opened /\ sessions[hostId[c]] = h
    <3>1. hostId[c] \in Opened /\ sessions[hostId[c]] # c
      BY <2>1, <1>4 DEF SessionOf, AsClient
    <3>2. sessions[hostId[c]] \in Consoles
      BY <3>1 DEF Opened, Sound, ConsoleInv, TypeOK
    <3> QED
      BY <3>1, <3>2, PairFacts
  <2>6. m.packet.seq = 2
    BY <1>2, <1>4, <1>9 DEF SequenceOf
  <2> QED
    BY <1>2, <1>6, <1>9, <2>3, <2>4, <2>5, <2>6
<1> QED
  BY <1>2, <1>7, <1>8, <1>9 DEF AsHost, AsClient

LEMMA HostStep ==
    ASSUME NEW h \in Consoles, NEW c \in Consoles, Pair(h, c), Sound(h, c),
           HostInv(h, c), NEW x \in Consoles, Step(x)
    PROVE  HostInv(h, c)'
<1>t. TypeOK /\ SessionInv /\ SessionOf(h) /\ ConsoleInv
  BY DEF Sound, ConsoleInv, SessionInv
<1>x. x = h \/ x = c
  BY PairFacts
<1>w. waited[c] \subseteq waited'[c]
  BY <1>t, <1>x, PairFacts, SaveChanges, OthersUntouched DEF Untouched
<1>c. CASE x = c
  <2>1. Untouched(h)
    BY <1>c, <1>t, PairFacts, OthersUntouched
  <2>2. ASSUME NEW m \in net', m.dest = h, m.packet.cmd = "SRAM",
               role'[h] = "host", m.packet.id = hostId'[h]
        PROVE  hostId'[h] \in waited'[c]
    <3>1. CASE m \in net
      BY <3>1, <2>1, <2>2, <1>w DEF Untouched, HostInv
    <3>2. CASE m \notin net
      <4>1. role[c] = "host" => FALSE
        BY <1>c, <1>t, <2>1, <2>2, <3>2, PairFacts, SaveSender
        DEF Untouched, SessionOf
      <4> QED
        BY <4>1, <1>c, <1>w, <2>1, <2>2, <3>2, SaveSender DEF Untouched
    <3> QED
      BY <3>1, <3>2
  <2> QED
    BY <2>1, <2>2, <1>w DEF Untouched, HostInv
<1>h. CASE x = h
  <2>1. ASSUME NEW m \in net', m.dest = h, m.packet.cmd = "SRAM",
               role'[h] = "host", m.packet.id = hostId'[h]
        PROVE  hostId'[h] \in waited'[c]
    <3>1. m \in net
      BY <1>h, <1>t, <2>1, NewPackets DEF NewPacket
    <3>2. CASE EnterHostMenu(h)
      <4>1. hostId'[h] = Len(sessions) + 1
        BY <3>2, <1>t DEF EnterHostMenu, TypeOK
      <4>2. m.packet.id = NoHost \/ m.packet.id \in Opened
        BY <3>1, <1>t DEF SessionInv, SessionIn
      <4>3. Len(sessions) \in Nat
        BY <1>t DEF TypeOK
      <4> QED
        BY <4>1, <4>2, <4>3, <2>1 DEF Opened, NoHost
    <3>3. CASE NameHeard(h)
      BY <3>3, <2>1 DEF NameHeard, Searching
    <3>4. CASE NameKept(h)
      BY <3>4, <3>1, <2>1, <1>w DEF NameKept, HostInv
    <3> QED
      BY <3>2, <3>3, <3>4, <1>h, <1>t, NameChanges
  <2>2. ASSUME role'[h] = "host", gotSave'[h] PROVE hostId'[h] \in waited'[c]
    <3>1. CASE gotSave[h]
      <4>1. CASE EnterHostMenu(h)
        BY <4>1, <2>2, <1>t DEF EnterHostMenu, EnterMenu, TypeOK
      <4>2. CASE NameHeard(h)
        BY <4>2, <2>2 DEF NameHeard, Searching
      <4>3. CASE NameKept(h)
        BY <4>3, <3>1, <2>2, <1>w DEF NameKept, HostInv
      <4> QED
        BY <4>1, <4>2, <4>3, <1>h, <1>t, NameChanges
    <3>2. CASE ~gotSave[h]
      <4>1. /\ UNCHANGED <<role, hostId>>
            /\ \E q \in net : /\ q.dest = h /\ q.packet.cmd = "SRAM"
                             /\ Accepts(h, q.packet)
        BY <3>2, <2>2, <1>h, <1>t, SaveChanges
      <4> QED
        BY <4>1, <2>2, <1>w DEF Accepts, Searching, HostInv
    <3> QED
      BY <3>1, <3>2
  <2> QED
    BY <2>1, <2>2 DEF HostInv
<1> QED
  BY <1>x, <1>c, <1>h

LEMMA NoGameBoyStep ==
    ASSUME ConsoleInv, NEW c \in Consoles, Step(c), NoGameBoyYet(c), c \notin stale'
    PROVE  NoGameBoyYet(c)'
<1>t. TypeOK /\ RoleInv(c)
  BY DEF ConsoleInv, LocalInv
<1> USE <1>t DEF sessionVars, sendVars, saveVars, historyVars, TypeOK, NoGameBoyYet,
                 BeforeStart, RoleInv, AsHost, AsClient
<1>1. CASE EnterHostMenu(c)
  BY <1>1 DEF EnterHostMenu, EnterMenu
<1>2. CASE EnterClientMenu(c)
  BY <1>2 DEF EnterClientMenu, EnterMenu
<1>3. CASE HostGivesUp(c)
  BY <1>3 DEF HostGivesUp
<1>4. CASE ClientGivesUp(c)
  BY <1>4 DEF ClientGivesUp, Stop
<1>5. CASE ClientAccepts(c)
  BY <1>5 DEF ClientAccepts, BeginSend
<1>6. CASE ClientDeclines(c)
  BY <1>6 DEF ClientDeclines
<1>7. CASE Announce(c)
  BY <1>7 DEF Announce
<1>8. CASE HostConnects(c)
  BY <1>8 DEF HostConnects
<1>9. CASE ClientFindsHost(c)
  BY <1>9 DEF ClientFindsHost
<1>10. CASE SendAgain(c)
  BY <1>10 DEF SendAgain, MayRetry, NextTry
<1>11. CASE ClientConnects(c)
  BY <1>11 DEF ClientConnects, EndWait
<1>12. CASE HandshakeFails(c)
  BY <1>12 DEF HandshakeFails, Stop, EndWait
<1>13. CASE StartGb2(c)
  BY <1>13 DEF StartGb2
<1>14. CASE StartGb2Fails(c)
  BY <1>14 DEF StartGb2Fails
<1>15. CASE BeginSendSave(c)
  BY <1>15 DEF BeginSendSave, BeginSend
<1>16. CASE SaveSent(c)
  BY <1>16 DEF SaveSent, EndWait
<1>17. CASE SaveNotSent(c)
  BY <1>17 DEF SaveNotSent, Stop, EndWait
<1>18. CASE BeginReceiveSave(c)
  BY <1>18 DEF BeginReceiveSave
<1>19. CASE EndReceiveSave(c)
  BY <1>19 DEF EndReceiveSave, EndWait
<1>20. CASE WaitForSave(c)
  BY <1>20 DEF WaitForSave
<1>21. CASE ReceiveTimesOut(c)
  BY <1>21 DEF ReceiveTimesOut, EndWait
<1>22. CASE StartLink(c)
  BY <1>22 DEF StartLink
<1>23. CASE DriverFails(c)
  BY <1>23 DEF DriverFails, Fault, Done, EndWait
<1>24. CASE LinkLost(c)
  BY <1>24 DEF LinkLost, Stop
<1>25. CASE Receive(c)
  BY <1>25
  DEF Receive, ReceiveAck, ReceiveHost, ReceiveClient, ReceiveSave, DropSave, StoreSave,
      Fault
<1>26. CASE SendFails(c)
  BY <1>26 DEF SendFails, Done
<1> QED
  BY <1>1, <1>2, <1>3, <1>4, <1>5, <1>6, <1>7, <1>8, <1>9, <1>10, <1>11, <1>12,
     <1>13, <1>14, <1>15, <1>16, <1>17, <1>18, <1>19, <1>20, <1>21, <1>22,
     <1>23, <1>24, <1>25, <1>26
  DEF Step, UserChooses, Proceed

\* Once a newcomer has a Game Boy it keeps it, and its session's name.
LEMMA NewcomerKeepsName ==
    ASSUME ConsoleInv, NEW c \in Consoles, Step(c), NoGameBoyYet(c), c \notin stale',
           save[c] # "none"
    PROVE  save'[c] # "none" /\ NameKept(c)
<1>t. TypeOK
  BY DEF ConsoleInv
<1>1. save'[c] # "none"
  BY SaveChanges DEF NoGameBoyYet, BeforeStart
<1>2. ~EnterHostMenu(c)
  BY <1>t DEF EnterHostMenu, EnterMenu
<1>3. ~NameHeard(c)
  BY DEF NameHeard, Searching, NoGameBoyYet
<1> QED
  BY <1>t, <1>1, <1>2, <1>3, NameChanges

LEMMA NewcomerStep ==
    ASSUME NEW h \in Consoles, NEW c \in Consoles, Pair(h, c), Sound(h, c),
           NewcomerInv(h, c), NEW x \in Consoles, Step(x)
    PROVE  NewcomerInv(h, c)'
<1> SUFFICES ASSUME c \notin stale' PROVE NewcomerInv(h, c)'
  BY DEF NewcomerInv
<1>t. TypeOK /\ ConsoleInv
  BY DEF Sound, ConsoleInv
<1>x. x = h \/ x = c
  BY PairFacts
<1>i. imported[c] \subseteq imported'[c]
  BY <1>t, <1>x, PairFacts, ImportedHeard, OthersUntouched DEF Untouched
<1>o. \A i \in Opened : i \in Opened' /\ sessions'[i] = sessions[i]
  BY <1>t, SessionsKept
<1>h. CASE x = h
  <2>1. Untouched(c) /\ c \notin stale
    BY <1>h, <1>t, PairFacts, OthersUntouched DEF Untouched
  <2>2. ASSUME NEW m \in net', m \notin net
        PROVE  /\ m.dest # h
               /\ m.packet.cmd = "ACK" /\ m.packet.seq = 2 => save[c] # "none"
    <3>1. NewPacket(h, m)
      BY <1>h, <1>t, <2>2, NewPackets
    <3>2. ASSUME m.packet.cmd = "ACK", m.packet.seq = 2 PROVE save[c] # "none"
      <4>1. PICK q \in net : /\ q.dest = h /\ q.packet.cmd \in {"CLIENT", "SRAM"}
                            /\ q.packet.seq = 2
        BY <3>1, <3>2 DEF NewPacket
      <4>2. q.packet.cmd = "SRAM"
        BY <4>1 DEF Sound, SequenceInv
      <4> QED
        BY <4>1, <4>2, <2>1 DEF NewcomerInv
    <3> QED
      BY <3>1, <3>2 DEF NewPacket
  <2> QED
    BY <2>1, <2>2, <1>o DEF Untouched, NewcomerInv, NoGameBoyYet
<1>c. CASE x = c
  <2>1. c \notin stale /\ NoGameBoyYet(c)
    BY <1>c, <1>t, SaveChanges DEF NewcomerInv
  <2>2. NoGameBoyYet(c)'
    BY <2>1, <1>c, <1>t, NoGameBoyStep
  <2>k. save[c] # "none" => save'[c] # "none" /\ NameKept(c)
    BY <2>1, <1>c, <1>t, NewcomerKeepsName
  <2>3. ASSUME gotSave'[c], role'[c] = "client" PROVE hostId'[c] \in imported'[c]
    <3>1. CASE gotSave[c]
      <4>1. role[c] = "client"
        BY <2>3, <1>c, <1>t, SaveChanges
      <4> QED
        BY <4>1, <3>1, <2>1, <2>k, <1>i DEF NameKept, NewcomerInv, NoGameBoyYet
    <3>2. CASE ~gotSave[c]
      <4>1. UNCHANGED <<role, status, hostId>>
        BY <3>2, <2>3, <1>c, <1>t, SaveChanges
      <4>2. PICK q \in net :
                /\ q.dest = c /\ q.packet.cmd = "SRAM" /\ Accepts(c, q.packet)
                /\ save[c] # "none" /\ q.packet.id \in imported'[c]
        BY <3>2, <2>3, <1>c, <1>t, SaveChanges
      <4> QED
        BY <4>1, <4>2, <2>1 DEF Accepts, Searching, NoGameBoyYet
    <3> QED
      BY <3>1, <3>2
  <2>4. ASSUME NEW m \in net', m.dest = h, m.packet.cmd = "SRAM"
        PROVE  /\ save'[c] # "none"
               /\ m.packet.seq \in {1, 2}
               /\ m.packet.seq = 2 =>
                    /\ m.packet.id = hostId'[c] /\ m.packet.id \in Opened'
                    /\ sessions'[m.packet.id] = h /\ m.packet.id \in imported'[c]
    <3>1. CASE m \in net
      BY <3>1, <2>1, <2>4, <2>k, <1>i, <1>o DEF NewcomerInv, NameKept
    <3>2. CASE m \notin net
      BY <3>2, <2>1, <2>4, <1>c, <1>o, SaveSender DEF NewcomerInv
    <3> QED
      BY <3>1, <3>2
  <2>5. ASSUME NEW m \in net', m.dest = c, m.packet.cmd = "ACK", m.packet.seq = 2
        PROVE  save'[c] # "none"
    <3>1. m \in net
      BY <1>c, <1>t, <2>5, NewPackets DEF NewPacket
    <3> QED
      BY <3>1, <2>1, <2>5, <2>k DEF NewcomerInv
  <2> QED
    BY <2>2, <2>3, <2>4, <2>5 DEF NewcomerInv
<1> QED
  BY <1>x, <1>c, <1>h

LEMMA OwnerStep ==
    ASSUME NEW h \in Consoles, NEW c \in Consoles, Pair(h, c), Sound(h, c),
           OwnerInv(h, c), NEW x \in Consoles, Step(x)
    PROVE  OwnerInv(h, c)'
<1>t. TypeOK /\ ConsoleInv /\ SessionInv /\ SessionOf(h) /\ LocalInv(h)
  BY DEF Sound, ConsoleInv, SessionInv
<1>x. x = h \/ x = c
  BY PairFacts
<1>o. \A i \in Opened : i \in Opened' /\ sessions'[i] = sessions[i]
  BY <1>t, SessionsKept
<1> DEFINE Given == \/ hostId[h] \in imported[c]
                    \/ \E m \in net : /\ m.dest = c /\ m.packet.cmd = "SRAM"
                                      /\ m.packet.id = hostId[h]
<1> SUFFICES ASSUME hostId'[h] \in Opened', sessions'[hostId'[h]] = h,
                    \/ hostId'[h] \in imported'[c]
                    \/ \E m \in net' : /\ m.dest = c /\ m.packet.cmd = "SRAM"
                                       /\ m.packet.id = hostId'[h]
             PROVE  /\ save'[h] # "none"
                    /\ role'[h] = "host" => pc'[h] \notin {"hosting", "starting"}
  BY DEF OwnerInv
<1>c. CASE x = c
  <2>1. Untouched(h)
    BY <1>c, <1>t, PairFacts, OthersUntouched
  <2>2. Given
    <3>1. \A m \in net' : m.dest = c => m \in net
      BY <1>c, <1>t, NewPackets DEF NewPacket
    <3> QED
      BY <3>1, <2>1, <1>c, <1>t, ImportedHeard DEF Untouched
  <2>3. hostId[h] \in Opened /\ sessions[hostId[h]] = h
    <3>1. hostId[h] = NoHost \/ hostId[h] \in Opened
      BY <1>t DEF SessionOf
    <3>2. hostId[h] # NoHost
      BY <2>1 DEF Untouched, Opened, NoHost
    <3> QED
      BY <3>1, <3>2, <2>1, <1>o DEF Untouched
  <2> QED
    BY <2>1, <2>2, <2>3 DEF Untouched, OwnerInv
<1>h. CASE x = h
  <2>1. imported'[c] = imported[c]
    BY <1>h, <1>t, PairFacts, OthersUntouched DEF Untouched
  <2>2. ~EnterHostMenu(h)
    <3>1. SUFFICES ASSUME EnterHostMenu(h) PROVE FALSE
      OBVIOUS
    <3>2. hostId'[h] = Len(sessions) + 1 /\ net' = net
      BY <3>1, <1>t DEF EnterHostMenu, EnterMenu, TypeOK
    <3>3. /\ imported[c] \subseteq Opened \cup {NoHost}
          /\ \A m \in net : m.packet.id = NoHost \/ m.packet.id \in Opened
      BY <1>t DEF SessionInv, SessionOf, SessionIn
    <3>4. Len(sessions) \in Nat
      BY <1>t DEF TypeOK
    <3> QED
      BY <3>2, <3>3, <3>4, <2>1 DEF Opened, NoHost
  <2>3. ~NameHeard(h)
    <3>1. SUFFICES ASSUME NameHeard(h) PROVE FALSE
      OBVIOUS
    <3>2. PICK q \in net : q.dest = h /\ q.packet.cmd = "HOST" /\ hostId'[h] = q.packet.id
      BY <3>1 DEF NameHeard
    <3> QED
      BY <3>2, <1>o, <1>t DEF SessionInv, SessionIn
  <2>4. NameKept(h)
    BY <2>2, <2>3, <1>h, <1>t, NameChanges
  <2>5. hostId[h] \in Opened /\ sessions[hostId[h]] = h
    <3>1. hostId[h] = NoHost \/ hostId[h] \in Opened
      BY <1>t DEF SessionOf
    <3>2. hostId[h] # NoHost
      BY <2>4 DEF NameKept, Opened, NoHost
    <3> QED
      BY <3>1, <3>2, <2>4, <1>o DEF NameKept
  <2>6. CASE Given
    <3>1. save[h] # "none" /\ (role[h] = "host" => pc[h] \notin {"hosting", "starting"})
      BY <2>5, <2>6 DEF OwnerInv
    <3>2. pc[h] = "starting" => FALSE
      BY <3>1, <2>5, <1>t DEF LocalInv, RoleInv, AsHost, AsClient, SessionOf
    <3> QED
      BY <3>1, <3>2, <2>2, <1>h, <1>t, SaveChanges
  <2>7. CASE ~Given
    <3>1. PICK m \in net' : /\ m.dest = c /\ m.packet.cmd = "SRAM" /\ m \notin net
                           /\ m.packet.id = hostId'[h]
      BY <2>1, <2>4, <2>7 DEF NameKept
    <3>2. Pair(c, h) /\ Sound(c, h)
      BY DEF Pair, Sound
    <3>3. /\ save[h] # "none" /\ save' = save
          /\ pc'[h] = "sending"
      BY <3>1, <3>2, <1>h, SaveSender
    <3> QED
      BY <3>3
  <2> QED
    BY <2>6, <2>7
<1> QED
  BY <1>x, <1>c, <1>h

\* A client takes its save data to be stored when it did before, or when the
\* acknowledgement of it arrives.
LEMMA AnswerArrives ==
    ASSUME ConsoleInv, SequenceInv, NEW c \in Consoles, PeerSaves(c), c \in HasSave,
           Step(c), role'[c] = "client", HasAnswer(c)',
           ~(role[c] = "client" /\ HasAnswer(c))
    PROVE  /\ pc[c] = "sending" /\ role[c] = "client" /\ UNCHANGED hostId
           /\ \E q \in net : /\ q.dest = c /\ q.packet.cmd = "ACK" /\ q.packet.seq = 2
                            /\ Accepts(c, q.packet)
<1>t. /\ TypeOK /\ RoleInv(c) /\ TodoInv(c) /\ SequenceOf(c)
      /\ todo[c] \in Todos /\ seq[c] \in Nat \ {0}
  BY DEF ConsoleInv, LocalInv, TypeOK, SequenceInv
<1> USE <1>t DEF sessionVars, sendVars, saveVars, historyVars, TypeOK, HasAnswer, RoleInv,
                 InExchange, NoSequence
<1>1. CASE EnterHostMenu(c)
  BY <1>1 DEF EnterHostMenu, EnterMenu
<1>2. CASE EnterClientMenu(c)
  BY <1>2 DEF EnterClientMenu, EnterMenu
<1>3. CASE HostGivesUp(c)
  BY <1>3 DEF HostGivesUp
<1>4. CASE ClientGivesUp(c)
  BY <1>4 DEF ClientGivesUp, Stop
<1>5. CASE ClientAccepts(c)
  BY <1>5 DEF ClientAccepts, BeginSend
<1>6. CASE ClientDeclines(c)
  BY <1>6 DEF ClientDeclines
<1>7. CASE Announce(c)
  BY <1>7 DEF Announce
<1>8. CASE HostConnects(c)
  BY <1>8 DEF HostConnects
<1>9. CASE ClientFindsHost(c)
  BY <1>9 DEF ClientFindsHost
<1>10. CASE SendAgain(c)
  BY <1>10 DEF SendAgain, MayRetry, NextTry
<1>11. CASE ClientConnects(c)
  BY <1>11 DEF ClientConnects, EndWait
<1>12. CASE HandshakeFails(c)
  BY <1>12 DEF HandshakeFails, Stop, EndWait
<1>13. CASE StartGb2(c)
  <2>1. todo'[c] = Exchange(c) /\ role' = role /\ pc'[c] = "exchange"
    BY <1>13 DEF StartGb2
  <2>2. todo'[c] \in ToSend
    BY <2>1, ExchangeTodo DEF ToSend
  <2> QED
    BY <2>1, <2>2
<1>14. CASE StartGb2Fails(c)
  BY <1>14 DEF StartGb2Fails
<1>15. CASE BeginSendSave(c)
  BY <1>15 DEF BeginSendSave, BeginSend
<1>16. CASE SaveSent(c)
  BY <1>16 DEF SaveSent, EndWait, Answered, Awaited, SequenceOf
<1>17. CASE SaveNotSent(c)
  BY <1>17 DEF SaveNotSent, Stop, EndWait
<1>18. CASE BeginReceiveSave(c)
  BY <1>18 DEF BeginReceiveSave
<1>19. CASE EndReceiveSave(c)
  <2>1. NextTodo(c) = "receive" /\ Done(c)
    BY <1>19 DEF EndReceiveSave, TodoInv
  <2> QED
    BY <2>1, <1>19, DoneType DEF EndReceiveSave, EndWait
<1>20. CASE WaitForSave(c)
  BY <1>20 DEF WaitForSave
<1>21. CASE ReceiveTimesOut(c)
  BY <1>21 DEF ReceiveTimesOut, EndWait
<1>22. CASE StartLink(c)
  BY <1>22, TodoEmpty DEF StartLink
<1>23. CASE DriverFails(c)
  BY <1>23 DEF DriverFails, Fault, Done, EndWait
<1>24. CASE LinkLost(c)
  BY <1>24 DEF LinkLost, Stop
<1>25. CASE Receive(c)
  <2>1. PICK q \in net : Handled(c, q)
    BY <1>25, ReceivedPacket
  <2>2. ReceiveAck(c, q.packet) /\ Sending(c)
    BY <2>1 DEF Handled, ReceiveAck, ReceiveHost, ReceiveClient, ReceiveSave
  <2>3. acked'[c] = q.packet.seq /\ q.packet.cmd = "ACK"
    BY <2>2 DEF ReceiveAck
  <2> QED
    BY <2>1, <2>2, <2>3 DEF Handled, ReceiveAck
<1>26. CASE SendFails(c)
  BY <1>26 DEF SendFails, Fault, Done
<1> QED
  BY <1>1, <1>2, <1>3, <1>4, <1>5, <1>6, <1>7, <1>8, <1>9, <1>10, <1>11, <1>12,
     <1>13, <1>14, <1>15, <1>16, <1>17, <1>18, <1>19, <1>20, <1>21, <1>22,
     <1>23, <1>24, <1>25, <1>26
  DEF Step, UserChooses, Proceed

LEMMA AnsweredStep ==
    ASSUME NEW h \in Consoles, NEW c \in Consoles, Pair(h, c), Sound(h, c),
           NewcomerInv(h, c), OwnerInv(h, c), AnsweredInv(h, c),
           NEW x \in Consoles, Step(x)
    PROVE  AnsweredInv(h, c)'
<1> SUFFICES ASSUME c \notin stale', <<h, "receive">> \notin faults'
             PROVE  AnsweredInv(h, c)'
  BY DEF AnsweredInv
<1>t. /\ TypeOK /\ ConsoleInv /\ SequenceInv /\ SessionInv
      /\ SessionOf(c) /\ LocalInv(c)
  BY DEF Sound, ConsoleInv, SessionInv
<1>x. x = h \/ x = c
  BY PairFacts
<1>i. imported[h] \subseteq imported'[h]
  BY <1>t, <1>x, PairFacts, ImportedHeard, OthersUntouched DEF Untouched
<1>o. \A i \in Opened : i \in Opened' /\ sessions'[i] = sessions[i]
  BY <1>t, SessionsKept
<1>m. ASSUME NEW m \in net, m.packet.id \in Opened', sessions'[m.packet.id] = h
      PROVE  m.packet.id \in Opened /\ sessions[m.packet.id] = h
  <2>1. m.packet.id = NoHost \/ m.packet.id \in Opened
    BY <1>t DEF SessionInv, SessionIn
  <2> QED
    BY <2>1, <1>m, <1>o DEF Opened, NoHost
<1>s. c \notin stale /\ <<h, "receive">> \notin faults
  BY <1>t, <1>x, PairFacts, SaveChanges, OthersUntouched DEF Untouched
<1>h. CASE x = h
  <2>1. Untouched(c)
    BY <1>h, <1>t, PairFacts, OthersUntouched
  <2>2. ASSUME NEW m \in net', m.dest = c, m.packet.cmd = "ACK", m.packet.seq = 2,
               m.packet.id = hostId'[c], m.packet.id \in Opened',
               sessions'[m.packet.id] = h
        PROVE  hostId'[c] \in imported'[h]
    <3>1. CASE m \in net
      BY <3>1, <2>1, <2>2, <1>m, <1>i, <1>s DEF Untouched, AnsweredInv
    <3>2. CASE m \notin net
      <4>1. NewPacket(h, m)
        BY <1>h, <1>t, <2>2, <3>2, NewPackets
      <4>2. PICK q \in net :
                /\ q.dest = h /\ Accepts(h, q.packet)
                /\ q.packet.cmd \in {"CLIENT", "SRAM"} /\ q.packet.seq = 2
                /\ q.packet.cmd = "SRAM" /\ save[h] # "none" =>
                    q.packet.id \in imported'[h] \/ <<h, "receive">> \in faults'
        BY <4>1, <2>2 DEF NewPacket
      <4>3. q.packet.cmd = "SRAM"
        BY <4>2, <1>t DEF SequenceInv
      <4>4. /\ q.packet.id = hostId[c] /\ q.packet.id \in Opened
            /\ sessions[q.packet.id] = h /\ q.packet.id \in imported[c]
        BY <4>2, <4>3, <1>s DEF NewcomerInv
      <4>5. hostId[h] = hostId[c] /\ hostId'[c] = hostId[c]
        BY <4>1, <2>1, <2>2 DEF NewPacket, Untouched
      <4>6. save[h] # "none"
        BY <4>4, <4>5 DEF OwnerInv
      <4> QED
        BY <4>2, <4>3, <4>4, <4>5, <4>6
    <3> QED
      BY <3>1, <3>2
  <2>3. HasAnswer(c)' <=> HasAnswer(c)
    BY <2>1 DEF Untouched, HasAnswer
  <2> QED
    BY <2>1, <2>2, <2>3, <1>i, <1>s DEF Untouched, AnsweredInv
<1>c. CASE x = c
  <2>1. ASSUME NEW m \in net', m.dest = c, m.packet.cmd = "ACK", m.packet.seq = 2,
               m.packet.id = hostId'[c], m.packet.id \in Opened',
               sessions'[m.packet.id] = h
        PROVE  hostId'[c] \in imported'[h]
    <3>1. m \in net
      BY <1>c, <1>t, <2>1, NewPackets DEF NewPacket
    <3>2. save[c] # "none" /\ NoGameBoyYet(c)
      BY <3>1, <2>1, <1>s DEF NewcomerInv
    <3>3. NameKept(c)
      BY <3>2, <1>c, <1>t, NewcomerKeepsName
    <3> QED
      BY <3>1, <3>3, <2>1, <1>m, <1>i, <1>s DEF NameKept, AnsweredInv
  <2>2. ASSUME role'[c] = "client", HasAnswer(c)' PROVE hostId'[c] \in imported'[h]
    <3>1. CASE HasAnswer(c) /\ role[c] = "client"
      <4>1. AsClient(c)
        BY <3>1, <1>t DEF HasAnswer, LocalInv, RoleInv, InExchange, AsHost
      <4>2. ~EnterHostMenu(c) /\ ~NameHeard(c)
        BY <4>1 DEF AsClient, EnterHostMenu, EnterMenu, NameHeard, Searching
      <4>3. hostId'[c] = hostId[c]
        BY <4>2, <1>c, <1>t, NameChanges DEF NameKept
      <4> QED
        BY <4>3, <3>1, <1>i, <1>s DEF AnsweredInv
    <3>2. CASE ~(role[c] = "client" /\ HasAnswer(c))
      <4>1. /\ pc[c] = "sending" /\ role[c] = "client" /\ UNCHANGED hostId
            /\ \E q \in net : /\ q.dest = c /\ q.packet.cmd = "ACK" /\ q.packet.seq = 2
                             /\ Accepts(c, q.packet)
        BY <3>2, <2>2, <1>c, <1>t, PairFacts, AnswerArrives
      <4>2. PICK q \in net : /\ q.dest = c /\ q.packet.cmd = "ACK" /\ q.packet.seq = 2
                            /\ Accepts(c, q.packet)
        BY <4>1
      <4>3. AsClient(c)
        BY <4>1, <1>t DEF LocalInv, RoleInv, InExchange, AsHost
      <4>4. q.packet.id = hostId[c]
        BY <4>2, <4>3 DEF Accepts, Searching, AsClient
      <4>5. hostId[c] \in Opened /\ sessions[hostId[c]] = h
        <5>1. hostId[c] \in Opened /\ sessions[hostId[c]] # c
          BY <4>3, <1>t DEF SessionOf, AsClient
        <5>2. sessions[hostId[c]] \in Consoles
          BY <5>1, <1>t DEF Opened, TypeOK
        <5> QED
          BY <5>1, <5>2, PairFacts
      <4> QED
        BY <4>1, <4>2, <4>4, <4>5, <1>i, <1>s DEF AnsweredInv
    <3> QED
      BY <3>1, <3>2
  <2> QED
    BY <2>1, <2>2 DEF AnsweredInv
<1> QED
  BY <1>x, <1>c, <1>h

-----------------------------------------------------------------------------
(* The theorem about two consoles.                                         *)

PairAll(h, c) == Sound(h, c) /\ PairInv(h, c)

IInv ==
    /\ ConsoleInv
    /\ \A h, c \in Consoles : Pair(h, c) => PairAll(h, c)

LEMMA PairInit ==
    ASSUME NEW h \in Consoles, NEW c \in Consoles, Pair(h, c), Init
    PROVE  PairAll(h, c)
<1>1. ConsoleInv
  BY TypeInit
<1>2. /\ net = {} /\ faults = {}
      /\ \A x \in Consoles : /\ pc[x] = "game" /\ role[x] = "none" /\ status[x] = "off"
                            /\ hostId[x] = NoHost /\ ~gotSave[x] /\ imported[x] = {}
  BY DEF Init
<1>3. SessionInv /\ SequenceInv
  BY <1>2 DEF SessionInv, SessionOf, SequenceInv, SequenceOf
<1>4. ClientOrder(h) /\ ClientOrder(c) /\ HostInv(h, c)
  BY <1>2 DEF ClientOrder, InExchange, HostInv
<1>5. NewcomerInv(h, c) /\ AnsweredInv(h, c)
  BY <1>2 DEF NewcomerInv, AnsweredInv, NoGameBoyYet, BeforeStart
<1>6. OwnerInv(h, c)
  BY <1>2 DEF OwnerInv
<1> QED
  BY <1>1, <1>3, <1>4, <1>5, <1>6 DEF PairAll, Sound, PairInv

LEMMA PairStutter ==
    ASSUME NEW h \in Consoles, NEW c \in Consoles, PairAll(h, c), UNCHANGED vars
    PROVE  PairAll(h, c)'
<1> USE DEF vars, sessionVars, sendVars, saveVars, historyVars
<1>1. ConsoleInv'
  BY ConsoleStep DEF PairAll, Sound
<1>2. SessionInv'
  BY SessionStep DEF PairAll, Sound
<1>3. SequenceInv'
  BY SequenceStep DEF PairAll, Sound
<1>4. ClientOrder(h)' /\ ClientOrder(c)' /\ HostInv(h, c)'
  BY DEF PairAll, Sound, PairInv, ClientOrder, HostInv
<1>5. NewcomerInv(h, c)'
  BY DEF PairAll, PairInv, NewcomerInv, NoGameBoyYet, Opened
<1>6. OwnerInv(h, c)'
  BY DEF PairAll, PairInv, OwnerInv, Opened
<1>7. AnsweredInv(h, c)'
  BY DEF PairAll, PairInv, AnsweredInv, HasAnswer, Opened
<1> QED
  BY <1>1, <1>2, <1>3, <1>4, <1>5, <1>6, <1>7 DEF PairAll, Sound, PairInv

LEMMA PairStep ==
    ASSUME NEW h \in Consoles, NEW c \in Consoles, Pair(h, c), PairAll(h, c), [Next]_vars
    PROVE  PairAll(h, c)'
<1>1. ASSUME NEW x \in Consoles, Step(x) PROVE PairAll(h, c)'
  <2>1. /\ Sound(h, c) /\ HostInv(h, c) /\ NewcomerInv(h, c) /\ OwnerInv(h, c)
        /\ AnsweredInv(h, c)
    BY DEF PairAll, PairInv
  <2>2. Sound(h, c)'
    BY <1>1, <2>1, SoundStep
  <2>3. HostInv(h, c)'
    BY <1>1, <2>1, HostStep
  <2>4. NewcomerInv(h, c)'
    BY <1>1, <2>1, NewcomerStep
  <2>5. OwnerInv(h, c)'
    BY <1>1, <2>1, OwnerStep
  <2>6. AnsweredInv(h, c)'
    BY <1>1, <2>1, AnsweredStep
  <2> QED
    BY <2>2, <2>3, <2>4, <2>5, <2>6 DEF PairAll, Sound, PairInv
<1> QED
  BY <1>1, PairStutter DEF Next, Step

LEMMA Heard == ConsoleInv => SendsAreHeard
<1> SUFFICES ASSUME ConsoleInv, NEW c \in Consoles
             PROVE  /\ Sending(c) => attached[c] /\ tries[c] <= Retries
                    /\ pc[c] = "exchange" /\ NextTodo(c) = "send" => attached[c]
  BY DEF SendsAreHeard
<1>1. TodoInv(c) /\ AttachedInv(c) /\ todo[c] \in Todos
  BY DEF ConsoleInv, LocalInv, TypeOK
<1>2. NextTodo(c) = "send" => todo[c] \in ToSend
  BY <1>1, TodoStep DEF NextTodo
<1> QED
  BY <1>1, <1>2 DEF TodoInv, AttachedInv, Sending, BeforeStart, InExchange

\* Of two consoles with save data the host starts last, when the client has the
\* host's save data, and a linked client's save data is stored by the host,
\* whatever the radio loses or delays (nifiStartLink, packetHandler): unless the
\* client could not send it (nifiSendSram), the host had no memory to receive it
\* (handlePacketCommand), or the client came with a second Game Boy.
THEOREM LinkStartsInOrder == Spec => []StartsInOrder
<1>1. Init => IInv
  BY TypeInit, PairInit DEF IInv
<1>2. IInv /\ [Next]_vars => IInv'
  <2> SUFFICES ASSUME IInv, [Next]_vars PROVE IInv'
    OBVIOUS
  <2>1. ConsoleInv'
    BY ConsoleStep DEF IInv
  <2>2. ASSUME NEW h \in Consoles, NEW c \in Consoles, Pair(h, c) PROVE PairAll(h, c)'
    BY <2>2, PairStep DEF IInv
  <2> QED
    BY <2>1, <2>2 DEF IInv, Pair
<1>3. IInv => StartsInOrder
  <2> SUFFICES ASSUME IInv PROVE StartsInOrder
    OBVIOUS
  <2>1. TypeOK /\ SendsAreHeard
    BY Heard DEF IInv, ConsoleInv
  <2>2. ASSUME NEW h \in Consoles, NEW c \in Consoles, Pair(h, c),
               Linked(h), role[h] = "host"
        PROVE  hostId[h] \in waited[c]
    <3>1. gotSave[h]
      BY <2>2, PairFacts DEF IInv, ConsoleInv, LocalInv, SaveInv, Linked
    <3> QED
      BY <2>2, <3>1 DEF IInv, PairAll, PairInv, HostInv
  <2>3. ASSUME NEW h \in Consoles, NEW c \in Consoles, Pair(h, c),
               Linked(c), role[c] = "client", c \notin stale,
               faults \cap {<<c, "send">>, <<h, "receive">>} = {}
        PROVE  hostId[c] \in imported[h]
    BY <2>3 DEF IInv, PairAll, PairInv, AnsweredInv, HasAnswer, Linked
  <2> QED
    BY <2>1, <2>2, <2>3 DEF StartsInOrder, HostStartsLast, ClientStartsStored
<1> QED
  BY <1>1, <1>2, <1>3, PTL DEF Spec
=============================================================================
