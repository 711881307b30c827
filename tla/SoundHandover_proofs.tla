------------------------- MODULE SoundHandover_proofs -------------------------
(***************************************************************************)
(* Proof that the speakers of the DS follow the game, for any channels,    *)
(* values, room in the FIFO and program.                                   *)
(*                                                                         *)
(* A command carries no value: when it is executed the ARM7 reads what the *)
(* channel is to play then.  So what makes a speaker right in the end is   *)
(* that a command which renews what is wrong is always on its way: in the  *)
(* FIFO, still to be handed over, or being taken by the timer (Outs).  A   *)
(* command is lost sight of nowhere between these three places.  Only a    *)
(* mute makes a speaker wrong; while it is in the FIFO and not the last    *)
(* word of the menu, an unmute is behind it (MuteInv).                     *)
(***************************************************************************)
EXTENDS SoundHandover, SequenceTheorems, TLAPS

Level == Values \cup {1}
Loudness == (Level \X Level) \cup {Silent}
SharedType == [on : SUBSET Channels, enabled : SUBSET Channels, mix : Level,
               pitch : [Channels -> Level], vol : [Channels -> Level]]
SpeakerType == [Channels -> [runs : BOOLEAN, pitch : Level, vol : Loudness]]

\* What the game's changes hand over, and what the FIFO may hold.
Orders == ({"update", "start", "volume"} \X SUBSET Channels) \cup {<<"master">>}
Commands == Orders \cup {<<"mute">>, <<"unmute">>} \cup ({"hyper"} \X BOOLEAN)
            \cup {<<"update", {0}>>, <<"update", {1}>>}

DataInv ==
  /\ shared \in SharedType /\ speaker \in SpeakerType
  /\ fifo \in Seq(Commands) /\ todo \in Seq(Orders)
  /\ touched \subseteq Channels
  /\ sgb \in [audio : BOOLEAN, index : 0..1, plays : {{}}]

\* What the ARM9 is handing over is what stands in message.
HandInv ==
  /\ TypeOK /\ arm7 \in {"idle", "taking"}
  /\ arm9 # "run" => todo # << >> /\ message = todo[1]
  /\ arm7 = "taking" => message \in Orders

\* The commands on their way.
HandedOver == arm9 = "wait" /\ cycles = None
Outs == {fifo[i] : i \in 1..Len(fifo)}
        \cup {todo[i] : i \in (IF HandedOver THEN 2 ELSE 1)..Len(todo)}
        \cup (IF arm7 = "taking" THEN {message} ELSE {})

Starts(m, c) == m[1] = "start" /\ c \in m[2]
Renews(m, c) == m[1] \in {"update", "start"} /\ c \in m[2]
Sets(m, c) == m[1] = "master" \/ (m[1] \in {"update", "start", "volume"} /\ c \in m[2])

Unmuting == \E i \in 1..Len(fifo) : fifo[i][1] = "unmute"
MuteInv == ~muted => \A i \in 1..Len(fifo) :
             fifo[i][1] = "mute" => \E j \in (i + 1)..Len(fifo) : fifo[j][1] = "unmute"

RunsInv(c) == Audible(c) => speaker[c].runs = TRUE \/ \E m \in Outs : Starts(m, c)
PitchInv(c) == Audible(c) => speaker[c].pitch = shared.pitch[c] \/ \E m \in Outs : Renews(m, c)
VolumeInv(c) == \/ speaker[c].vol = Mixed(c)
                \/ \E m \in Outs : Sets(m, c)
                \/ speaker[c].vol = Silent /\ (muted \/ Unmuting)
ChannelInv == ~lost => \A c \in Channels \ touched : RunsInv(c) /\ PitchInv(c) /\ VolumeInv(c)

IInv == DataInv /\ HandInv /\ MuteInv /\ ChannelInv

(* ------------------------- what a command does -------------------------- *)
LEMMA OrderKinds ==
  /\ \A m \in Orders : m[1] \in {"update", "start", "volume", "master"}
  /\ \A m \in Commands : m[1] \in {"update", "start", "volume", "master", "mute", "unmute", "hyper"}
  /\ Orders \subseteq Commands
BY DEF Orders, Commands

Channel == [runs : BOOLEAN, pitch : Level, vol : Loudness]

LEMMA MixedType == ASSUME shared \in SharedType, NEW c \in Channels
                   PROVE  Mixed(c) \in Loudness /\ shared.pitch[c] \in Level
                          /\ (~Audible(c) => Mixed(c) = Silent)
BY DEF SharedType, Mixed, Loudness

LEMMA VolumeFacts ==
  ASSUME DataInv, NEW c \in Channels
  PROVE  LET q == WithVolume(speaker, c)[c] IN
         /\ q \in Channel /\ q.vol = Mixed(c)
         /\ q.pitch = speaker[c].pitch /\ q.runs = speaker[c].runs
<1>1. speaker[c] \in Channel /\ WithVolume(speaker, c)[c] = [speaker[c] EXCEPT !.vol = Mixed(c)]
  BY DEF DataInv, SpeakerType, Channel, WithVolume
<1>2. Mixed(c) \in Loudness
  BY MixedType DEF DataInv
<1> QED BY <1>1, <1>2 DEF Channel

LEMMA UpdateFacts ==
  ASSUME DataInv, NEW c \in Channels
  PROVE  LET q == UpdateChannel(speaker, c)[c] IN
         /\ q \in Channel /\ q.vol = Mixed(c)
         /\ (Audible(c) => q.pitch = shared.pitch[c])
         /\ q.runs = speaker[c].runs
<1>1. speaker \in SpeakerType /\ speaker[c] \in Channel
  BY DEF DataInv, SpeakerType, Channel
<1>2. /\ Mixed(c) \in Loudness /\ shared.pitch[c] \in Level /\ Silent \in Loudness
      /\ (~Audible(c) => Mixed(c) = Silent)
  BY MixedType DEF DataInv, Loudness
<1>3. CASE Audible(c)
  <2> DEFINE w == WithVolume(speaker, c)
  <2>1. w[c] \in Channel /\ w[c].vol = Mixed(c) /\ w[c].runs = speaker[c].runs
    BY VolumeFacts
  <2>2. UpdateChannel(speaker, c)[c] = [w[c] EXCEPT !.pitch = shared.pitch[c]]
    BY <1>1, <1>3 DEF UpdateChannel, SpeakerType, WithVolume
  <2> HIDE DEF w
  <2> QED BY <1>2, <2>1, <2>2 DEF Channel
<1>4. CASE ~Audible(c)
  <2>1. UpdateChannel(speaker, c)[c] = [speaker[c] EXCEPT !.vol = Silent]
    BY <1>1, <1>4 DEF UpdateChannel, SpeakerType
  <2> QED BY <1>1, <1>2, <1>4, <2>1 DEF Channel
<1> QED BY <1>3, <1>4

LEMMA StartFacts ==
  ASSUME DataInv, NEW c \in Channels
  PROVE  LET q == StartChannel(speaker, c)[c] IN
         /\ q \in Channel /\ q.vol = Mixed(c)
         /\ (Audible(c) => q.pitch = shared.pitch[c] /\ q.runs = TRUE)
<1>1. speaker \in SpeakerType /\ speaker[c] \in Channel
  BY DEF DataInv, SpeakerType, Channel
<1>2. /\ Silent \in Loudness /\ (~Audible(c) => Mixed(c) = Silent)
  BY MixedType DEF DataInv, Loudness
<1>3. CASE c \in shared.enabled
  <2> DEFINE u == UpdateChannel(speaker, c)
  <2>1. u[c] \in Channel /\ u[c].vol = Mixed(c) /\ (Audible(c) => u[c].pitch = shared.pitch[c])
    BY UpdateFacts
  <2>2. u = [k \in Channels |-> u[k]]
    BY <1>1 DEF UpdateChannel, WithVolume, SpeakerType
  <2>3. StartChannel(speaker, c)[c] = [u[c] EXCEPT !.runs = TRUE]
    BY <1>3, <2>2 DEF StartChannel
  <2> HIDE DEF u
  <2> QED BY <2>1, <2>3 DEF Channel
<1>4. CASE c \notin shared.enabled
  <2>1. StartChannel(speaker, c)[c] = [speaker[c] EXCEPT !.runs = FALSE, !.vol = Silent]
    BY <1>1, <1>4 DEF StartChannel, SpeakerType
  <2>2. ~Audible(c)
    BY <1>4 DEF Audible
  <2> QED BY <1>1, <1>2, <2>1, <2>2 DEF Channel
<1> QED BY <1>3, <1>4

\* What is heard of channel c, before and after, when the ARM7 executes m.
Effect(m, c) ==
  /\ speaker'[c] \in Channel
  /\ Audible(c) /\ (speaker[c].runs = TRUE \/ Starts(m, c)) => speaker'[c].runs = TRUE
  /\ Audible(c) /\ (speaker[c].pitch = shared.pitch[c] \/ Renews(m, c)) =>
       speaker'[c].pitch = shared.pitch[c]
  /\ m[1] # "mute" /\ (speaker[c].vol = Mixed(c) \/ Sets(m, c)) => speaker'[c].vol = Mixed(c)
  /\ speaker[c].vol = Silent => speaker'[c].vol \in {Silent, Mixed(c)}
  /\ speaker[c].vol = Silent /\ m[1] = "unmute" => speaker'[c].vol = Mixed(c)
  /\ m[1] = "mute" => speaker'[c].vol = Silent

LEMMA CommandFacts ==
  ASSUME DataInv, NEW m \in Commands, DoCommand(m)
  PROVE  speaker' \in SpeakerType /\ sgb' = sgb /\ \A c \in Channels : Effect(m, c)
<1>1. speaker \in SpeakerType /\ \A c \in Channels : speaker[c] \in Channel
  BY DEF DataInv, SpeakerType, Channel
<1>2. m[1] \in {"update", "start", "volume", "master", "mute", "unmute", "hyper"}
  BY OrderKinds
<1>3. sgb' = sgb
  BY <1>2 DEF DoCommand
<1>4. CASE m[1] = "update"
  <2>1. speaker' = ForAll(UpdateChannel, m[2])
    BY <1>4 DEF DoCommand
  <2>2. speaker' = [c \in Channels |-> IF c \in m[2] THEN UpdateChannel(speaker, c)[c] ELSE speaker[c]]
    BY <2>1 DEF ForAll
  <2>3. ASSUME NEW c \in Channels PROVE Effect(m, c)
    <3>1. CASE c \in m[2]
      BY <1>4, <2>2, <3>1, UpdateFacts DEF Effect, Starts
    <3>2. CASE c \notin m[2]
      BY <1>1, <1>4, <2>2, <3>2 DEF Effect, Starts, Renews, Sets
    <3> QED BY <3>1, <3>2
  <2>4. speaker' \in SpeakerType
    BY <2>2, <2>3 DEF SpeakerType, Effect, Channel
  <2> QED BY <1>3, <2>3, <2>4
<1>5. CASE m[1] = "start"
  <2>1. speaker' = ForAll(StartChannel, m[2])
    BY <1>5 DEF DoCommand
  <2>2. speaker' = [c \in Channels |-> IF c \in m[2] THEN StartChannel(speaker, c)[c] ELSE speaker[c]]
    BY <2>1 DEF ForAll
  <2>3. ASSUME NEW c \in Channels PROVE Effect(m, c)
    <3>1. CASE c \in m[2]
      BY <1>5, <2>2, <3>1, StartFacts DEF Effect
    <3>2. CASE c \notin m[2]
      BY <1>1, <1>5, <2>2, <3>2 DEF Effect, Starts, Renews, Sets
    <3> QED BY <3>1, <3>2
  <2>4. speaker' \in SpeakerType
    BY <2>2, <2>3 DEF SpeakerType, Effect, Channel
  <2> QED BY <1>3, <2>3, <2>4
<1>6. CASE m[1] = "volume"
  <2>1. speaker' = ForAll(WithVolume, m[2])
    BY <1>6 DEF DoCommand
  <2>2. speaker' = [c \in Channels |-> IF c \in m[2] THEN WithVolume(speaker, c)[c] ELSE speaker[c]]
    BY <2>1 DEF ForAll
  <2>3. ASSUME NEW c \in Channels PROVE Effect(m, c)
    <3>1. CASE c \in m[2]
      BY <1>6, <2>2, <3>1, VolumeFacts DEF Effect, Starts, Renews
    <3>2. CASE c \notin m[2]
      BY <1>1, <1>6, <2>2, <3>2 DEF Effect, Starts, Renews, Sets
    <3> QED BY <3>1, <3>2
  <2>4. speaker' \in SpeakerType
    BY <2>2, <2>3 DEF SpeakerType, Effect, Channel
  <2> QED BY <1>3, <2>3, <2>4
<1>7. CASE m[1] = "master"
  <2>1. speaker' = ForAll(WithVolume, Channels)
    BY <1>7 DEF DoCommand
  <2>2. speaker' = [c \in Channels |-> WithVolume(speaker, c)[c]]
    BY <2>1 DEF ForAll
  <2>3. \A c \in Channels : Effect(m, c)
    BY <1>7, <2>2, VolumeFacts DEF Effect, Starts, Renews
  <2>4. speaker' \in SpeakerType
    BY <2>2, <2>3 DEF SpeakerType, Effect, Channel
  <2> QED BY <1>3, <2>3, <2>4
<1>8. CASE m[1] = "mute"
  <2>1. speaker' = [c \in Channels |-> [speaker[c] EXCEPT !.vol = Silent]]
    BY <1>8 DEF DoCommand
  <2>2. \A c \in Channels : Effect(m, c)
    BY <1>1, <1>8, <2>1 DEF Effect, Starts, Renews, Sets, Channel, Loudness
  <2>3. speaker' \in SpeakerType
    BY <2>1, <2>2 DEF SpeakerType, Effect, Channel
  <2> QED BY <1>3, <2>2, <2>3
<1>9. CASE m[1] = "unmute"
  <2>1. speaker' = ForAll(WithVolume, shared.on \cap shared.enabled)
    BY <1>9 DEF DoCommand
  <2>2. speaker' = [c \in Channels |-> IF Audible(c) THEN WithVolume(speaker, c)[c] ELSE speaker[c]]
    BY <2>1 DEF ForAll, Audible
  <2>3. ASSUME NEW c \in Channels PROVE Effect(m, c)
    <3>1. CASE Audible(c)
      BY <1>9, <2>2, <3>1, VolumeFacts DEF Effect, Starts, Renews
    <3>2. CASE ~Audible(c)
      <4>1. Mixed(c) = Silent
        BY <3>2, MixedType DEF DataInv
      <4> QED BY <1>1, <1>9, <2>2, <3>2, <4>1 DEF Effect, Starts, Renews, Sets
    <3> QED BY <3>1, <3>2
  <2>4. speaker' \in SpeakerType
    BY <2>2, <2>3 DEF SpeakerType, Effect, Channel
  <2> QED BY <1>3, <2>3, <2>4
<1>10. CASE m[1] = "hyper"
  <2>1. speaker' = speaker
    BY <1>10 DEF DoCommand
  <2>2. \A c \in Channels : Effect(m, c)
    BY <1>1, <1>10, <2>1 DEF Effect, Starts, Renews, Sets
  <2> QED BY <1>1, <1>3, <2>1, <2>2
<1> QED BY <1>2, <1>4, <1>5, <1>6, <1>7, <1>8, <1>9, <1>10

(* ------------------------------ the channels ---------------------------- *)
\* A step that drops no command and leaves data and speakers alone.
LEMMA KeepsChannels ==
  ASSUME ChannelInv, UNCHANGED <<shared, speaker>>,
         ~lost' => ~lost /\ Outs \subseteq Outs' /\ touched \subseteq touched'
                   /\ (muted \/ Unmuting => muted' \/ Unmuting')
  PROVE  ChannelInv'
<1> SUFFICES ASSUME ~lost', NEW c \in Channels \ touched'
             PROVE  (RunsInv(c) /\ PitchInv(c) /\ VolumeInv(c))'
  BY DEF ChannelInv
<1>1. RunsInv(c) /\ PitchInv(c) /\ VolumeInv(c)
  BY DEF ChannelInv
<1>2. RunsInv(c)'
  BY <1>1 DEF RunsInv, Audible
<1>3. PitchInv(c)'
  BY <1>1 DEF PitchInv, Audible
<1>4. VolumeInv(c)'
  <2>1. Mixed(c)' = Mixed(c)
    BY DEF Mixed, Audible
  <2> QED BY <1>1, <2>1 DEF VolumeInv
<1> QED BY <1>2, <1>3, <1>4

\* A step in which the ARM7 executes m and drops no other command.
LEMMA ExecutesChannels ==
  ASSUME DataInv, ChannelInv, NEW m \in Commands, DoCommand(m),
         UNCHANGED <<shared, touched, lost, muted>>, Outs \subseteq Outs' \cup {m},
         m[1] = "mute" => muted \/ Unmuting',
         m[1] # "unmute" /\ Unmuting => Unmuting'
  PROVE  ChannelInv'
<1> SUFFICES ASSUME ~lost', NEW c \in Channels \ touched'
             PROVE  (RunsInv(c) /\ PitchInv(c) /\ VolumeInv(c))'
  BY DEF ChannelInv
<1>1. RunsInv(c) /\ PitchInv(c) /\ VolumeInv(c)
  BY DEF ChannelInv
<1>2. Effect(m, c)
  BY CommandFacts
<1>3. Mixed(c)' = Mixed(c) /\ (Audible(c)' <=> Audible(c))
  BY DEF Mixed, Audible
<1>4. RunsInv(c)'
  BY <1>1, <1>2, <1>3 DEF RunsInv, Effect
<1>5. PitchInv(c)'
  BY <1>1, <1>2, <1>3 DEF PitchInv, Effect
<1>6. VolumeInv(c)'
  <2>1. CASE m[1] = "mute"
    BY <1>2, <2>1 DEF VolumeInv, Effect
  <2>2. CASE m[1] # "mute" /\ speaker[c].vol = Mixed(c)
    BY <1>2, <1>3, <2>2 DEF VolumeInv, Effect
  <2>3. CASE m[1] # "mute" /\ \E k \in Outs : Sets(k, c)
    BY <1>2, <1>3, <2>3 DEF VolumeInv, Effect
  <2>4. CASE m[1] # "mute" /\ speaker[c].vol = Silent /\ (muted \/ Unmuting)
    BY <1>2, <1>3, <2>4 DEF VolumeInv, Effect
  <2> QED BY <1>1, <2>1, <2>2, <2>3, <2>4 DEF VolumeInv
<1> QED BY <1>4, <1>5, <1>6

(* ------------------------------ the commands ---------------------------- *)
\* Another command in the FIFO changes the place of none.
LEMMA Appended ==
  ASSUME fifo \in Seq(Commands), NEW m \in Commands, fifo' = Append(fifo, m)
  PROVE  /\ fifo' \in Seq(Commands)
         /\ {fifo'[i] : i \in 1..Len(fifo')} = {fifo[i] : i \in 1..Len(fifo)} \cup {m}
         /\ Unmuting => Unmuting'
         /\ m[1] = "unmute" => Unmuting' /\ MuteInv'
         /\ MuteInv /\ muted' = muted /\ m[1] # "mute" => MuteInv'
<1>1. /\ fifo' \in Seq(Commands) /\ Len(fifo') = Len(fifo) + 1 /\ Len(fifo) \in Nat
      /\ \A i \in 1..Len(fifo) : fifo'[i] = fifo[i]
      /\ fifo'[Len(fifo) + 1] = m
  BY AppendProperties, LenProperties
<1>2. {fifo'[i] : i \in 1..Len(fifo')} = {fifo[i] : i \in 1..Len(fifo)} \cup {m}
  <2>1. ASSUME NEW i \in 1..Len(fifo') PROVE fifo'[i] \in {fifo[j] : j \in 1..Len(fifo)} \cup {m}
    BY <1>1
  <2>2. ASSUME NEW i \in 1..Len(fifo) PROVE fifo[i] \in {fifo'[j] : j \in 1..Len(fifo')}
    BY <1>1
  <2>3. m \in {fifo'[j] : j \in 1..Len(fifo')}
    BY <1>1
  <2> QED BY <2>1, <2>2, <2>3
<1>3. Unmuting => Unmuting'
  BY <1>1 DEF Unmuting
<1>4. m[1] = "unmute" => Unmuting' /\ MuteInv'
  <2> SUFFICES ASSUME m[1] = "unmute" PROVE Unmuting' /\ MuteInv'
    OBVIOUS
  <2>1. Len(fifo') \in 1..Len(fifo') /\ fifo'[Len(fifo')][1] = "unmute" /\ m[1] # "mute"
    BY <1>1
  <2>2. ASSUME NEW i \in 1..Len(fifo'), fifo'[i][1] = "mute"
        PROVE  \E j \in (i + 1)..Len(fifo') : fifo'[j][1] = "unmute"
    BY <1>1, <2>1, <2>2
  <2> QED BY <2>1, <2>2 DEF Unmuting, MuteInv
<1>5. MuteInv /\ muted' = muted /\ m[1] # "mute" => MuteInv'
  BY <1>1 DEF MuteInv
<1> QED BY <1>1, <1>2, <1>3, <1>4, <1>5

\* Taking the first command leaves the others as they follow each other.
LEMMA Received ==
  ASSUME fifo \in Seq(Commands), fifo # << >>, fifo' = Tail(fifo)
  PROVE  /\ fifo' \in Seq(Commands) /\ Head(fifo) \in Commands
         /\ {fifo[i] : i \in 1..Len(fifo)} = {fifo'[i] : i \in 1..Len(fifo')} \cup {Head(fifo)}
         /\ Unmuting /\ Head(fifo)[1] # "unmute" => Unmuting'
         /\ MuteInv /\ muted' = muted => MuteInv'
         /\ MuteInv /\ Head(fifo)[1] = "mute" => muted \/ Unmuting'
<1>1. /\ fifo' \in Seq(Commands) /\ Head(fifo) \in Commands /\ Head(fifo) = fifo[1]
      /\ Len(fifo') = Len(fifo) - 1 /\ Len(fifo) \in Nat \ {0}
      /\ \A i \in 1..Len(fifo') : fifo'[i] = fifo[i + 1]
  BY HeadTailProperties, LenProperties, EmptySeq
<1>2. \A i \in 2..Len(fifo) : i - 1 \in 1..Len(fifo') /\ fifo'[i - 1] = fifo[i]
  BY <1>1
<1>3. {fifo[i] : i \in 1..Len(fifo)} = {fifo'[i] : i \in 1..Len(fifo')} \cup {Head(fifo)}
  <2>1. ASSUME NEW i \in 1..Len(fifo)
        PROVE  fifo[i] \in {fifo'[j] : j \in 1..Len(fifo')} \cup {Head(fifo)}
    BY <1>1, <1>2
  <2>2. ASSUME NEW i \in 1..Len(fifo') PROVE fifo'[i] \in {fifo[j] : j \in 1..Len(fifo)}
    BY <1>1
  <2>3. Head(fifo) \in {fifo[j] : j \in 1..Len(fifo)}
    BY <1>1
  <2> QED BY <2>1, <2>2, <2>3
<1>4. Unmuting /\ Head(fifo)[1] # "unmute" => Unmuting'
  <2> SUFFICES ASSUME Head(fifo)[1] # "unmute", NEW i \in 1..Len(fifo), fifo[i][1] = "unmute"
               PROVE  Unmuting'
    BY DEF Unmuting
  <2>1. i \in 2..Len(fifo)
    BY <1>1
  <2> QED BY <1>2, <2>1 DEF Unmuting
<1>5. MuteInv /\ muted' = muted => MuteInv'
  <2> SUFFICES ASSUME MuteInv, muted' = muted, ~muted, NEW i \in 1..Len(fifo'), fifo'[i][1] = "mute"
               PROVE  \E j \in (i + 1)..Len(fifo') : fifo'[j][1] = "unmute"
    BY DEF MuteInv
  <2>1. PICK j \in (i + 2)..Len(fifo) : fifo[j][1] = "unmute"
    BY <1>1 DEF MuteInv
  <2>2. j - 1 \in (i + 1)..Len(fifo') /\ fifo'[j - 1][1] = "unmute"
    BY <1>1, <1>2, <2>1
  <2> QED BY <2>2
<1>6. MuteInv /\ Head(fifo)[1] = "mute" => muted \/ Unmuting'
  <2> SUFFICES ASSUME MuteInv, fifo[1][1] = "mute", ~muted PROVE Unmuting'
    BY <1>1
  <2>1. PICK j \in 2..Len(fifo) : fifo[j][1] = "unmute"
    BY <1>1 DEF MuteInv
  <2> QED BY <1>2, <2>1 DEF Unmuting
<1> QED BY <1>1, <1>3, <1>4, <1>5, <1>6

\* Handing the first command over leaves the others to be handed over.
LEMMA TodoTail ==
  ASSUME todo \in Seq(Orders), todo # << >>
  PROVE  /\ Tail(todo) \in Seq(Orders) /\ Head(todo) = todo[1] /\ todo[1] \in Orders
         /\ {todo[i] : i \in 2..Len(todo)} = {Tail(todo)[i] : i \in 1..Len(Tail(todo))}
         /\ {todo[i] : i \in 1..Len(todo)} = {todo[i] : i \in 2..Len(todo)} \cup {todo[1]}
<1> DEFINE t == Tail(todo)
<1>1. /\ t \in Seq(Orders) /\ Head(todo) = todo[1] /\ Head(todo) \in Orders
      /\ Len(t) = Len(todo) - 1 /\ Len(todo) \in Nat \ {0}
      /\ \A i \in 1..Len(t) : t[i] = todo[i + 1]
  BY HeadTailProperties, LenProperties, EmptySeq
<1> HIDE DEF t
<1>2. \A i \in 2..Len(todo) : i - 1 \in 1..Len(t) /\ t[i - 1] = todo[i]
  BY <1>1
<1>3. {todo[i] : i \in 2..Len(todo)} = {t[i] : i \in 1..Len(t)}
  <2>1. ASSUME NEW i \in 2..Len(todo) PROVE todo[i] \in {t[j] : j \in 1..Len(t)}
    BY <1>2
  <2>2. ASSUME NEW i \in 1..Len(t) PROVE t[i] \in {todo[j] : j \in 2..Len(todo)}
    BY <1>1
  <2> QED BY <2>1, <2>2
<1>4. {todo[i] : i \in 1..Len(todo)} = {todo[i] : i \in 2..Len(todo)} \cup {todo[1]}
  <2>1. ASSUME NEW i \in 1..Len(todo)
        PROVE  todo[i] \in {todo[j] : j \in 2..Len(todo)} \cup {todo[1]}
    BY <1>1
  <2>2. todo[1] \in {todo[i] : i \in 1..Len(todo)}
    BY <1>1
  <2>3. {todo[i] : i \in 2..Len(todo)} \subseteq {todo[i] : i \in 1..Len(todo)}
    BY <1>1
  <2> QED BY <2>1, <2>2, <2>3
<1> QED BY <1>1, <1>3, <1>4 DEF t

\* Between two commands of the game nothing is left to be handed over.
LEMMA NothingToDo ==
  ASSUME todo = << >>
  PROVE  {todo[i] : i \in (IF HandedOver THEN 2 ELSE 1)..Len(todo)} = {}
<1>1. Len(todo) = 0
  BY EmptySeq
<1> QED BY <1>1

(* ------------------------------- the steps ------------------------------ *)
LEMMA ReceiveStep == ASSUME IInv, Receive PROVE IInv'
<1>1. /\ fifo \in Seq(Commands) /\ fifo # << >> /\ fifo' = Tail(fifo) /\ DoCommand(Head(fifo))
      /\ UNCHANGED <<shared, message, cycles, dsCycles, arm7, arm9, todo, muted, touched, lost>>
  BY DEF Receive, IInv, DataInv
<1>2. /\ fifo' \in Seq(Commands) /\ Head(fifo) \in Commands
      /\ {fifo[i] : i \in 1..Len(fifo)} = {fifo'[i] : i \in 1..Len(fifo')} \cup {Head(fifo)}
      /\ Unmuting /\ Head(fifo)[1] # "unmute" => Unmuting'
      /\ MuteInv /\ muted' = muted => MuteInv'
      /\ MuteInv /\ Head(fifo)[1] = "mute" => muted \/ Unmuting'
  BY <1>1, Received
<1>3. speaker' \in SpeakerType /\ sgb' = sgb
  BY <1>1, <1>2, CommandFacts DEF IInv
<1>4. DataInv'
  BY <1>1, <1>2, <1>3 DEF IInv, DataInv
<1>5. HandInv'
  BY <1>1 DEF IInv, HandInv, TypeOK
<1>6. MuteInv'
  BY <1>1, <1>2 DEF IInv
<1>7. Outs \subseteq Outs' \cup {Head(fifo)}
  BY <1>1, <1>2 DEF Outs, HandedOver
<1>8. ChannelInv'
  BY <1>1, <1>2, <1>7, ExecutesChannels DEF IInv
<1> QED BY <1>4, <1>5, <1>6, <1>8 DEF IInv

LEMMA TakeStep == ASSUME IInv, Take PROVE IInv'
<1>1. /\ arm7 = "taking" /\ arm7' = "idle" /\ DoCommand(message)
      /\ UNCHANGED <<shared, fifo, message, cycles, dsCycles, arm9, todo, muted, touched, lost>>
  BY DEF Take
<1>2. message \in Orders /\ message \in Commands /\ message[1] # "mute" /\ message[1] # "unmute"
  BY <1>1, OrderKinds DEF IInv, HandInv
<1>3. speaker' \in SpeakerType /\ sgb' = sgb
  BY <1>1, <1>2, CommandFacts DEF IInv
<1>4. DataInv'
  BY <1>1, <1>3 DEF IInv, DataInv
<1>5. HandInv'
  BY <1>1 DEF IInv, HandInv, TypeOK
<1>6. MuteInv' /\ (Unmuting => Unmuting')
  BY <1>1 DEF IInv, MuteInv, Unmuting
<1>7. Outs \subseteq Outs' \cup {message}
  BY <1>1 DEF Outs, HandedOver
<1>8. ChannelInv'
  BY <1>1, <1>2, <1>6, <1>7, ExecutesChannels DEF IInv
<1> QED BY <1>4, <1>5, <1>6, <1>8 DEF IInv

LEMMA TimerStep == ASSUME IInv, TimerCallback PROVE IInv'
<1>1. /\ arm7 = "idle"
      /\ UNCHANGED <<shared, speaker, sgb, fifo, message, arm9, todo, muted, touched, lost>>
      /\ dsCycles' = IF dsCycles < Ticks THEN dsCycles + 1 ELSE Ticks
      /\ \/ cycles # None /\ cycles' = None /\ arm7' = "taking"
         \/ UNCHANGED <<cycles, arm7>>
  BY DEF TimerCallback, AtCycle
<1>2. DataInv' /\ MuteInv' /\ (Unmuting => Unmuting')
  BY <1>1 DEF IInv, DataInv, MuteInv, Unmuting
<1>3. dsCycles' \in 0..Ticks
  BY <1>1, TicksAssumption DEF IInv, HandInv, TypeOK
<1>4. cycles # None => arm9 = "wait" /\ todo # << >> /\ message = todo[1] /\ todo[1] \in Orders
  BY TodoTail DEF IInv, HandInv, TypeOK, DataInv
<1>5. HandInv'
  BY <1>1, <1>3, <1>4 DEF IInv, HandInv, TypeOK
<1>6. Outs \subseteq Outs'
  <2>1. CASE UNCHANGED <<cycles, arm7>>
    BY <1>1, <2>1 DEF Outs, HandedOver
  <2>2. CASE cycles # None /\ cycles' = None /\ arm7' = "taking"
    <3>1. Outs = {fifo[i] : i \in 1..Len(fifo)} \cup {todo[i] : i \in 1..Len(todo)}
      BY <1>1, <2>2 DEF Outs, HandedOver
    <3>2. Outs' = {fifo[i] : i \in 1..Len(fifo)} \cup {todo[i] : i \in 2..Len(todo)} \cup {message}
      BY <1>1, <1>4, <2>2 DEF Outs, HandedOver
    <3>3. {todo[i] : i \in 1..Len(todo)} = {todo[i] : i \in 2..Len(todo)} \cup {todo[1]}
      BY <1>4, <2>2, TodoTail DEF IInv, DataInv
    <3> QED BY <1>4, <2>2, <3>1, <3>2, <3>3
  <2> QED BY <1>1, <2>1, <2>2
<1>7. ChannelInv'
  BY <1>1, <1>2, <1>6, KeepsChannels DEF IInv
<1> QED BY <1>2, <1>5, <1>7 DEF IInv

\* The steps of the clocks and the screen touch nothing of a command.
LEMMA ClockStep == ASSUME IInv, VblankHandler \/ HostVblank \/ DrawScreen PROVE IInv'
<1>1. /\ UNCHANGED <<shared, speaker, sgb, fifo, message, cycles, arm7, arm9, todo, muted, touched, lost>>
      /\ dsCycles' \in {0, dsCycles}
  BY DEF VblankHandler, HostVblank, DrawScreen
<1>2. DataInv' /\ MuteInv' /\ (Unmuting => Unmuting')
  BY <1>1 DEF IInv, DataInv, MuteInv, Unmuting
<1>3. HandInv'
  BY <1>1, TicksAssumption DEF IInv, HandInv, TypeOK
<1>4. Outs \subseteq Outs'
  BY <1>1 DEF Outs, HandedOver
<1>5. ChannelInv'
  BY <1>1, <1>2, <1>4, KeepsChannels DEF IInv
<1> QED BY <1>2, <1>3, <1>5 DEF IInv

LEMMA SynchronizeStep == ASSUME IInv, Synchronize PROVE IInv'
<1>1. /\ arm9 = "run" /\ todo # << >> /\ message' = Head(todo) /\ arm9' = "sync"
      /\ lost' = (lost \/ (arm7 = "taking" /\ message' # message))
      /\ UNCHANGED <<shared, speaker, sgb, fifo, cycles, dsCycles, arm7, todo, muted, touched>>
  BY DEF Synchronize
<1>2. DataInv' /\ MuteInv' /\ (Unmuting => Unmuting')
  BY <1>1 DEF IInv, DataInv, MuteInv, Unmuting
<1>3. Head(todo) = todo[1] /\ todo[1] \in Orders
  BY <1>1, TodoTail DEF IInv, DataInv
<1>4. HandInv'
  BY <1>1, <1>3 DEF IInv, HandInv, TypeOK
<1>5. ~lost' => ~lost /\ (arm7 = "taking" => message' = message)
  BY <1>1
<1>6. ~lost' => Outs \subseteq Outs'
  BY <1>1, <1>5 DEF Outs, HandedOver
<1>7. ChannelInv'
  BY <1>1, <1>2, <1>5, <1>6, KeepsChannels DEF IInv
<1> QED BY <1>2, <1>4, <1>7 DEF IInv

\* The command goes to the FIFO, from where the ARM9 stood.
LEMMA SendStep ==
  ASSUME IInv, arm9 # "run", ~HandedOver, FifoSend(message), todo' = Tail(todo), arm9' = "run",
         cycles' = None,
         UNCHANGED <<shared, speaker, sgb, message, dsCycles, arm7, muted, touched>>
  PROVE  IInv'
<1>1. /\ todo # << >> /\ message = todo[1] /\ todo \in Seq(Orders) /\ fifo \in Seq(Commands)
  BY DEF IInv, HandInv, DataInv
<1>2. /\ todo' \in Seq(Orders) /\ todo[1] \in Orders
      /\ {todo[i] : i \in 2..Len(todo)} = {todo'[i] : i \in 1..Len(todo')}
      /\ {todo[i] : i \in 1..Len(todo)} = {todo[i] : i \in 2..Len(todo)} \cup {todo[1]}
  BY <1>1, TodoTail
<1>3. message \in Commands /\ message[1] # "mute"
  BY <1>1, <1>2, OrderKinds
<1>4. \/ fifo' = Append(fifo, message) /\ lost' = lost
      \/ fifo' = fifo /\ lost' = TRUE
  BY DEF FifoSend
<1>5. /\ fifo' \in Seq(Commands) /\ MuteInv' /\ (Unmuting => Unmuting')
      /\ ~lost' => ~lost /\ {fifo'[i] : i \in 1..Len(fifo')}
                            = {fifo[i] : i \in 1..Len(fifo)} \cup {message}
  <2>1. CASE fifo' = Append(fifo, message) /\ lost' = lost
    BY <1>1, <1>3, <2>1, Appended DEF IInv
  <2>2. CASE fifo' = fifo /\ lost' = TRUE
    BY <1>1, <2>2 DEF IInv, MuteInv, Unmuting
  <2> QED BY <1>4, <2>1, <2>2
<1>6. DataInv'
  BY <1>2, <1>5 DEF IInv, DataInv
<1>7. HandInv'
  BY DEF IInv, HandInv, TypeOK
<1>8. ~lost' => Outs \subseteq Outs'
  <2>1. Outs = {fifo[i] : i \in 1..Len(fifo)} \cup {todo[i] : i \in 1..Len(todo)}
               \cup (IF arm7 = "taking" THEN {message} ELSE {})
    BY DEF Outs
  <2>2. Outs' = {fifo'[i] : i \in 1..Len(fifo')} \cup {todo'[i] : i \in 1..Len(todo')}
                \cup (IF arm7 = "taking" THEN {message} ELSE {})
    BY DEF Outs, HandedOver
  <2> QED BY <1>1, <1>2, <1>5, <2>1, <2>2
<1>9. ChannelInv'
  BY <1>5, <1>8, KeepsChannels DEF IInv
<1> QED BY <1>5, <1>6, <1>7, <1>9 DEF IInv

LEMMA DecideStep == ASSUME IInv, Decide PROVE IInv'
<1>1. /\ arm9 = "sync"
      /\ UNCHANGED <<shared, speaker, sgb, message, dsCycles, arm7, muted, touched>>
      /\ \/ \E now \in 1..Ticks :
              cycles' = now /\ arm9' = "wait" /\ UNCHANGED <<fifo, lost, todo>>
         \/ FifoSend(message) /\ todo' = Tail(todo) /\ arm9' = "run" /\ UNCHANGED cycles
  BY DEF Decide
<1>2. cycles = None
  BY <1>1 DEF IInv, HandInv, TypeOK
<1>3. CASE \E now \in 1..Ticks :
             cycles' = now /\ arm9' = "wait" /\ UNCHANGED <<fifo, lost, todo>>
  <2>1. cycles' \in 1..Ticks /\ cycles' # None /\ arm9' = "wait" /\ UNCHANGED <<fifo, lost, todo>>
    BY <1>3, TicksAssumption DEF None
  <2>2. DataInv' /\ MuteInv' /\ (Unmuting => Unmuting')
    BY <1>1, <2>1 DEF IInv, DataInv, MuteInv, Unmuting
  <2>3. HandInv'
    BY <1>1, <2>1 DEF IInv, HandInv, TypeOK
  <2>4. Outs \subseteq Outs'
    BY <1>1, <2>1 DEF Outs, HandedOver
  <2>5. ChannelInv'
    BY <1>1, <2>1, <2>2, <2>4, KeepsChannels DEF IInv
  <2> QED BY <2>2, <2>3, <2>5 DEF IInv
<1>4. CASE FifoSend(message) /\ todo' = Tail(todo) /\ arm9' = "run" /\ UNCHANGED cycles
  <2>1. ~HandedOver
    BY <1>1 DEF HandedOver
  <2> QED BY <1>1, <1>2, <1>4, <2>1, SendStep
<1> QED BY <1>1, <1>3, <1>4

LEMMA WaitStep == ASSUME IInv, Wait PROVE IInv'
<1>1. /\ arm9 = "wait" /\ cycles' = None /\ arm9' = "run" /\ todo' = Tail(todo)
      /\ UNCHANGED <<shared, speaker, sgb, message, dsCycles, arm7, muted, touched>>
      /\ IF cycles # None THEN FifoSend(message) ELSE UNCHANGED <<fifo, lost>>
  BY DEF Wait, WaitEnds
<1>2. CASE cycles # None
  <2>1. ~HandedOver
    BY <1>2 DEF HandedOver
  <2> QED BY <1>1, <1>2, <2>1, SendStep
<1>3. CASE cycles = None
  <2>1. UNCHANGED <<fifo, lost>>
    BY <1>1, <1>3
  <2>2. /\ todo' \in Seq(Orders)
        /\ {todo[i] : i \in 2..Len(todo)} = {todo'[i] : i \in 1..Len(todo')}
    BY <1>1, TodoTail DEF IInv, HandInv, DataInv
  <2>3. DataInv' /\ MuteInv' /\ (Unmuting => Unmuting')
    BY <1>1, <2>1, <2>2 DEF IInv, DataInv, MuteInv, Unmuting
  <2>4. HandInv'
    BY <1>1, <2>1 DEF IInv, HandInv, TypeOK
  <2>5. Outs \subseteq Outs'
    BY <1>1, <1>3, <2>1, <2>2 DEF Outs, HandedOver
  <2>6. ChannelInv'
    BY <1>1, <2>1, <2>3, <2>5, KeepsChannels DEF IInv
  <2> QED BY <2>3, <2>4, <2>6 DEF IInv
<1> QED BY <1>2, <1>3

LEMMA SgbBufferStep == ASSUME IInv, SgbBuffer PROVE IInv'
<1> DEFINE m == <<"update", {IF sgb'.audio THEN sgb'.index ELSE 0}>>
<1>1. /\ UNCHANGED <<shared, speaker, message, cycles, dsCycles, arm7, arm9, todo, muted, touched>>
  BY DEF SgbBuffer, sync
<1>s. \/ sgb' = [sgb EXCEPT !.audio = TRUE, !.index = 1 - @]
      \/ sgb' = [sgb EXCEPT !.audio = FALSE]
  BY Zenon DEF SgbBuffer
<1>0. \/ fifo' = Append(fifo, m) /\ lost' = lost
      \/ fifo' = fifo /\ lost' = TRUE
  BY DEF SgbBuffer, FifoSend, Read
<1>2. sgb' \in [audio : BOOLEAN, index : 0..1, plays : {{}}]
  <2>1. sgb \in [audio : BOOLEAN, index : 0..1, plays : {{}}]
    BY DEF IInv, DataInv
  <2>2. CASE sgb' = [sgb EXCEPT !.audio = TRUE, !.index = 1 - @]
    <3>1. 1 - sgb.index \in 0..1
      BY <2>1
    <3> QED BY <2>1, <2>2, <3>1
  <2>3. CASE sgb' = [sgb EXCEPT !.audio = FALSE]
    BY <2>1, <2>3
  <2> QED BY <1>s, <2>2, <2>3
<1>3. m \in {<<"update", {0}>>, <<"update", {1}>>}
  BY <1>2
<1>4. m \in Commands /\ m[1] # "mute"
  BY <1>3 DEF Commands
<1> HIDE DEF m
<1>6. fifo \in Seq(Commands)
  BY DEF IInv, DataInv
<1>7. /\ fifo' \in Seq(Commands) /\ MuteInv' /\ (Unmuting => Unmuting')
      /\ ~lost' => ~lost /\ {fifo[i] : i \in 1..Len(fifo)} \subseteq {fifo'[i] : i \in 1..Len(fifo')}
  <2>1. CASE fifo' = Append(fifo, m) /\ lost' = lost
    BY <1>1, <1>4, <1>6, <2>1, Appended DEF IInv
  <2>2. CASE fifo' = fifo /\ lost' = TRUE
    BY <1>1, <1>6, <2>2 DEF IInv, MuteInv, Unmuting
  <2> QED BY <1>0, <2>1, <2>2
<1>8. DataInv'
  BY <1>1, <1>2, <1>7 DEF IInv, DataInv
<1>9. HandInv'
  BY <1>1 DEF IInv, HandInv, TypeOK
<1>10. ~lost' => Outs \subseteq Outs'
  BY <1>1, <1>7 DEF Outs, HandedOver
<1>11. ChannelInv'
  BY <1>1, <1>7, <1>10, KeepsChannels DEF IInv
<1> QED BY <1>7, <1>8, <1>9, <1>11 DEF IInv

(* What the game and the menu change. *)
LEMMA MenuStep == ASSUME IInv, Menu PROVE IInv'
<1>1. /\ arm9 = "run" /\ todo = << >>
      /\ UNCHANGED <<speaker, sgb, message, cycles, dsCycles, arm7, arm9, todo>>
  BY DEF Menu, Idle, sync
<1>2. HandInv' <=> TypeOK'
  BY <1>1 DEF IInv, HandInv
<1>3. CASE \E m \in {<<"mute">>, <<"unmute">>} :
             UnboundedSend(m) /\ muted' = (m[1] = "mute") /\ UNCHANGED <<shared, touched>>
  <2>1. PICK m \in {<<"mute">>, <<"unmute">>} :
          UnboundedSend(m) /\ muted' = (m[1] = "mute") /\ UNCHANGED <<shared, touched>>
    BY <1>3
  <2>2. m \in Commands /\ m[1] \in {"mute", "unmute"}
    BY <2>1 DEF Commands
  <2>3. fifo' = Append(fifo, m) /\ lost' = lost /\ fifo \in Seq(Commands)
    BY <2>1 DEF UnboundedSend, IInv, DataInv
  <2>4. /\ fifo' \in Seq(Commands)
        /\ {fifo'[i] : i \in 1..Len(fifo')} = {fifo[i] : i \in 1..Len(fifo)} \cup {m}
        /\ m[1] = "unmute" => Unmuting' /\ MuteInv'
    BY <2>2, <2>3, Appended
  <2>5. MuteInv' /\ (muted' = TRUE \/ Unmuting')
    <3>1. CASE m[1] = "mute"
      BY <2>1, <3>1 DEF MuteInv
    <3>2. CASE m[1] = "unmute"
      BY <2>4, <3>2
    <3> QED BY <2>2, <3>1, <3>2
  <2>6. DataInv' /\ HandInv'
    BY <1>1, <2>1, <2>4 DEF IInv, DataInv, HandInv, TypeOK
  <2>7. Outs \subseteq Outs'
    BY <1>1, <2>4 DEF Outs, HandedOver
  <2>8. ChannelInv'
    BY <1>1, <2>1, <2>3, <2>5, <2>7, KeepsChannels DEF IInv
  <2> QED BY <2>5, <2>6, <2>8 DEF IInv
<1>4. CASE \E b \in BOOLEAN : UnboundedSend(<<"hyper", b>>) /\ UNCHANGED <<muted, shared, touched>>
  <2>1. PICK b \in BOOLEAN : UnboundedSend(<<"hyper", b>>) /\ UNCHANGED <<muted, shared, touched>>
    BY <1>4
  <2> DEFINE m == <<"hyper", b>>
  <2>2. m \in Commands /\ m[1] # "mute"
    BY <2>1 DEF Commands
  <2>3. fifo' = Append(fifo, m) /\ lost' = lost /\ fifo \in Seq(Commands)
    BY <2>1 DEF UnboundedSend, IInv, DataInv
  <2> HIDE DEF m
  <2>4. /\ fifo' \in Seq(Commands) /\ MuteInv' /\ (Unmuting => Unmuting')
        /\ {fifo'[i] : i \in 1..Len(fifo')} = {fifo[i] : i \in 1..Len(fifo)} \cup {m}
    BY <2>1, <2>2, <2>3, Appended DEF IInv
  <2>5. DataInv' /\ HandInv'
    BY <1>1, <2>1, <2>4 DEF IInv, DataInv, HandInv, TypeOK
  <2>6. Outs \subseteq Outs'
    BY <1>1, <2>4 DEF Outs, HandedOver
  <2>7. ChannelInv'
    BY <1>1, <2>1, <2>3, <2>4, <2>6, KeepsChannels DEF IInv
  <2> QED BY <2>4, <2>5, <2>7 DEF IInv
<1>5. CASE \E c \in Channels :
             /\ shared' = [shared EXCEPT !.enabled = IF c \in @ THEN @ \ {c} ELSE @ \cup {c}]
             /\ touched' = touched \cup {c}
             /\ UNCHANGED <<fifo, lost, muted>>
  <2>1. PICK k \in Channels :
          /\ shared' = [shared EXCEPT !.enabled = IF k \in @ THEN @ \ {k} ELSE @ \cup {k}]
          /\ touched' = touched \cup {k}
          /\ UNCHANGED <<fifo, lost, muted>>
    BY <1>5
  <2>2. /\ shared' \in SharedType /\ shared'.on = shared.on /\ shared'.mix = shared.mix
        /\ shared'.pitch = shared.pitch /\ shared'.vol = shared.vol
        /\ \A c \in Channels \ {k} : c \in shared'.enabled <=> c \in shared.enabled
    BY <2>1 DEF IInv, DataInv, SharedType
  <2>3. DataInv' /\ MuteInv' /\ (Unmuting <=> Unmuting')
    BY <1>1, <2>1, <2>2 DEF IInv, DataInv, MuteInv, Unmuting
  <2>4. HandInv'
    BY <1>1, <2>2 DEF IInv, HandInv, TypeOK
  <2>5. Outs' = Outs
    BY <1>1, <2>1 DEF Outs, HandedOver
  <2>6. ASSUME ~lost', NEW c \in Channels \ touched'
        PROVE  (RunsInv(c) /\ PitchInv(c) /\ VolumeInv(c))'
    <3>1. c # k /\ RunsInv(c) /\ PitchInv(c) /\ VolumeInv(c)
      BY <2>1, <2>6 DEF IInv, ChannelInv
    <3>2. (Audible(c)' <=> Audible(c)) /\ Mixed(c)' = Mixed(c)
      BY <2>2, <3>1 DEF Audible, Mixed
    <3> QED BY <1>1, <2>1, <2>2, <2>3, <2>5, <3>1, <3>2 DEF RunsInv, PitchInv, VolumeInv
  <2>7. ChannelInv'
    BY <2>6 DEF ChannelInv
  <2> QED BY <2>3, <2>4, <2>7 DEF IInv
<1>6. \/ \E m \in {<<"mute">>, <<"unmute">>} :
           UnboundedSend(m) /\ muted' = (m[1] = "mute") /\ UNCHANGED <<shared, touched>>
      \/ \E b \in BOOLEAN : UnboundedSend(<<"hyper", b>>) /\ UNCHANGED <<muted, shared, touched>>
      \/ \E c \in Channels :
           /\ shared' = [shared EXCEPT !.enabled = IF c \in @ THEN @ \ {c} ELSE @ \cup {c}]
           /\ touched' = touched \cup {c}
           /\ UNCHANGED <<fifo, lost, muted>>
  <2>1. CASE \E w \in work \cap {"mute", "unmute"} :
               UnboundedSend(<<w>>) /\ muted' = (w = "mute") /\ UNCHANGED <<hyperSound, shared, touched>>
    <3>1. PICK w \in work \cap {"mute", "unmute"} :
            UnboundedSend(<<w>>) /\ muted' = (w = "mute") /\ UNCHANGED <<hyperSound, shared, touched>>
      BY <2>1
    <3>2. <<w>> \in {<<"mute">>, <<"unmute">>} /\ (<<w>>)[1] = w
      OBVIOUS
    <3> QED BY <3>1, <3>2
  <2> QED BY <2>1 DEF Menu
<1> QED BY <1>3, <1>4, <1>5, <1>6

\* What a change may do to channel d, given the commands that then stand out.
Announced(d) ==
  \/ \E m \in Outs' : Starts(m, d)
  \/ /\ d \notin touched
     /\ Audible(d)' => Audible(d) /\ (\/ shared'.pitch[d] = shared.pitch[d]
                                      \/ \E m \in Outs' : Renews(m, d))
     /\ Mixed(d)' = Mixed(d) \/ \E m \in Outs' : Sets(m, d)

LEMMA ChangesChannels ==
  ASSUME ChannelInv, UNCHANGED speaker,
         ~lost' => /\ ~lost /\ Outs \subseteq Outs'
                   /\ muted \/ Unmuting => muted' \/ Unmuting'
                   /\ \A d \in Channels \ touched' : Announced(d)
  PROVE  ChannelInv'
<1> SUFFICES ASSUME ~lost', NEW d \in Channels \ touched'
             PROVE  (RunsInv(d) /\ PitchInv(d) /\ VolumeInv(d))'
  BY DEF ChannelInv
<1>1. Announced(d)
  OBVIOUS
<1>2. CASE \E m \in Outs' : Starts(m, d)
  <2>1. PICK m \in Outs' : Starts(m, d)
    BY <1>2
  <2>2. Renews(m, d) /\ Sets(m, d)
    BY <2>1 DEF Starts, Renews, Sets
  <2> QED BY <2>1, <2>2 DEF RunsInv, PitchInv, VolumeInv
<1>3. CASE /\ d \notin touched
           /\ Audible(d)' => Audible(d) /\ (\/ shared'.pitch[d] = shared.pitch[d]
                                            \/ \E m \in Outs' : Renews(m, d))
           /\ Mixed(d)' = Mixed(d) \/ \E m \in Outs' : Sets(m, d)
  <2>1. RunsInv(d) /\ PitchInv(d) /\ VolumeInv(d)
    BY <1>3 DEF ChannelInv
  <2>2. RunsInv(d)'
    BY <1>3, <2>1 DEF RunsInv
  <2>3. PitchInv(d)'
    BY <1>3, <2>1 DEF PitchInv
  <2>4. VolumeInv(d)'
    BY <1>3, <2>1 DEF VolumeInv
  <2> QED BY <2>2, <2>3, <2>4
<1> QED BY <1>1, <1>2, <1>3 DEF Announced

LEMMA ShortTodo ==
  ASSUME NEW m \in Orders, NEW n \in Orders
  PROVE  /\ << >> \in Seq(Orders)
         /\ <<m>> \in Seq(Orders) /\ Len(<<m>>) = 1 /\ (<<m>>)[1] = m
         /\ <<m, n>> \in Seq(Orders) /\ Len(<<m, n>>) = 2
         /\ (<<m, n>>)[1] = m /\ (<<m, n>>)[2] = n
OBVIOUS

\* Every change of a register leaves its command to be handed over.
Announces(c) ==
  /\ shared' \in SharedType /\ todo' \in Seq(Orders)
  /\ touched' \subseteq touched
  /\ \A d \in Channels :
       LET Sent == {todo'[i] : i \in 1..Len(todo')} IN
       \/ \E m \in Sent : Starts(m, d)
       \/ /\ d \in touched' <=> d \in touched
          /\ Audible(d)' => Audible(d) /\ (\/ shared'.pitch[d] = shared.pitch[d]
                                           \/ \E m \in Sent : Renews(m, d))
          /\ Mixed(d)' = Mixed(d) \/ \E m \in Sent : Sets(m, d)

LEMMA ChangeFacts ==
  ASSUME DataInv, NEW op \in {"pitch", "volume", "start", "stop", "master", "output"},
         NEW c \in Channels, NEW v \in Values,
         shared' = Change(op, c, v)[1], todo' = Change(op, c, v)[2],
         touched' = IF op = "start" THEN touched \ {c} ELSE touched
  PROVE  Announces(c)
<1>1. shared \in SharedType /\ v \in Level /\ {c} \in SUBSET Channels
  BY DEF DataInv, Level
<1>2. CASE op = "pitch"
  <2> DEFINE m == <<"update", {c}>>
  <2>1. shared' = [shared EXCEPT !.pitch[c] = v] /\ todo' = <<m>> /\ touched' = touched
    BY <1>2 DEF Change
  <2>2. m \in Orders /\ Renews(m, c)
    BY <1>1 DEF Orders, Renews
  <2> HIDE DEF m
  <2>3. todo' \in Seq(Orders) /\ m \in {todo'[i] : i \in 1..Len(todo')}
    BY <2>1, <2>2, ShortTodo
  <2>4. /\ shared' \in SharedType /\ shared'.on = shared.on /\ shared'.enabled = shared.enabled
        /\ shared'.vol = shared.vol /\ shared'.mix = shared.mix
        /\ \A d \in Channels \ {c} : shared'.pitch[d] = shared.pitch[d]
    BY <1>1, <2>1 DEF SharedType
  <2>5. \A d \in Channels : (Audible(d)' <=> Audible(d)) /\ Mixed(d)' = Mixed(d)
    BY <2>4 DEF Audible, Mixed
  <2> QED BY <2>1, <2>2, <2>3, <2>4, <2>5 DEF Announces
<1>3. CASE op = "volume"
  <2>1. shared' = Refreshed(shared, c, v) /\ touched' = touched
        /\ todo' = IF Refreshed(shared, c, v) = shared THEN << >> ELSE <<<<"volume", {c}>>>>
    BY <1>3 DEF Change
  <2>2. CASE shared' = shared
    <3>1. todo' = << >>
      BY <2>1, <2>2
    <3>2. \A d \in Channels : (Audible(d)' <=> Audible(d)) /\ Mixed(d)' = Mixed(d)
      BY <2>2 DEF Audible, Mixed
    <3> QED BY <1>1, <2>1, <2>2, <3>1, <3>2 DEF Announces
  <2>3. CASE shared' # shared
    <3> DEFINE m == <<"volume", {c}>>
    <3>1. shared' = [shared EXCEPT !.vol[c] = v] /\ todo' = <<m>>
      BY <2>1, <2>3 DEF Refreshed
    <3>2. m \in Orders /\ Sets(m, c)
      BY <1>1 DEF Orders, Sets
    <3> HIDE DEF m
    <3>3. todo' \in Seq(Orders) /\ m \in {todo'[i] : i \in 1..Len(todo')}
      BY <3>1, <3>2, ShortTodo
    <3>4. /\ shared' \in SharedType /\ shared'.on = shared.on /\ shared'.enabled = shared.enabled
          /\ shared'.pitch = shared.pitch /\ shared'.mix = shared.mix
          /\ \A d \in Channels \ {c} : shared'.vol[d] = shared.vol[d]
      BY <1>1, <3>1 DEF SharedType
    <3>5. \A d \in Channels : (Audible(d)' <=> Audible(d)) /\ (d # c => Mixed(d)' = Mixed(d))
      BY <3>4 DEF Audible, Mixed
    <3> QED BY <2>1, <3>2, <3>3, <3>4, <3>5 DEF Announces
  <2> QED BY <2>2, <2>3
<1>4. CASE op = "start"
  <2> DEFINE m == <<"start", {c}>>
  <2> DEFINE s == [shared EXCEPT !.on = @ \cup {c}]
  <2>1. shared' = Refreshed(s, c, v) /\ touched' = touched \ {c} /\ todo' = <<m>>
    BY <1>4 DEF Change
  <2>2. m \in Orders /\ Starts(m, c)
    BY <1>1 DEF Orders, Starts
  <2> HIDE DEF m
  <2>3. todo' \in Seq(Orders) /\ m \in {todo'[i] : i \in 1..Len(todo')}
    BY <2>1, <2>2, ShortTodo
  <2>4. /\ s \in SharedType /\ s.on = shared.on \cup {c} /\ s.enabled = shared.enabled
        /\ s.pitch = shared.pitch /\ s.mix = shared.mix /\ s.vol = shared.vol
    BY <1>1 DEF SharedType
  <2> HIDE DEF s
  <2>5. shared' = s \/ shared' = [s EXCEPT !.vol[c] = v]
    BY <2>1 DEF Refreshed
  <2>6. /\ shared' \in SharedType /\ shared'.on = shared.on \cup {c}
        /\ shared'.enabled = shared.enabled
        /\ shared'.pitch = shared.pitch /\ shared'.mix = shared.mix
        /\ \A d \in Channels \ {c} : shared'.vol[d] = shared.vol[d]
    BY <1>1, <2>4, <2>5 DEF SharedType
  <2>7. \A d \in Channels \ {c} : (Audible(d)' <=> Audible(d)) /\ Mixed(d)' = Mixed(d)
    BY <2>6 DEF Audible, Mixed
  <2> QED BY <2>1, <2>2, <2>3, <2>6, <2>7 DEF Announces
<1>5. CASE op = "stop"
  <2> DEFINE m == <<"update", {c}>>
  <2>1. shared' = [shared EXCEPT !.on = @ \ {c}] /\ todo' = <<m>> /\ touched' = touched
    BY <1>5 DEF Change
  <2>2. m \in Orders /\ Sets(m, c)
    BY <1>1 DEF Orders, Sets
  <2> HIDE DEF m
  <2>3. todo' \in Seq(Orders) /\ m \in {todo'[i] : i \in 1..Len(todo')}
    BY <2>1, <2>2, ShortTodo
  <2>4. /\ shared' \in SharedType /\ shared'.on = shared.on \ {c}
        /\ shared'.enabled = shared.enabled
        /\ shared'.vol = shared.vol /\ shared'.mix = shared.mix /\ shared'.pitch = shared.pitch
    BY <1>1, <2>1 DEF SharedType
  <2>5. \A d \in Channels : (Audible(d)' => Audible(d)) /\ (d # c => Mixed(d)' = Mixed(d))
    BY <2>4 DEF Audible, Mixed
  <2> QED BY <2>1, <2>2, <2>3, <2>4, <2>5 DEF Announces
<1>6. CASE op = "master"
  <2>1. shared' = [shared EXCEPT !.mix = v] /\ touched' = touched
        /\ todo' = IF v = shared.mix THEN << >> ELSE <<<<"master">>>>
    BY <1>6 DEF Change
  <2>2. /\ shared' \in SharedType /\ shared'.on = shared.on
        /\ shared'.enabled = shared.enabled /\ shared'.mix = v
        /\ shared'.vol = shared.vol /\ shared'.pitch = shared.pitch
    BY <1>1, <2>1 DEF SharedType
  <2>3. \A d \in Channels : Audible(d)' <=> Audible(d)
    BY <2>2 DEF Audible
  <2>4. CASE v = shared.mix
    <3>1. todo' = << >>
      BY <2>1, <2>4
    <3>2. \A d \in Channels : Mixed(d)' = Mixed(d)
      BY <2>2, <2>3, <2>4 DEF Mixed
    <3> QED BY <2>1, <2>2, <2>3, <3>1, <3>2 DEF Announces
  <2>5. CASE v # shared.mix
    <3> DEFINE m == <<"master">>
    <3>1. todo' = <<m>>
      BY <2>1, <2>5
    <3>2. m \in Orders /\ \A d \in Channels : Sets(m, d)
      BY DEF Orders, Sets
    <3> HIDE DEF m
    <3>3. todo' \in Seq(Orders) /\ m \in {todo'[i] : i \in 1..Len(todo')}
      BY <3>1, <3>2, ShortTodo
    <3> QED BY <2>1, <2>2, <2>3, <3>2, <3>3 DEF Announces
  <2> QED BY <2>4, <2>5
<1>7. CASE op = "output"
  <2> DEFINE m == <<"update", Channels>>
  <2> DEFINE n == <<"master">>
  <2>1. shared' = shared /\ touched' = touched /\ todo' = <<m, n>>
    BY <1>7 DEF Change
  <2>2. m \in Orders /\ n \in Orders
    BY DEF Orders
  <2> HIDE DEF m, n
  <2>3. todo' \in Seq(Orders)
    BY <2>1, <2>2, ShortTodo
  <2>4. \A d \in Channels : (Audible(d)' <=> Audible(d)) /\ Mixed(d)' = Mixed(d)
    BY <2>1 DEF Audible, Mixed
  <2> QED BY <1>1, <2>1, <2>3, <2>4 DEF Announces
<1> QED BY <1>2, <1>3, <1>4, <1>5, <1>6, <1>7

LEMMA GameStep == ASSUME IInv, Game PROVE IInv'
<1>1. /\ arm9 = "run" /\ todo = << >>
      /\ UNCHANGED <<speaker, sgb, fifo, message, cycles, dsCycles, arm7, arm9, muted, lost>>
  BY DEF Game, Idle, sync
<1>2. PICK op \in {"pitch", "volume", "start", "stop", "master", "output"}, c \in Channels,
           v \in Values :
        /\ shared' = Change(op, c, v)[1] /\ todo' = Change(op, c, v)[2]
        /\ touched' = IF op = "start" THEN touched \ {c} ELSE touched
  BY DEF Game
<1>3. Announces(c)
  BY <1>2, ChangeFacts DEF IInv
<1>4. DataInv' /\ MuteInv' /\ (Unmuting => Unmuting')
  BY <1>1, <1>3 DEF IInv, DataInv, MuteInv, Unmuting, Announces
<1>5. HandInv'
  BY <1>1, <1>3 DEF IInv, HandInv, TypeOK, Announces, SharedType
<1>6. /\ Outs \subseteq Outs'
      /\ \A i \in 1..Len(todo') : todo'[i] \in Outs'
  BY <1>1 DEF Outs, HandedOver
<1>7. ASSUME NEW d \in Channels \ touched' PROVE Announced(d)
  <2> DEFINE Sent == {todo'[i] : i \in 1..Len(todo')}
  <2>1. Sent \subseteq Outs'
    BY <1>6
  <2>2. \/ \E m \in Sent : Starts(m, d)
        \/ /\ d \in touched' <=> d \in touched
           /\ Audible(d)' => Audible(d) /\ (\/ shared'.pitch[d] = shared.pitch[d]
                                            \/ \E m \in Sent : Renews(m, d))
           /\ Mixed(d)' = Mixed(d) \/ \E m \in Sent : Sets(m, d)
    BY <1>3 DEF Announces
  <2> HIDE DEF Sent
  <2> QED BY <2>1, <2>2 DEF Announced
<1>8. ChannelInv'
  BY <1>1, <1>4, <1>6, <1>7, ChangesChannels DEF IInv
<1> QED BY <1>4, <1>5, <1>8 DEF IInv

LEMMA UpdateSoundStep == ASSUME IInv, UpdateSound PROVE IInv'
<1> DEFINE m == <<"update", Channels>>
<1>1. /\ arm9 = "run" /\ todo = << >>
      /\ UNCHANGED <<speaker, sgb, message, cycles, dsCycles, arm7, arm9, muted, touched>>
  BY DEF UpdateSound, Idle, sync
<1>2. \/ todo' = <<m>> /\ UNCHANGED <<fifo, lost>>
      \/ todo' = todo /\ fifo' = Append(fifo, m) /\ lost' = lost
      \/ todo' = todo /\ fifo' = fifo /\ lost' = TRUE
  BY DEF UpdateSound, FifoSend, Read
<1>3. m \in Orders /\ m \in Commands /\ m[1] # "mute"
      /\ \A d \in Channels : Renews(m, d) /\ Sets(m, d)
  BY DEF Orders, Commands, Renews, Sets
<1> HIDE DEF m
<1>4. PICK c \in shared.on, v \in Values :
        shared' \in {[shared EXCEPT !.on = @ \ {c}], [shared EXCEPT !.pitch[c] = v],
                     Refreshed(shared, c, v)}
  BY DEF UpdateSound
<1>5. /\ shared' \in SharedType /\ shared'.on \subseteq shared.on
      /\ shared'.enabled = shared.enabled
  <2>1. shared \in SharedType /\ c \in Channels /\ v \in Level
    BY DEF IInv, DataInv, SharedType, Level
  <2>2. CASE shared' = [shared EXCEPT !.on = @ \ {c}]
    BY <2>1, <2>2 DEF SharedType
  <2>3. CASE shared' = [shared EXCEPT !.pitch[c] = v]
    BY <2>1, <2>3 DEF SharedType
  <2>4. CASE shared' = Refreshed(shared, c, v)
    <3>1. shared' = shared \/ shared' = [shared EXCEPT !.vol[c] = v]
      BY <2>4 DEF Refreshed
    <3> QED BY <2>1, <3>1 DEF SharedType
  <2> QED BY <1>4, <2>2, <2>3, <2>4
<1>6. \A d \in Channels : Audible(d)' => Audible(d)
  BY <1>5 DEF Audible
<1>7. fifo \in Seq(Commands) /\ todo \in Seq(Orders)
  BY DEF IInv, DataInv
<1>8. /\ fifo' \in Seq(Commands) /\ MuteInv' /\ (Unmuting => Unmuting')
      /\ {fifo[i] : i \in 1..Len(fifo)} \subseteq {fifo'[i] : i \in 1..Len(fifo')}
  <2>1. CASE fifo' = Append(fifo, m)
    BY <1>1, <1>3, <1>7, <2>1, Appended DEF IInv
  <2>2. CASE fifo' = fifo
    BY <1>1, <1>7, <2>2 DEF IInv, MuteInv, Unmuting
  <2> QED BY <1>2, <2>1, <2>2
<1>9. todo' \in Seq(Orders)
  BY <1>2, <1>3, <1>7, ShortTodo
<1>10. DataInv'
  BY <1>1, <1>5, <1>8, <1>9 DEF IInv, DataInv
<1>11. HandInv'
  BY <1>1, <1>5 DEF IInv, HandInv, TypeOK, SharedType
<1>12. ~lost' => ~lost /\ m \in Outs'
  <2>1. CASE todo' = <<m>> /\ UNCHANGED <<fifo, lost>>
    <3>1. Len(todo') = 1 /\ todo'[1] = m
      BY <1>3, <2>1, ShortTodo
    <3> QED BY <1>1, <2>1, <3>1 DEF Outs, HandedOver
  <2>2. CASE fifo' = Append(fifo, m) /\ lost' = lost
    <3>1. m \in {fifo'[i] : i \in 1..Len(fifo')}
      BY <1>3, <1>7, <2>2, Appended
    <3> QED BY <2>2, <3>1 DEF Outs
  <2>3. CASE lost' = TRUE
    BY <2>3
  <2> QED BY <1>2, <2>1, <2>2, <2>3
<1>13. Outs \subseteq Outs'
  BY <1>1, <1>8 DEF Outs, HandedOver
<1>14. ASSUME ~lost', NEW d \in Channels \ touched' PROVE Announced(d)
  BY <1>1, <1>3, <1>6, <1>12, <1>14 DEF Announced
<1>15. ChannelInv'
  BY <1>1, <1>8, <1>12, <1>13, <1>14, ChangesChannels DEF IInv
<1> QED BY <1>8, <1>10, <1>11, <1>15 DEF IInv

(* ------------------------------ the theorems ---------------------------- *)
LEMMA InitInvariant == ASSUME Init PROVE IInv
<1>1. DataInv
  <2>1. 1 \in Level /\ Silent \in Loudness /\ << >> \in Seq(Commands) /\ << >> \in Seq(Orders)
    BY DEF Level, Loudness
  <2>2. shared \in SharedType
    BY <2>1 DEF Init, SharedType
  <2>3. speaker \in SpeakerType
    BY <2>1 DEF Init, SpeakerType
  <2>4. sgb \in [audio : BOOLEAN, index : 0..1, plays : {{}}]
    BY DEF Init
  <2> QED BY <2>1, <2>2, <2>3, <2>4 DEF DataInv, Init
<1>2. HandInv
  BY TicksAssumption DEF Init, HandInv, TypeOK
<1>3. MuteInv
  BY DEF Init, MuteInv
<1>4. ASSUME NEW c \in Channels PROVE ~Audible(c) /\ speaker[c].vol = Mixed(c)
  BY DEF Init, Audible, Mixed
<1>5. ChannelInv
  BY <1>4 DEF ChannelInv, RunsInv, PitchInv, VolumeInv
<1> QED BY <1>1, <1>2, <1>3, <1>5 DEF IInv

LEMMA StutterStep == ASSUME IInv, UNCHANGED vars PROVE IInv'
<1>1. UNCHANGED <<shared, speaker, sgb, fifo, message, cycles, dsCycles, arm7, arm9, todo, muted,
                  touched, lost>>
  BY DEF vars, sync
<1>2. DataInv' /\ HandInv' /\ MuteInv' /\ (Unmuting => Unmuting')
  BY <1>1 DEF IInv, DataInv, HandInv, TypeOK, MuteInv, Unmuting
<1>3. Outs \subseteq Outs'
  BY <1>1 DEF Outs, HandedOver
<1>4. ChannelInv'
  BY <1>1, <1>2, <1>3, KeepsChannels DEF IInv
<1> QED BY <1>2, <1>4 DEF IInv

LEMMA NextInvariant == ASSUME IInv, [Next]_vars PROVE IInv'
BY ReceiveStep, TimerStep, TakeStep, ClockStep, GameStep, UpdateSoundStep,
   SgbBufferStep, 
   SynchronizeStep, DecideStep, WaitStep, MenuStep, StutterStep DEF Next, Arm7

\* What makes a speaker wrong always has its remedy on the way.
THEOREM InvariantHolds == Spec => []IInv
BY InitInvariant, NextInvariant, PTL DEF Spec

\* With every command taken nothing is on its way any more, so every
\* channel sounds as sharedData says (dssoundengine.cpp and sound.c): it
\* runs, at its pitch and volume, or is silent, unless the ARM9 lost a
\* command, the menu muted the sound or switched the channel.
THEOREM SpeakersAlwaysFollow == Spec => []SpeakersFollow
<1>1. ASSUME IInv PROVE SpeakersFollow
  <2>1. TypeOK
    BY <1>1 DEF IInv, HandInv
  <2>2. ASSUME Idle, fifo = << >>, arm7 = "idle", ~lost, NEW c \in Channels \ touched
        PROVE  Follows(c)
    <3>1. Outs = {} /\ ~Unmuting
      BY <2>2 DEF Idle, Outs, HandedOver, Unmuting
    <3>2. RunsInv(c) /\ PitchInv(c) /\ VolumeInv(c)
      BY <1>1, <2>2 DEF IInv, ChannelInv
    <3>3. ~Audible(c) => Mixed(c) = Silent
      BY DEF Mixed
    <3> QED BY <3>1, <3>2, <3>3 DEF RunsInv, PitchInv, VolumeInv, Follows
  <2> QED BY <2>1, <2>2 DEF SpeakersFollow
<1> QED BY <1>1, InvariantHolds, PTL
=============================================================================
