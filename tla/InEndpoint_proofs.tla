-------------------------- MODULE InEndpoint_proofs --------------------------
(***************************************************************************)
(* Theorems about InEndpoint, for every value of its constants.            *)
(***************************************************************************)
EXTENDS InEndpoint, SequenceTheorems, TLAPS

-----------------------------------------------------------------------------
(* The inductive invariant *)

\* The packets of unit n; those in flight, and of which unit (0 if there are none).
Count(n) == Packets(sent[n].len)
Flight == rx \o buffer
InFlight == IF Flight = <<>> THEN 0 ELSE Flight[1].unit

\* The unit that came last.
Came == IF got = <<>> THEN 0 ELSE got[1].unit

\* What comes from a device comes from one that was attached.
Known == backend # "none" \/ link # <<>> => device # 0

\* What is written is a packet of its unit.
Writing == writer = "write" => cur # 0 /\ part \in 1..Count(cur)

\* The units are queued, written and received in their order.
InLine ==
  /\ Came <= Len(sent)
  /\ writer = "write" => Came < cur
  /\ \A k \in 1..Len(queue) : queue[k] > Came /\ (writer = "write" => queue[k] > cur)
  /\ \A k, l \in 1..Len(queue) : k < l => queue[k] < queue[l]

\* What came last is all the packets of its unit.
Whole ==
  got # <<>> => /\ Came \in 1..Len(sent) /\ Len(got) = Count(Came)
                /\ \A k \in 1..Len(got) : got[k] = Packet(Came, k)

\* After a reset nothing is in flight until the console has configured the
\* device; then it is the packets of one unit from the first on, and what is
\* written goes on with it, or starts the next unit behind a whole one.
Emptied == bus = "reset" => enabled = "no" /\ buffer = <<>> /\ rx = <<>>

Stream ==
  bus = "configured" =>
    /\ enabled = "yes"
    /\ Flight # <<>> =>
         /\ InFlight \in 1..Len(sent) /\ Came < InFlight
         /\ Len(rx) < Count(InFlight) /\ Len(Flight) <= Count(InFlight)
         /\ \A k \in 1..Len(Flight) : Flight[k] = Packet(InFlight, k)
         /\ \A k \in 1..Len(queue) : InFlight < queue[k]
    /\ IF writer = "write" /\ part > 1
       THEN Flight # <<>> /\ InFlight = cur /\ Len(Flight) = part - 1
       ELSE Flight # <<>> =>
              Len(Flight) = Count(InFlight) /\ (writer = "write" => InFlight < cur)

\* In the wheel role: the device on the bus is the wheel that is attached, and
\* from the second connection on its units are that wheel's.
Followed ==
  role = "Wheel" =>
    /\ \A n \in 1..Len(sent) : sent[n].device <= device
    /\ bus # "off" => conn = device /\ conn # 0
    /\ conn = 0 => got = <<>>
    /\ bus # "off" /\ conn # first =>
         \A k \in 1..Len(queue) : sent[queue[k]].device = conn
    /\ bus = "configured" /\ conn # first =>
         /\ writer = "write" => sent[cur].device = conn
         /\ Flight # <<>> => sent[InFlight].device = conn

IInv == TypeOK /\ Known /\ Writing /\ InLine /\ Whole /\ Emptied /\ Stream /\ Followed /\ NothingOld

-----------------------------------------------------------------------------
(* Lemmas about packets and queues *)

LEMMA Division ==
  ASSUME NEW a \in Nat, NEW b \in Nat \ {0}
  PROVE  a \div b \in Nat /\ (a \div b) * b <= a /\ a < (a \div b + 1) * b
  OBVIOUS

\* A unit is cut into full packets and a last one.
LEMMA Cut ==
  ASSUME EndpointAssumption, role \in Roles, mps \in PacketSizes, NEW len \in 0..MAX_PACKET,
         NEW j \in 1..Packets(len)
  PROVE  /\ PacketLen(len, j) \in 0..MAX_PACKET
         /\ j < Packets(len) => PacketLen(len, j) = mps /\ j * mps < MAX_PACKET
         /\ j = Packets(len) =>
              \/ role = "Relay" \/ PacketLen(len, j) < mps
              \/ (j - 1) * mps + PacketLen(len, j) >= MAX_PACKET
  <1>1. mps \in Nat \ {0} /\ mps <= MAX_PACKET /\ MAX_PACKET \in Nat \ {0}
        /\ len \in Nat /\ len <= MAX_PACKET /\ j \in Nat /\ j >= 1
    BY DEF EndpointAssumption
  <1>2. CASE role = "Relay"
    BY <1>1, <1>2 DEF Packets, PacketLen
  <1>3. CASE role # "Relay" /\ len < MAX_PACKET
    <2> DEFINE q == len \div mps
    <2>1. q \in Nat /\ q * mps <= len /\ len < (q + 1) * mps /\ Packets(len) = q + 1
      BY <1>1, <1>3, Division DEF Packets
    <2> HIDE DEF q
    <2>2. j <= q => j * mps <= q * mps
      BY <1>1, <2>1
    <2>3. j <= q \/ j = q + 1
      BY <1>1, <2>1
    <2>4. CASE j <= q
      BY <1>1, <1>3, <2>1, <2>2, <2>4 DEF PacketLen
    <2>5. CASE j = q + 1
      <3>1. PacketLen(len, j) = len - q * mps
        BY <1>1, <2>1, <2>5 DEF PacketLen
      <3>2. len - q * mps < mps /\ len - q * mps \in 0..MAX_PACKET
        BY <1>1, <2>1
      <3> QED BY <2>1, <2>5, <3>1, <3>2
    <2> QED BY <2>3, <2>4, <2>5
  <1>4. CASE role # "Relay" /\ len = MAX_PACKET
    <2> DEFINE q == (len + mps - 1) \div mps
    <2>1. q \in Nat /\ q * mps <= len + mps - 1 /\ len + mps - 1 < (q + 1) * mps /\ Packets(len) = q
      <3>1. len + mps - 1 \in Nat
        BY <1>1
      <3> QED BY <1>1, <1>4, <3>1, Division DEF Packets
    <2> HIDE DEF q
    <2>2. q * mps >= len /\ (q - 1) * mps < len /\ q >= 1
      BY <1>1, <2>1
    <2>3. j <= q - 1 \/ j = q
      BY <1>1, <2>1
    <2>4. CASE j <= q - 1
      <3>1. j * mps <= (q - 1) * mps
        BY <1>1, <2>1, <2>4
      <3> QED BY <1>1, <1>4, <2>1, <2>2, <2>4, <3>1 DEF PacketLen
    <2>5. CASE j = q
      <3>1. CASE len = j * mps
        BY <1>1, <1>4, <2>1, <2>2, <2>5, <3>1 DEF PacketLen
      <3>2. CASE len < j * mps
        <4>1. PacketLen(len, j) = len - (j - 1) * mps
          BY <1>1, <3>2 DEF PacketLen
        <4> QED BY <1>1, <1>4, <2>1, <2>2, <2>5, <3>2, <4>1
      <3> QED BY <1>1, <2>2, <2>5, <3>1, <3>2
    <2> QED BY <2>3, <2>4, <2>5
  <1> QED
    BY <1>1, <1>2, <1>3, <1>4

LEMMA PacketCount ==
  ASSUME EndpointAssumption, role \in Roles, mps \in PacketSizes, NEW len \in 0..MAX_PACKET
  PROVE  Packets(len) \in 1..(MAX_PACKET + 1)
  <1>1. mps \in Nat \ {0} /\ mps <= MAX_PACKET /\ MAX_PACKET \in Nat \ {0}
        /\ len \in Nat /\ len <= MAX_PACKET
    BY DEF EndpointAssumption
  <1>2. CASE role = "Relay"
    BY <1>1, <1>2 DEF Packets
  <1>3. CASE role # "Relay" /\ len < MAX_PACKET
    <2> DEFINE q == len \div mps
    <2>1. q \in Nat /\ q * mps <= len /\ Packets(len) = q + 1
      BY <1>1, <1>3, Division DEF Packets
    <2> HIDE DEF q
    <2>2. q <= q * mps
      BY <1>1, <2>1
    <2> QED BY <1>1, <2>1, <2>2
  <1>4. CASE role # "Relay" /\ len = MAX_PACKET
    <2> DEFINE q == (len + mps - 1) \div mps
    <2>1. q \in Nat /\ q * mps <= len + mps - 1 /\ len + mps - 1 < (q + 1) * mps /\ Packets(len) = q
      <3>1. len + mps - 1 \in Nat
        BY <1>1
      <3> QED BY <1>1, <1>4, <3>1, Division DEF Packets
    <2> HIDE DEF q
    <2>2. (q - 1) * mps <= len - 1 /\ len <= q * mps
      BY <1>1, <2>1
    <2>3. q # 0
      <3>1. 0 * mps = 0 /\ len # 0
        BY <1>1, <1>4
      <3> QED BY <1>1, <2>2, <3>1
    <2>4. q - 1 <= (q - 1) * mps
      BY <1>1, <2>1, <2>3
    <2> QED BY <1>1, <2>1, <2>2, <2>3, <2>4
  <1> QED
    BY <1>1, <1>2, <1>3, <1>4

\* What the type of the state says of its parts.
LEMMA Basics ==
  ASSUME EndpointAssumption, TypeOK
  PROVE  /\ role \in Roles /\ mps \in PacketSizes /\ mps \in Nat \ {0}
         /\ device \in Nat /\ device <= MaxDevices
         /\ sent \in Seq(Unit) /\ Len(sent) \in Nat /\ Len(sent) <= MaxUnits
         /\ \A n \in 1..Len(sent) : /\ sent[n] \in Unit /\ sent[n].len \in 0..MAX_PACKET
                                    /\ sent[n].device \in 1..MaxDevices
         /\ queue \in Seq(1..Len(sent)) /\ Len(queue) \in Nat /\ Len(queue) <= QUEUE_LEN
         /\ \A k \in 1..Len(queue) : queue[k] \in 1..Len(sent)
         /\ cur \in 0..Len(sent) /\ part \in Nat
         /\ rx \in Seq(APacket) /\ buffer \in Seq(APacket) /\ got \in Seq(APacket)
         /\ Len(rx) \in Nat /\ Len(buffer) \in {0, 1}
         /\ conn \in Nat /\ first \in Nat /\ gotFor \in Nat
  <1>1. /\ MaxUnits \in Nat /\ MaxDevices \in Nat /\ MaxResets \in Nat /\ QUEUE_LEN \in Nat
        /\ MAX_PACKET \in Nat /\ PacketSizes \subseteq 1..MAX_PACKET
        /\ Lengths \subseteq 0..MAX_PACKET
    BY DEF EndpointAssumption
  <1>2. role \in Roles /\ mps \in PacketSizes /\ mps \in Nat \ {0} /\ device \in Nat
        /\ device <= MaxDevices
    BY <1>1 DEF TypeOK
  <1>3. sent \in Seq(Unit) /\ Len(sent) \in Nat /\ Len(sent) <= MaxUnits
    BY LenProperties DEF TypeOK
  <1>4. ASSUME NEW n \in 1..Len(sent)
        PROVE  sent[n] \in Unit /\ sent[n].len \in 0..MAX_PACKET /\ sent[n].device \in 1..MaxDevices
    <2>1. sent[n] \in Unit
      BY <1>3, <1>4, ElementOfSeq
    <2> QED BY <1>1, <2>1 DEF Unit
  <1>5. /\ queue \in Seq(1..Len(sent)) /\ Len(queue) \in Nat /\ Len(queue) <= QUEUE_LEN
        /\ \A k \in 1..Len(queue) : queue[k] \in 1..Len(sent)
    BY LenProperties, ElementOfSeq DEF TypeOK
  <1>6. cur \in 0..Len(sent) /\ part \in Nat
    BY <1>1 DEF TypeOK
  <1>7. /\ rx \in Seq(APacket) /\ buffer \in Seq(APacket) /\ got \in Seq(APacket)
        /\ Len(rx) \in Nat /\ Len(buffer) \in {0, 1}
    <2>1. /\ rx \in Seq(APacket) /\ buffer \in Seq(APacket) /\ got \in Seq(APacket)
          /\ Len(buffer) <= 1
      BY DEF TypeOK
    <2>2. Len(rx) \in Nat
      BY <2>1, LenProperties
    <2>4. Len(buffer) \in Nat
      BY <2>1, LenProperties
    <2>5. Len(buffer) <= 1
      BY <2>1
    <2>6. \A m \in Nat : m <= 1 => m \in {0, 1}
      OBVIOUS
    <2>3. Len(buffer) \in {0, 1}
      BY <2>4, <2>5, <2>6, Zenon
    <2> QED BY <2>1, <2>2, <2>3
  <1>8. conn \in Nat /\ first \in Nat /\ gotFor \in Nat
    BY <1>2 DEF TypeOK
  <1> QED
    BY <1>2, <1>3, <1>4, <1>5, <1>6, <1>7, <1>8

\* The packets of a unit.
LEMMA PacketType ==
  ASSUME EndpointAssumption, TypeOK, NEW n \in 1..Len(sent)
  PROVE  /\ Count(n) \in 1..(MAX_PACKET + 1)
         /\ \A j \in 1..Count(n) : Packet(n, j) \in APacket
  <1>1. role \in Roles /\ mps \in PacketSizes /\ sent[n].len \in 0..MAX_PACKET
        /\ n \in Numbers
    BY Basics DEF Numbers, EndpointAssumption
  <1>2. Count(n) \in 1..(MAX_PACKET + 1)
    BY <1>1, PacketCount DEF Count
  <1>3. ASSUME NEW j \in 1..Count(n) PROVE Packet(n, j) \in APacket
    <2>1. PacketLen(sent[n].len, j) \in 0..MAX_PACKET
      BY <1>1, <1>3, Cut DEF Count
    <2>2. j \in 1..(MAX_PACKET + 1)
      BY <1>2, <1>3 DEF EndpointAssumption
    <2> QED BY <1>1, <2>1, <2>2 DEF Packet, APacket
  <1> QED
    BY <1>2, <1>3

\* The console takes a transfer to end just where its unit does.
LEMMA EndsWithUnit ==
  ASSUME EndpointAssumption, TypeOK, NEW n \in 1..Len(sent), NEW packets,
         Len(packets) \in 1..Count(n), packets[Len(packets)] = Packet(n, Len(packets))
  PROVE  Ends(packets) <=> Len(packets) = Count(n)
  <1>1. /\ role \in Roles /\ mps \in PacketSizes /\ mps \in Nat \ {0}
        /\ sent[n].len \in 0..MAX_PACKET /\ MAX_PACKET \in Nat
    BY Basics DEF EndpointAssumption
  <1> DEFINE j == Len(packets)
             l == PacketLen(sent[n].len, j)
  <1>2. packets[j].len = l /\ j \in 1..Packets(sent[n].len) /\ j \in Nat \ {0}
        /\ Packets(sent[n].len) \in Nat
    BY <1>1, PacketType DEF Packet, Count
  <1>3. /\ l \in 0..MAX_PACKET
        /\ j < Packets(sent[n].len) => l = mps /\ j * mps < MAX_PACKET
        /\ j = Packets(sent[n].len) =>
             role = "Relay" \/ l < mps \/ (j - 1) * mps + l >= MAX_PACKET
    BY <1>1, <1>2, Cut
  <1>4. Ends(packets) <=> role = "Relay" \/ l < mps \/ (j - 1) * mps + l >= MAX_PACKET
    BY <1>2 DEF Ends
  <1>5. role = "Relay" => j = Packets(sent[n].len)
    BY <1>2 DEF Packets
  <1> HIDE DEF j, l
  <1>6. ASSUME j < Packets(sent[n].len) PROVE ~(l < mps) /\ ~((j - 1) * mps + l >= MAX_PACKET)
    BY <1>1, <1>2, <1>3, <1>6
  <1>7. Ends(packets) <=> j = Packets(sent[n].len)
    BY <1>2, <1>3, <1>4, <1>5, <1>6
  <1> QED
    BY <1>7 DEF Count, j

\* The queue is one of numbers, whatever comes.
LEMMA NumbersQueued ==
  ASSUME EndpointAssumption, TypeOK
  PROVE  /\ queue \in Seq(Nat) /\ Len(sent) + 1 \in Nat /\ Len(queue) \in Nat
         /\ queue \in Seq(1..(Len(sent) + 1))
  <1>1. Len(sent) \in Nat
    BY Basics
  <1>2. 1..Len(sent) \subseteq Nat /\ 1..Len(sent) \subseteq 1..(Len(sent) + 1)
    BY <1>1
  <1>3. queue \in Seq(1..Len(sent)) /\ Len(queue) \in Nat
    BY Basics
  <1>4. queue \in Seq(Nat)
    BY <1>2, <1>3, SeqMonotonic
  <1>5. queue \in Seq(1..(Len(sent) + 1))
    BY <1>2, <1>3, SeqMonotonic
  <1>6. Len(sent) + 1 \in Nat
    BY <1>1
  <1> QED
    BY <1>3, <1>4, <1>5, <1>6

\* What is left of a queue when its head is taken.
LEMMA Taken ==
  ASSUME NEW S, NEW s \in Seq(S), s # <<>>
  PROVE  /\ Head(s) \in S /\ Tail(s) \in Seq(S) /\ Head(s) = s[1] /\ 1 \in 1..Len(s)
         /\ Len(s) \in Nat /\ Len(Tail(s)) = Len(s) - 1
         /\ \A k \in 1..Len(Tail(s)) : Tail(s)[k] = s[k + 1] /\ k + 1 \in 1..Len(s)
  <1>1. /\ Head(s) \in S /\ Tail(s) \in Seq(S) /\ Head(s) = s[1]
        /\ Len(s) \in Nat \ {0} /\ Len(Tail(s)) = Len(s) - 1
        /\ \A k \in 1..Len(Tail(s)) : Tail(s)[k] = s[k + 1]
    BY HeadTailProperties, LenProperties, EmptySeq
  <1> QED
    BY <1>1

\* One more unit changes nothing about the others.
LEMMA Pushed ==
  ASSUME EndpointAssumption, TypeOK, Known, NEW len \in Lengths, Push(len)
  PROVE  /\ sent' \in Seq(Unit) /\ Len(sent') = Len(sent) + 1 /\ Len(sent') <= MaxUnits
         /\ sent'[Len(sent) + 1] = [device |-> device, len |-> len]
         /\ \A n \in 1..Len(sent) : /\ sent'[n] = sent[n] /\ n \in 1..Len(sent')
                                    /\ Count(n)' = Count(n)
                                    /\ \A k : Packet(n, k)' = Packet(n, k)
  <1>1. /\ device \in 1..MaxDevices /\ Len(sent) < MaxUnits /\ UNCHANGED profile
        /\ sent' = Append(sent, [device |-> device, len |-> len])
    BY DEF Push, TypeOK, Known
  <1>2. [device |-> device, len |-> len] \in Unit /\ sent \in Seq(Unit) /\ Len(sent) \in Nat
    BY <1>1, Basics DEF Unit
  <1>3. /\ sent' \in Seq(Unit) /\ Len(sent') = Len(sent) + 1
        /\ sent'[Len(sent) + 1] = [device |-> device, len |-> len]
        /\ \A n \in 1..Len(sent) : sent'[n] = sent[n]
    BY <1>1, <1>2, AppendProperties
  <1>4. Len(sent') <= MaxUnits
    BY <1>1, <1>2, <1>3 DEF EndpointAssumption
  <1>5. ASSUME NEW n \in 1..Len(sent)
        PROVE  Count(n)' = Count(n) /\ \A k : Packet(n, k)' = Packet(n, k)
    BY <1>1, <1>3, <1>5 DEF Count, Packets, Packet, PacketLen, profile
  <1> QED
    BY <1>2, <1>3, <1>4, <1>5

-----------------------------------------------------------------------------
(* Types *)

Typed == TypeOK /\ Known /\ Writing

LEMMA TypeInit == ASSUME EndpointAssumption PROVE Init => Typed
  <1>1. Len(<<>>) = 0 /\ \A S : <<>> \in Seq(S)
    BY EmptySeq
  <1> QED
    BY <1>1 DEF Init, Typed, TypeOK, Known, Writing, Roles, NoPacket, EndpointAssumption

LEMMA LinkStep == ASSUME EndpointAssumption, TypeOK, [Next]_vars PROVE link' \in Seq({"awake", "gone"})
  <1>1. link \in Seq({"awake", "gone"})
    BY DEF TypeOK
  <1>2. CASE link' = link
    BY <1>1, <1>2
  <1>3. CASE link # <<>> /\ link' = Tail(link)
    BY <1>1, <1>3, Taken
  <1>4. CASE link' = <<"awake">> \/ link' = <<>>
    <2>1. <<"awake">> \in Seq({"awake", "gone"}) /\ <<>> \in Seq({"awake", "gone"})
      BY EmptySeq
    <2> QED BY <1>4, <2>1, Zenon
  <1>5. CASE link' = Append(link, "awake") \/ link' = Append(link, "gone")
    BY <1>1, <1>5, AppendProperties
  <1>6. \/ link' = link \/ (link # <<>> /\ link' = Tail(link))
        \/ link' = <<"awake">> \/ link' = <<>>
        \/ link' = Append(link, "awake") \/ link' = Append(link, "gone")
    BY Zenon DEF Next, Attach, Awake, Leave, Tell, Push, Boot, FollowOn, FollowOff, Forward,
       WaitEnabled, Take, WritePacket, WriteFailed, Reset, Configure, Poll, vars, backVars
  <1> QED
    BY <1>2, <1>3, <1>4, <1>5, <1>6

LEMMA TypedStep == ASSUME EndpointAssumption PROVE Typed /\ [Next]_vars => Typed'
  <1> SUFFICES ASSUME Typed, [Next]_vars PROVE Typed'
    OBVIOUS
  <1>a. TypeOK /\ Known /\ Writing
    BY DEF Typed
  <1>b. link' \in Seq({"awake", "gone"})
    BY <1>a, LinkStep, Zenon
  <1>1. TypeOK /\ Known /\ Writing /\ link' \in Seq({"awake", "gone"})
    BY <1>a, <1>b
  <1>2. /\ MaxDevices \in Nat /\ MaxResets \in Nat /\ MAX_PACKET \in Nat \ {0} /\ QUEUE_LEN \in Nat
        /\ device \in Nat /\ Len(sent) \in Nat /\ <<>> \in Seq(APacket) /\ Len(<<>>) = 0
    BY <1>1, Basics, EmptySeq DEF EndpointAssumption
  <1>3. ASSUME UNCHANGED <<role, mps, sent, writer, cur, part>> PROVE Writing'
    BY <1>1, <1>3 DEF Writing, Count, Packets
  <1>4. CASE Attach
    BY <1>1, <1>2, <1>3, <1>4 DEF Attach, Typed, TypeOK, Known, profile, writerVars, busVars, came
  <1>5. CASE Awake
    BY <1>1, <1>2, <1>3, <1>5 DEF Awake, Typed, TypeOK, Known, profile, writerVars, busVars, came
  <1>6. CASE Leave
    BY <1>1, <1>2, <1>3, <1>6 DEF Leave, Typed, TypeOK, Known, profile, writerVars, busVars, came
  <1>7. ASSUME NEW len \in Lengths, Push(len) PROVE Typed'
    <2>1. /\ sent' \in Seq(Unit) /\ Len(sent') = Len(sent) + 1 /\ Len(sent') <= MaxUnits
          /\ \A n \in 1..Len(sent) : n \in 1..Len(sent') /\ Count(n)' = Count(n)
      BY <1>1, <1>7, Pushed
    <2>2. queue' \in Seq(1..Len(sent')) /\ Len(queue') <= QUEUE_LEN
      <3>1. queue \in Seq(1..Len(sent')) /\ Len(queue) \in Nat /\ Len(sent) + 1 \in 1..Len(sent')
        <4>1. queue \in Seq(1..(Len(sent) + 1)) /\ Len(queue) \in Nat
          BY <1>1, NumbersQueued
        <4>2. Len(sent) + 1 \in 1..Len(sent')
          BY <1>2, <2>1
        <4> QED BY <2>1, <4>1, <4>2, Zenon
      <3>2. CASE Room
        <4>1. queue' = Append(queue, Len(sent) + 1) /\ Len(queue) < QUEUE_LEN
          BY <1>7, <3>2 DEF Push, Room
        <4>2. queue' \in Seq(1..Len(sent')) /\ Len(queue') = Len(queue) + 1
          BY <3>1, <4>1, AppendProperties
        <4> QED BY <1>2, <3>1, <4>1, <4>2
      <3>3. CASE ~Room
        BY <1>1, <1>7, <3>1, <3>3, Basics DEF Push
      <3> QED BY <3>2, <3>3
    <2>3. /\ UNCHANGED <<profile, device, backend, link, writerVars, busVars, buffer, rx, came>>
          /\ backend # "none"
      BY <1>7 DEF Push
    <2>8. cur \in 0..Len(sent)
      BY <1>1, Basics
    <2>4. Writing'
      <3>1. CASE writer = "write"
        <4>1. cur # 0 /\ part \in 1..Count(cur)
          BY <1>1, <3>1 DEF Writing
        <4>2. PICK n \in 1..Len(sent) : n = cur
          BY <1>2, <2>8, <4>1
        <4>3. Count(n)' = Count(n)
          BY <2>1
        <4>4. Count(cur)' = Count(n)'
          BY <2>3, <4>2 DEF writerVars, Count
        <4> QED BY <2>3, <4>1, <4>2, <4>3, <4>4 DEF Writing, writerVars
      <3> QED BY <2>3, <3>1 DEF Writing, writerVars
    <2>5. cur' \in 0..Len(sent')
      BY <1>2, <2>1, <2>3, <2>8 DEF writerVars
    <2>6. Known'
      BY <1>1, <2>3 DEF Known
    <2>7. TypeOK'
      BY <1>1, <2>1, <2>2, <2>3, <2>5 DEF TypeOK, profile, writerVars, busVars, came
    <2> QED BY <2>4, <2>6, <2>7 DEF Typed
  <1>8. CASE Boot
    BY <1>1, <1>2, <1>3, <1>8 DEF Boot, Typed, TypeOK, Known, profile, writerVars, came
  <1>9. CASE FollowOn
    BY <1>1, <1>2, <1>3, <1>9, EmptySeq DEF FollowOn, Typed, TypeOK, Known, profile, writerVars, came
  <1>10. CASE FollowOff
    BY <1>1, <1>2, <1>3, <1>10 DEF FollowOff, Typed, TypeOK, Known, profile, writerVars, came
  <1>11. CASE WaitEnabled
    BY <1>1, <1>2, <1>11 DEF WaitEnabled, Typed, TypeOK, Known, Writing, profile, backVars, busVars, came
  <1>12. CASE Take
    <2>a. queue \in Seq(1..Len(sent)) /\ queue # <<>> /\ Len(queue) <= QUEUE_LEN
      BY <1>1, <1>12, Basics DEF Take
    <2>b. /\ Head(queue) \in 1..Len(sent) /\ Tail(queue) \in Seq(1..Len(sent))
          /\ Len(queue) \in Nat /\ Len(Tail(queue)) = Len(queue) - 1
      BY <2>a, Taken
    <2>c. Len(Tail(queue)) <= QUEUE_LEN
      BY <1>2, <2>a, <2>b
    <2>1. /\ Head(queue) \in 1..Len(sent) /\ Tail(queue) \in Seq(1..Len(sent))
          /\ Len(Tail(queue)) <= QUEUE_LEN
      BY <2>b, <2>c
    <2>2. Count(Head(queue)) \in 1..(MAX_PACKET + 1)
      BY <1>1, <2>1, PacketType
    <2>3. /\ cur' = Head(queue) /\ part' = 1 /\ writer' = "write" /\ queue' = Tail(queue)
          /\ UNCHANGED <<profile, backVars, busVars, buffer, rx, came>>
      BY <1>12 DEF Take
    <2>4. Count(cur)' = Count(Head(queue)) /\ Head(queue) # 0
      BY <2>1, <2>3 DEF Count, Packets, profile, backVars
    <2>5. Writing' /\ Known'
      BY <1>1, <1>2, <2>2, <2>3, <2>4 DEF Writing, Known, backVars
    <2>6. TypeOK'
      BY <1>1, <1>2, <2>1, <2>3 DEF TypeOK, profile, backVars, busVars, came
    <2> QED BY <2>5, <2>6 DEF Typed
  <1>13. CASE WritePacket
    <2>1. /\ cur \in 1..Len(sent) /\ part \in 1..Count(cur) /\ Count(cur) \in 1..(MAX_PACKET + 1)
          /\ Packet(cur, part) \in APacket
      <3>1. writer = "write"
        BY <1>13 DEF WritePacket
      <3>2. cur # 0 /\ part \in 1..Count(cur)
        BY <1>1, <3>1 DEF Writing
      <3>3. cur \in 0..Len(sent)
        BY <1>1, Basics
      <3>4. cur \in 1..Len(sent)
        BY <1>2, <3>2, <3>3
      <3> QED BY <1>1, <3>2, <3>4, PacketType
    <2>2. /\ buffer' = <<Packet(cur, part)>> /\ buffer' \in Seq(APacket) /\ Len(buffer') = 1
      BY <1>13, <2>1 DEF WritePacket
    <2>3. /\ UNCHANGED <<profile, backVars, queue, busVars, rx, came>>
          /\ \/ /\ part < Count(cur) /\ part' = part + 1 /\ UNCHANGED <<writer, cur>>
             \/ writer' = "receive" /\ cur' = 0 /\ part' = 0
      BY <1>13 DEF WritePacket, Count
    <2>4. Count(cur)' = Count(cur) \/ writer' = "receive"
      BY <2>3 DEF Count, Packets, profile, backVars
    <2>5. Writing' /\ Known'
      BY <1>1, <1>2, <2>1, <2>3, <2>4 DEF Writing, Known, backVars
    <2>6. part' \in 0..(MAX_PACKET + 1) /\ cur' \in 0..Len(sent) /\ writer' \in {"receive", "write"}
          /\ (writer' = "write" => cur' # 0 /\ part' # 0)
      BY <1>1, <1>2, <1>13, <2>1, <2>3 DEF WritePacket
    <2>7. TypeOK'
      BY <1>1, <1>2, <2>2, <2>3, <2>6 DEF TypeOK, profile, backVars, busVars, came
    <2> QED BY <2>5, <2>7 DEF Typed
  <1>14. CASE WriteFailed
    BY <1>1, <1>2, <1>14 DEF WriteFailed, Typed, TypeOK, Known, Writing, profile, backVars, busVars, came
  <1>15. CASE Reset
    <2>1. resets' \in 0..MaxResets
      BY <1>1, <1>2, <1>15 DEF Reset, TypeOK
    <2> QED BY <1>1, <1>2, <1>3, <1>15, <2>1 DEF Reset, Typed, TypeOK, Known, NoPacket, profile, backVars,
              writerVars, came
  <1>16. CASE Configure
    BY <1>1, <1>2, <1>3, <1>16 DEF Configure, Typed, TypeOK, Known, profile, backVars, writerVars, came
  <1>17. CASE Poll
    <2>1. rx \o buffer \in Seq(APacket)
      BY <1>1, ConcatProperties DEF TypeOK
    <2>2. /\ buffer' = <<>> /\ rx' \in {<<>>, rx \o buffer} /\ got' \in {got, rx \o buffer}
          /\ gotFor' \in {gotFor, conn}
          /\ UNCHANGED <<profile, backVars, queue, writerVars, busVars>>
      BY <1>17 DEF Poll, NoPacket, came
    <2>5. rx' \in Seq(APacket) /\ got' \in Seq(APacket)
      BY <1>1, <1>2, <2>1, <2>2 DEF TypeOK
    <2>6. gotFor \in 0..conn /\ conn \in 0..device
      BY <1>1 DEF TypeOK
    <2>7. gotFor' \in 0..conn
      BY <1>2, <2>2, <2>6
    <2>3. rx' \in Seq(APacket) /\ got' \in Seq(APacket) /\ gotFor' \in 0..conn
      BY <2>5, <2>7
    <2>4. TypeOK'
      BY <1>1, <1>2, <2>2, <2>3 DEF TypeOK, profile, backVars, writerVars, busVars
    <2> QED BY <1>1, <1>3, <2>2, <2>4 DEF Typed, Known, profile, backVars, writerVars
  <1>18. CASE UNCHANGED vars
    BY <1>1, <1>3, <1>18 DEF vars, Typed, TypeOK, Known, profile, backVars, writerVars, busVars, came
  <1> QED
    BY <1>4, <1>5, <1>6, <1>7, <1>8, <1>9, <1>10, <1>11, <1>12, <1>13, <1>14, <1>15, <1>16,
       <1>17, <1>18, Zenon DEF Next, Forward
-----------------------------------------------------------------------------
(* Lemmas about what is in flight *)

\* As long as no unit comes and the profile stays, the packets are the same.
LEMMA SamePackets ==
  ASSUME UNCHANGED <<role, mps, sent>>
  PROVE  \A n : Count(n)' = Count(n) /\ \A k : Packet(n, k)' = Packet(n, k)
  BY DEF Count, Packets, Packet, PacketLen

\* How the operations of the endpoint change what is in flight.
LEMMA FlightSteps ==
  ASSUME EndpointAssumption, TypeOK
  PROVE  /\ Flight \in Seq(APacket) /\ Len(Flight) \in Nat
         /\ Flight # <<>> => Len(Flight) >= 1
         /\ rx = <<>> /\ buffer = <<>> => Flight = <<>>
         /\ WritePacket => Flight = rx /\ Flight' = Append(Flight, Packet(cur, part))
         /\ Poll => /\ Flight # <<>>
                    /\ Ends(Flight) => Flight' = <<>> /\ rx' = <<>> /\ got' = Flight /\ gotFor' = conn
                    /\ ~Ends(Flight) => Flight' = Flight /\ rx' = Flight /\ UNCHANGED came
  <1>1. rx \in Seq(APacket) /\ buffer \in Seq(APacket)
    BY Basics
  <1>2. Flight \in Seq(APacket) /\ (Flight = <<>> <=> rx = <<>> /\ buffer = <<>>)
    BY <1>1, ConcatProperties, ConcatEqualIffEmpty DEF Flight
  <1>3. Len(Flight) \in Nat /\ (Flight # <<>> => Len(Flight) >= 1)
    <2>1. Len(Flight) \in Nat /\ (Flight # <<>> => Len(Flight) \in Nat \ {0})
      BY <1>2, EmptySeq, LenProperties
    <2> QED BY <2>1
  <1>4. ASSUME WritePacket PROVE Flight = rx /\ Flight' = Append(Flight, Packet(cur, part))
    <2>1. buffer = <<>> /\ buffer' = <<Packet(cur, part)>> /\ rx' = rx
      BY <1>4 DEF WritePacket, NoPacket
    <2>2. Flight = rx
      BY <1>1, <2>1, ConcatEmptySeq DEF Flight
    <2>3. Append(rx, Packet(cur, part)) = rx \o <<Packet(cur, part)>>
      BY <1>1
    <2> QED BY <2>1, <2>2, <2>3 DEF Flight
  <1>5. ASSUME Poll
        PROVE  /\ Flight # <<>>
               /\ Ends(Flight) => Flight' = <<>> /\ rx' = <<>> /\ got' = Flight /\ gotFor' = conn
               /\ ~Ends(Flight) => Flight' = Flight /\ rx' = Flight /\ UNCHANGED came
    <2>1. /\ buffer # <<>> /\ buffer' = <<>>
          /\ IF Ends(Flight) THEN got' = Flight /\ gotFor' = conn /\ rx' = <<>>
             ELSE rx' = Flight /\ UNCHANGED came
      BY <1>5 DEF Poll, NoPacket, Flight
    <2>2. rx' \in Seq(APacket) /\ Flight' = rx' \o <<>>
      BY <1>2, <2>1, EmptySeq DEF Flight
    <2>3. Flight' = rx'
      BY <2>2, ConcatEmptySeq
    <2> QED BY <1>2, <2>1, <2>3
  <1> QED
    BY <1>2, <1>3, <1>4, <1>5

\* What the queue and the units are numbered with.
LEMMA Numbered ==
  ASSUME EndpointAssumption, TypeOK, Whole
  PROVE  /\ Len(sent) \in Nat /\ Len(queue) \in Nat /\ cur \in 0..Len(sent)
         /\ Came \in 0..Len(sent)
         /\ \A k \in 1..Len(queue) : queue[k] \in 1..Len(sent)
  <1>1. /\ Len(sent) \in Nat /\ Len(queue) \in Nat /\ cur \in 0..Len(sent)
        /\ \A k \in 1..Len(queue) : queue[k] \in 1..Len(sent)
    BY Basics
  <1>2. Came \in 0..Len(sent)
    <2>1. CASE got = <<>>
      BY <1>1, <2>1 DEF Came
    <2>2. CASE got # <<>>
      BY <1>1, <2>2 DEF Whole
    <2> QED BY <2>1, <2>2
  <1> QED
    BY <1>1, <1>2

\* A transfer ends when all the packets of the unit have come, and then
\* forward_in has gone on to the next one.
LEMMA PollEnds ==
  ASSUME EndpointAssumption, TypeOK, Writing, Stream, Poll
  PROVE  /\ Flight # <<>> /\ InFlight \in 1..Len(sent) /\ Came < InFlight /\ bus = "configured"
         /\ Count(InFlight) \in Nat
         /\ \A k \in 1..Len(queue) : InFlight < queue[k]
         /\ Ends(Flight) <=> Len(Flight) = Count(InFlight)
         /\ Ends(Flight) => (writer = "write" => InFlight < cur)
  <1>1. bus = "configured" /\ Flight # <<>>
    BY FlightSteps DEF Poll
  <1>2. /\ InFlight \in 1..Len(sent) /\ Came < InFlight /\ Len(Flight) <= Count(InFlight)
        /\ \A k \in 1..Len(Flight) : Flight[k] = Packet(InFlight, k)
        /\ \A k \in 1..Len(queue) : InFlight < queue[k]
        /\ IF writer = "write" /\ part > 1
           THEN Flight # <<>> /\ InFlight = cur /\ Len(Flight) = part - 1
           ELSE Len(Flight) = Count(InFlight) /\ (writer = "write" => InFlight < cur)
    BY <1>1 DEF Stream
  <1>3. Len(Flight) \in Nat /\ Len(Flight) >= 1
    BY <1>1, FlightSteps
  <1>4. Count(InFlight) \in Nat
    <2>1. Count(InFlight) \in 1..(MAX_PACKET + 1)
      BY <1>2, PacketType
    <2> QED BY <2>1 DEF EndpointAssumption
  <1>5. Len(Flight) \in 1..Count(InFlight) /\ Flight[Len(Flight)] = Packet(InFlight, Len(Flight))
    BY <1>2, <1>3, <1>4
  <1>6. Ends(Flight) <=> Len(Flight) = Count(InFlight)
    BY <1>2, <1>5, EndsWithUnit
  <1>7. CASE writer = "write" /\ part > 1
    <2>1. part \in 1..Count(InFlight) /\ Len(Flight) = part - 1
      BY <1>2, <1>7 DEF Writing
    <2>2. Len(Flight) # Count(InFlight)
      BY <1>4, <2>1
    <2> QED BY <1>1, <1>2, <1>4, <1>6, <2>2
  <1> QED
    BY <1>1, <1>2, <1>4, <1>6, <1>7

-----------------------------------------------------------------------------
(* The order of the units *)

LEMMA InLineStep ==
  ASSUME EndpointAssumption, TypeOK, Known, Writing, Whole, Stream, InLine, [Next]_vars
  PROVE  InLine'
  <1>1. /\ Len(sent) \in Nat /\ Len(queue) \in Nat /\ cur \in 0..Len(sent)
        /\ Came \in 0..Len(sent)
        /\ \A k \in 1..Len(queue) : queue[k] \in 1..Len(sent)
    BY Numbered
  <1>2. /\ Came <= Len(sent)
        /\ writer = "write" => Came < cur
        /\ \A k \in 1..Len(queue) : queue[k] > Came /\ (writer = "write" => queue[k] > cur)
        /\ \A k, l \in 1..Len(queue) : k < l => queue[k] < queue[l]
    BY DEF InLine
  <1>3. CASE UNCHANGED <<got, sent, writer, cur, queue>>
    BY <1>2, <1>3 DEF InLine, Came
  <1>4. ASSUME NEW len \in Lengths, Push(len) PROVE InLine'
    <2>1. Len(sent') = Len(sent) + 1
      BY <1>4, Pushed
    <2>2. UNCHANGED <<writer, cur>> /\ Came' = Came
      BY <1>4 DEF Push, writerVars, came, Came
    <2>3. CASE Room
      <3>1. queue' = Append(queue, Len(sent) + 1)
        BY <1>4, <2>3 DEF Push
      <3>2. queue \in Seq(Nat) /\ Len(sent) + 1 \in Nat
        BY NumbersQueued
      <3>3. /\ Len(queue') = Len(queue) + 1 /\ queue'[Len(queue) + 1] = Len(sent) + 1
            /\ \A k \in 1..Len(queue) : queue'[k] = queue[k]
        BY <3>1, <3>2, AppendProperties
      <3>4. \A k \in 1..Len(queue') : k \in 1..Len(queue) \/ k = Len(queue) + 1
        BY <1>1, <3>3
      <3>5. \A k \in 1..Len(queue') : queue'[k] > Came /\ (writer = "write" => queue'[k] > cur)
        BY <1>1, <1>2, <3>3, <3>4
      <3>6. \A k, l \in 1..Len(queue') : k < l => queue'[k] < queue'[l]
        BY <1>1, <1>2, <3>3, <3>4
      <3> QED BY <1>1, <1>2, <2>1, <2>2, <3>5, <3>6 DEF InLine
    <2>4. CASE ~Room
      BY <1>1, <1>2, <1>4, <2>1, <2>2, <2>4 DEF InLine, Push
    <2> QED BY <2>3, <2>4
  <1>5. CASE FollowOn
    <2>1. queue' = <<>> /\ UNCHANGED <<sent, writer, cur, got>>
      BY <1>5 DEF FollowOn, writerVars, came
    <2>2. Len(queue') = 0
      BY <2>1
    <2> QED BY <1>1, <1>2, <2>1, <2>2 DEF InLine, Came
  <1>6. CASE WaitEnabled \/ WriteFailed
    BY <1>1, <1>2, <1>6 DEF InLine, Came, WaitEnabled, WriteFailed, backVars, came
  <1>7. CASE Take
    <2>1. /\ queue # <<>> /\ queue' = Tail(queue) /\ cur' = Head(queue) /\ UNCHANGED <<sent, got>>
          /\ queue \in Seq(1..Len(sent))
      BY <1>7, Basics DEF Take, backVars, came
    <2>2. /\ cur' = queue[1] /\ 1 \in 1..Len(queue) /\ Len(queue') = Len(queue) - 1
          /\ \A k \in 1..Len(queue') : queue'[k] = queue[k + 1] /\ k + 1 \in 1..Len(queue)
      BY <2>1, Taken
    <2>3. Came < cur' /\ Came' = Came
      BY <1>1, <1>2, <2>1, <2>2 DEF Came
    <2>4. \A k \in 1..Len(queue') : queue'[k] > Came /\ queue'[k] > cur'
      BY <1>1, <1>2, <2>2
    <2>5. ASSUME NEW k \in 1..Len(queue'), NEW l \in 1..Len(queue'), k < l PROVE queue'[k] < queue'[l]
      <3>1. k + 1 \in 1..Len(queue) /\ l + 1 \in 1..Len(queue) /\ k + 1 < l + 1
        BY <1>1, <2>2, <2>5
      <3> QED BY <1>2, <2>2, <3>1
    <2> QED BY <1>1, <1>2, <2>1, <2>3, <2>4, <2>5 DEF InLine
  <1>8. CASE WritePacket
    <2>1. /\ UNCHANGED <<sent, got, queue>>
          /\ (writer' = writer /\ cur' = cur) \/ writer' = "receive"
      BY <1>8 DEF WritePacket, backVars, came
    <2> QED BY <1>1, <1>2, <2>1 DEF InLine, Came
  <1>9. CASE Poll
    <2>1. UNCHANGED <<sent, queue, writer, cur>>
      BY <1>9 DEF Poll, backVars, writerVars
    <2>2. CASE Ends(Flight)
      <3>1. got' = Flight /\ Flight # <<>>
        BY <1>9, <2>2, FlightSteps
      <3>2. Came' = InFlight
        BY <3>1 DEF Came, InFlight
      <3>3. /\ InFlight \in 1..Len(sent) /\ (writer = "write" => InFlight < cur)
            /\ \A k \in 1..Len(queue) : InFlight < queue[k]
        BY <1>9, <2>2, PollEnds
      <3> QED BY <1>1, <1>2, <2>1, <3>2, <3>3 DEF InLine
    <2>3. CASE ~Ends(Flight)
      BY <1>3, <1>9, <2>1, <2>3, FlightSteps DEF came
    <2> QED BY <2>2, <2>3
  <1>10. CASE Attach \/ Awake \/ Leave \/ Boot \/ FollowOff \/ Reset \/ Configure \/ UNCHANGED vars
    BY <1>3, <1>10 DEF Attach, Awake, Leave, Boot, FollowOff, Reset, Configure, vars, backVars,
       writerVars, came
  <1> QED
    BY <1>4, <1>5, <1>6, <1>7, <1>8, <1>9, <1>10, Zenon DEF Next, Forward
-----------------------------------------------------------------------------
(* What is in flight, and what has come *)

LEMMA WholeStep ==
  ASSUME EndpointAssumption, TypeOK, Known, Writing, Whole, Stream, [Next]_vars
  PROVE  Whole'
  <1>1. got # <<>> => /\ Came \in 1..Len(sent) /\ Len(got) = Count(Came)
                      /\ \A k \in 1..Len(got) : got[k] = Packet(Came, k)
    BY DEF Whole
  <1>2. CASE UNCHANGED <<got, sent, role, mps>>
    <2>1. Came' = Came
      BY <1>2 DEF Came
    <2>2. Count(Came)' = Count(Came) /\ \A k : Packet(Came, k)' = Packet(Came, k)
      BY <1>2, <2>1 DEF Count, Packet, Packets, PacketLen
    <2> QED BY <1>1, <1>2, <2>1, <2>2 DEF Whole
  <1>3. ASSUME NEW len \in Lengths, Push(len) PROVE Whole'
    <2>1. got' = got /\ Came' = Came
      BY <1>3 DEF Push, came, Came
    <2>2. CASE got # <<>>
      <3>1. PICK n \in 1..Len(sent) : n = Came
        BY <1>1, <2>2
      <3>2. n \in 1..Len(sent') /\ Count(n)' = Count(n) /\ \A k : Packet(n, k)' = Packet(n, k)
        BY <1>3, Pushed
      <3>3. Count(Came)' = Count(n)' /\ \A k : Packet(Came, k)' = Packet(n, k)'
        BY <2>1, <3>1 DEF Count, Packet
      <3> QED BY <1>1, <2>1, <2>2, <3>1, <3>2, <3>3 DEF Whole
    <2> QED BY <2>1, <2>2 DEF Whole
  <1>4. CASE Poll
    <2>1. UNCHANGED <<role, mps, sent>>
      BY <1>4 DEF Poll, backVars, profile
    <2>2. CASE Ends(Flight)
      <3>1. got' = Flight /\ Flight # <<>>
        BY <1>4, <2>2, FlightSteps
      <3>2. Came' = InFlight
        BY <3>1 DEF Came, InFlight
      <3>3. InFlight \in 1..Len(sent) /\ Len(Flight) = Count(InFlight) /\ bus = "configured"
        BY <1>4, <2>2, PollEnds
      <3>4. \A k \in 1..Len(Flight) : Flight[k] = Packet(InFlight, k)
        BY <3>1, <3>3 DEF Stream
      <3>5. Count(Came)' = Count(InFlight) /\ \A k : Packet(Came, k)' = Packet(InFlight, k)
        BY <2>1, <3>2 DEF Count, Packet, Packets, PacketLen
      <3> QED BY <2>1, <3>1, <3>2, <3>3, <3>4, <3>5 DEF Whole
    <2>3. CASE ~Ends(Flight)
      BY <1>2, <1>4, <2>1, <2>3, FlightSteps DEF came
    <2> QED BY <2>2, <2>3
  <1>5. CASE Attach \/ Awake \/ Leave \/ Boot \/ FollowOn \/ FollowOff \/ Forward \/ Reset
             \/ Configure \/ UNCHANGED vars
    BY <1>2, <1>5 DEF Attach, Awake, Leave, Boot, FollowOn, FollowOff, Forward, WaitEnabled, Take,
       WritePacket, WriteFailed, Reset, Configure, vars, backVars, profile, came
  <1> QED
    BY <1>3, <1>4, <1>5, Zenon DEF Next

LEMMA EmptiedStep ==
  ASSUME Emptied, [Next]_vars
  PROVE  Emptied'
  <1>1. CASE UNCHANGED <<bus, enabled, buffer, rx>>
    BY <1>1 DEF Emptied
  <1>2. CASE Attach \/ Awake \/ Leave \/ WaitEnabled \/ Take \/ WriteFailed \/ UNCHANGED vars
             \/ \E len \in Lengths : Push(len)
    BY <1>1, <1>2 DEF Attach, Awake, Leave, WaitEnabled, Take, WriteFailed, Push, vars, busVars
  <1>3. CASE Boot \/ FollowOn \/ FollowOff \/ Configure
    BY <1>3 DEF Boot, FollowOn, FollowOff, Configure, Emptied
  <1>4. CASE WritePacket
    BY <1>4 DEF WritePacket, busVars, Emptied
  <1>5. CASE Reset
    BY <1>5 DEF Reset, NoPacket, Emptied
  <1>6. CASE Poll
    BY <1>6 DEF Poll, busVars, Emptied
  <1> QED
    BY <1>2, <1>3, <1>4, <1>5, <1>6, Zenon DEF Next, Forward

LEMMA StreamStep ==
  ASSUME EndpointAssumption, TypeOK, Known, Writing, Whole, InLine, Emptied, Stream, [Next]_vars
  PROVE  Stream'
  <1>1. /\ Len(sent) \in Nat /\ Len(queue) \in Nat /\ cur \in 0..Len(sent)
        /\ Came \in 0..Len(sent)
        /\ \A k \in 1..Len(queue) : queue[k] \in 1..Len(sent)
        /\ Flight \in Seq(APacket) /\ Len(Flight) \in Nat /\ (Flight # <<>> => Len(Flight) >= 1)
        /\ part \in Nat
    BY Numbered, FlightSteps, Basics
  <1>2. CASE bus' # "configured"
    BY <1>2 DEF Stream
  <1>3. CASE UNCHANGED <<role, mps, sent, bus, enabled, rx, buffer, got, queue, writer, cur, part>>
    <2>1. Came' = Came /\ Flight' = Flight /\ InFlight' = InFlight
      BY <1>3 DEF Came, Flight, InFlight
    <2>2. Count(InFlight)' = Count(InFlight) /\ \A k : Packet(InFlight, k)' = Packet(InFlight, k)
      BY <1>3, <2>1 DEF Count, Packet, Packets, PacketLen
    <2> QED BY <1>3, <2>1, <2>2 DEF Stream
  <1>4. ASSUME NEW len \in Lengths, Push(len), bus' = "configured" PROVE Stream'
    <2>1. UNCHANGED <<bus, enabled, rx, buffer, got, writer, cur, part>>
      BY <1>4 DEF Push, busVars, writerVars, came
    <2>2. Came' = Came /\ Flight' = Flight /\ InFlight' = InFlight
      BY <2>1 DEF Came, Flight, InFlight
    <2>3. CASE Flight = <<>>
      BY <1>4, <2>1, <2>2, <2>3 DEF Stream
    <2>4. CASE Flight # <<>>
      <3>1. /\ enabled = "yes"
            /\ InFlight \in 1..Len(sent) /\ Came < InFlight
            /\ Len(rx) < Count(InFlight) /\ Len(Flight) <= Count(InFlight)
            /\ \A k \in 1..Len(Flight) : Flight[k] = Packet(InFlight, k)
            /\ \A k \in 1..Len(queue) : InFlight < queue[k]
            /\ IF writer = "write" /\ part > 1
               THEN Flight # <<>> /\ InFlight = cur /\ Len(Flight) = part - 1
               ELSE Flight # <<>> =>
                      Len(Flight) = Count(InFlight) /\ (writer = "write" => InFlight < cur)
        BY <1>4, <2>1, <2>4 DEF Stream
      <3>2. PICK n \in 1..Len(sent) : n = InFlight
        BY <3>1
      <3>3. n \in 1..Len(sent') /\ Count(n)' = Count(n) /\ \A k : Packet(n, k)' = Packet(n, k)
        BY <1>4, Pushed
      <3>4. Count(InFlight)' = Count(n)' /\ \A k : Packet(InFlight, k)' = Packet(n, k)'
        BY <2>2, <3>2 DEF Count, Packet
      <3>5. \A k \in 1..Len(queue') : n < queue'[k]
        <4>1. CASE Room
          <5>1. queue' = Append(queue, Len(sent) + 1)
            BY <1>4, <4>1 DEF Push
          <5>2. queue \in Seq(Nat) /\ Len(sent) + 1 \in Nat
            BY NumbersQueued
          <5>3. /\ Len(queue') = Len(queue) + 1 /\ queue'[Len(queue) + 1] = Len(sent) + 1
                /\ \A k \in 1..Len(queue) : queue'[k] = queue[k]
            BY <5>1, <5>2, AppendProperties
          <5>4. \A k \in 1..Len(queue') : k \in 1..Len(queue) \/ k = Len(queue) + 1
            BY <1>1, <5>3
          <5> QED BY <1>1, <3>1, <3>2, <5>3, <5>4
        <4>2. CASE ~Room
          BY <1>4, <3>1, <3>2, <4>2 DEF Push
        <4> QED BY <4>1, <4>2
      <3> QED BY <2>1, <2>2, <2>4, <3>1, <3>2, <3>3, <3>4, <3>5 DEF Stream
    <2> QED BY <2>3, <2>4
  <1>5. CASE Boot \/ FollowOn \/ FollowOff \/ Reset
    BY <1>5 DEF Boot, FollowOn, FollowOff, Reset, Stream
  <1>6. ASSUME WaitEnabled \/ WriteFailed, bus' = "configured" PROVE Stream'
    <2>1. UNCHANGED <<role, mps, sent, bus, enabled, rx, buffer, got, queue>>
          /\ writer # "receive" /\ writer' # "write"
      BY <1>6 DEF WaitEnabled, WriteFailed, profile, backVars, busVars, came
    <2>2. Came' = Came /\ Flight' = Flight /\ InFlight' = InFlight
      BY <2>1 DEF Came, Flight, InFlight
    <2>3. Count(InFlight)' = Count(InFlight) /\ \A k : Packet(InFlight, k)' = Packet(InFlight, k)
      BY <2>1, <2>2 DEF Count, Packet, Packets, PacketLen
    <2>4. enabled = "yes" /\ writer # "write"
      BY <1>6, <2>1 DEF WaitEnabled, WriteFailed, Stream
    <2> QED BY <1>6, <2>1, <2>2, <2>3, <2>4 DEF Stream
  <1>7. ASSUME Take, bus' = "configured" PROVE Stream'
    <2>1. /\ UNCHANGED <<role, mps, sent, bus, enabled, rx, buffer, got>>
          /\ writer = "receive" /\ queue # <<>> /\ writer' = "write"
          /\ queue' = Tail(queue) /\ cur' = Head(queue) /\ part' = 1
      BY <1>7 DEF Take, profile, backVars, busVars, came
    <2>2. Came' = Came /\ Flight' = Flight /\ InFlight' = InFlight
      BY <2>1 DEF Came, Flight, InFlight
    <2>3. Count(InFlight)' = Count(InFlight) /\ \A k : Packet(InFlight, k)' = Packet(InFlight, k)
      BY <2>1, <2>2 DEF Count, Packet, Packets, PacketLen
    <2>4. queue \in Seq(1..Len(sent))
      BY Basics
    <2>5. /\ cur' = queue[1] /\ 1 \in 1..Len(queue)
          /\ \A k \in 1..Len(queue') : queue'[k] = queue[k + 1] /\ k + 1 \in 1..Len(queue)
      BY <2>1, <2>4, Taken
    <2>6. Flight # <<>> => InFlight < cur' /\ \A k \in 1..Len(queue') : InFlight < queue'[k]
      BY <1>7, <2>1, <2>5 DEF Stream
    <2>7. ~(part' > 1)
      BY <2>1
    <2> QED BY <1>7, <2>1, <2>2, <2>3, <2>6, <2>7 DEF Stream
  <1>8. ASSUME WritePacket, bus' = "configured" PROVE Stream'
    <2>1. /\ UNCHANGED <<role, mps, sent, queue, bus, enabled, rx, got>>
          /\ writer = "write"
          /\ IF part < Count(cur) THEN part' = part + 1 /\ UNCHANGED <<writer, cur>>
             ELSE writer' = "receive"
      BY <1>8 DEF WritePacket, Count, profile, backVars, busVars, came
    <2>2. Flight = rx /\ Flight' = Append(Flight, Packet(cur, part))
      BY <1>8, FlightSteps
    <2>3. /\ cur \in 1..Len(sent) /\ part \in 1..Count(cur) /\ Came < cur
          /\ \A k \in 1..Len(queue) : cur < queue[k]
      BY <1>1, <2>1 DEF Writing, InLine
    <2>4. Packet(cur, part) \in APacket /\ Count(cur) \in Nat
      <3>1. Count(cur) \in 1..(MAX_PACKET + 1) /\ Packet(cur, part) \in APacket
        BY <2>3, PacketType
      <3> QED BY <3>1 DEF EndpointAssumption
    <2>5. /\ Len(Flight') = Len(Flight) + 1 /\ Flight'[Len(Flight) + 1] = Packet(cur, part)
          /\ \A k \in 1..Len(Flight) : Flight'[k] = Flight[k]
      BY <1>1, <2>2, <2>4, AppendProperties
    <2>6. Len(Flight) = part - 1 /\ \A k \in 1..Len(Flight) : Flight[k] = Packet(cur, k)
      <3>1. CASE Flight = <<>>
        <4>1. ~(part > 1)
          BY <1>8, <2>1, <3>1 DEF Stream
        <4>2. Len(Flight) = 0
          BY <3>1
        <4> QED BY <1>1, <2>3, <2>4, <4>1, <4>2
      <3>2. CASE Flight # <<>>
        <4>1. Len(Flight) < Count(InFlight) /\ InFlight \in 1..Len(sent)
              /\ \A k \in 1..Len(Flight) : Flight[k] = Packet(InFlight, k)
          BY <1>8, <2>1, <2>2, <3>2 DEF Stream
        <4>2. Count(InFlight) \in 1..(MAX_PACKET + 1)
          BY <4>1, PacketType
        <4>3. Len(Flight) # Count(InFlight)
          BY <1>1, <4>1, <4>2 DEF EndpointAssumption
        <4>4. InFlight = cur /\ Len(Flight) = part - 1
          BY <1>8, <2>1, <3>2, <4>3 DEF Stream
        <4> QED BY <4>1, <4>4
      <3> QED BY <3>1, <3>2
    <2>7. /\ Len(Flight') = part /\ Flight' # <<>>
          /\ \A k \in 1..Len(Flight') : Flight'[k] = Packet(cur, k)
      <3>1. Len(Flight') = part /\ part >= 1 /\ part \in Nat
        BY <1>1, <2>3, <2>4, <2>5, <2>6
      <3>2. Flight' # <<>>
        BY <3>1
      <3>3. \A k \in 1..part : k \in 1..Len(Flight) \/ k = part
        BY <1>1, <2>6, <3>1
      <3>4. Flight'[part] = Packet(cur, part)
        BY <1>1, <2>5, <2>6
      <3> QED BY <2>5, <2>6, <3>1, <3>2, <3>3, <3>4
    <2>8. InFlight' = cur
      <3>1. Flight'[1] = Packet(cur, 1)
        BY <1>1, <2>3, <2>4, <2>7
      <3>2. Packet(cur, 1).unit = cur
        BY DEF Packet
      <3> QED BY <2>7, <3>1, <3>2 DEF InFlight
    <2>9. Came' = Came
      BY <2>1 DEF Came
    <2>10. Count(InFlight)' = Count(cur) /\ \A k : Packet(InFlight, k)' = Packet(cur, k)
      BY <2>1, <2>8 DEF Count, Packet, Packets, PacketLen
    <2>11. Len(rx') < Count(cur) /\ Len(Flight') <= Count(cur)
      BY <1>1, <2>1, <2>2, <2>3, <2>4, <2>6, <2>7
    <2>12. IF writer' = "write" /\ part' > 1
           THEN cur = cur' /\ Len(Flight') = part' - 1
           ELSE Len(Flight') = Count(cur) /\ writer' # "write"
      BY <1>1, <2>1, <2>3, <2>4, <2>7
    <2>13. enabled' = "yes"
      BY <1>8, <2>1 DEF WritePacket
    <2> QED BY <2>1, <2>3, <2>7, <2>8, <2>9, <2>10, <2>11, <2>12, <2>13 DEF Stream
  <1>9. CASE Configure
    <2>1. /\ bus = "reset" /\ writer # "write" /\ enabled' = "yes"
          /\ UNCHANGED <<writer, rx, buffer>>
      BY <1>9 DEF Configure, writerVars
    <2>2. Flight = <<>>
      BY <2>1, FlightSteps DEF Emptied
    <2>3. Flight' = <<>>
      BY <2>1, <2>2 DEF Flight
    <2> QED BY <2>1, <2>3 DEF Stream
  <1>10. CASE Poll
    <2>1. UNCHANGED <<role, mps, sent, queue, bus, enabled, writer, cur, part>>
          /\ bus = "configured"
      BY <1>10 DEF Poll, profile, backVars, busVars, writerVars
    <2>2. /\ Flight # <<>> /\ (Ends(Flight) <=> Len(Flight) = Count(InFlight))
          /\ InFlight \in 1..Len(sent) /\ Count(InFlight) \in Nat
      BY <1>10, PollEnds
    <2>3. /\ enabled = "yes" /\ Came < InFlight
          /\ Len(Flight) <= Count(InFlight)
          /\ \A k \in 1..Len(Flight) : Flight[k] = Packet(InFlight, k)
          /\ \A k \in 1..Len(queue) : InFlight < queue[k]
          /\ IF writer = "write" /\ part > 1
             THEN InFlight = cur /\ Len(Flight) = part - 1
             ELSE Len(Flight) = Count(InFlight) /\ (writer = "write" => InFlight < cur)
      BY <2>1, <2>2 DEF Stream
    <2>4. CASE Ends(Flight)
      <3>1. Flight' = <<>>
        BY <1>10, <2>4, FlightSteps
      <3>2. ~(writer = "write" /\ part > 1)
        <4>1. ASSUME writer = "write", part > 1 PROVE FALSE
          <5>1. part \in 1..Count(InFlight) /\ Len(Flight) = part - 1
            BY <2>3, <4>1 DEF Writing
          <5> QED BY <2>2, <2>4, <5>1
        <4> QED BY <4>1
      <3> QED BY <2>1, <2>3, <3>1, <3>2 DEF Stream
    <2>5. CASE ~Ends(Flight)
      <3>1. Flight' = Flight /\ rx' = Flight /\ got' = got
        BY <1>10, <2>5, FlightSteps DEF came
      <3>2. InFlight' = InFlight /\ Came' = Came
        BY <3>1 DEF InFlight, Came
      <3>3. Count(InFlight)' = Count(InFlight) /\ \A k : Packet(InFlight, k)' = Packet(InFlight, k)
        BY <2>1, <3>2 DEF Count, Packet, Packets, PacketLen
      <3>4. Len(Flight) < Count(InFlight)
        BY <1>1, <2>2, <2>3, <2>5
      <3> QED BY <2>1, <2>2, <2>3, <3>1, <3>2, <3>3, <3>4 DEF Stream
    <2> QED BY <2>4, <2>5
  <1>11. CASE Attach \/ Awake \/ Leave \/ UNCHANGED vars
    BY <1>3, <1>11 DEF Attach, Awake, Leave, vars, backVars, writerVars, busVars, profile, came
  <1> QED
    BY <1>2, <1>4, <1>5, <1>6, <1>7, <1>8, <1>9, <1>10, <1>11, Zenon DEF Next, Forward
-----------------------------------------------------------------------------
(* The wheel the console is connected for *)

LEMMA FollowedStep ==
  ASSUME EndpointAssumption, TypeOK, Known, Writing, Whole, Emptied, Stream, Followed, [Next]_vars
  PROVE  Followed'
  <1>1. role' = role
    BY Zenon DEF Next, Attach, Awake, Leave, Push, Boot, FollowOn, FollowOff, Forward,
       WaitEnabled, Take, WritePacket, WriteFailed, Reset, Configure, Poll, vars, profile
  <1> SUFFICES ASSUME role = "Wheel" PROVE Followed'
    BY <1>1 DEF Followed
  <1>2. /\ Len(sent) \in Nat /\ Len(queue) \in Nat /\ cur \in 0..Len(sent)
        /\ \A k \in 1..Len(queue) : queue[k] \in 1..Len(sent)
        /\ device \in Nat /\ conn \in Nat
        /\ \A n \in 1..Len(sent) : sent[n].device \in 1..MaxDevices
        /\ MaxDevices \in Nat
    BY Basics DEF EndpointAssumption
  <1>3. \A n \in 1..Len(sent) : sent[n].device <= device
    BY DEF Followed
  <1>4. bus # "off" => conn = device /\ conn # 0
    BY DEF Followed
  <1>5. conn = 0 => got = <<>>
    BY DEF Followed
  <1>6. bus # "off" /\ conn # first => \A k \in 1..Len(queue) : sent[queue[k]].device = conn
    BY DEF Followed
  <1>7. bus = "configured" /\ conn # first =>
          /\ writer = "write" => sent[cur].device = conn
          /\ Flight # <<>> => sent[InFlight].device = conn
    BY DEF Followed
  <1>8. CASE Attach
    <2>1. /\ bus = "off" /\ bus' = bus /\ device' = device + 1 /\ sent' = sent /\ conn' = conn
          /\ got' = got
      BY <1>8 DEF Attach, busVars, came
    <2>2. \A n \in 1..Len(sent) : sent[n].device <= device + 1
      BY <1>2, <1>3
    <2> QED BY <1>5, <2>1, <2>2 DEF Followed
  <1>9. CASE UNCHANGED <<sent, device, bus, conn, first, got, queue, writer, cur, rx, buffer>>
    BY <1>3, <1>4, <1>5, <1>6, <1>7, <1>9 DEF Followed, Flight, InFlight
  <1>10. ASSUME NEW len \in Lengths, Push(len) PROVE Followed'
    <2>1. /\ UNCHANGED <<device, bus, conn, first, got, writer, cur, rx, buffer>>
          /\ device \in Nat
      BY <1>2, <1>10 DEF Push, writerVars, busVars, came
    <2>2. Flight' = Flight /\ InFlight' = InFlight
      BY <2>1 DEF Flight, InFlight
    <2>8. /\ Len(sent') = Len(sent) + 1
          /\ sent'[Len(sent) + 1] = [device |-> device, len |-> len]
          /\ \A n \in 1..Len(sent) : sent'[n] = sent[n]
      BY <1>10, Pushed
    <2>3. /\ Len(sent') = Len(sent) + 1 /\ sent'[Len(sent) + 1].device = device
          /\ \A n \in 1..Len(sent) : sent'[n] = sent[n]
      BY <2>8
    <2>4. \A n \in 1..Len(sent') : n \in 1..Len(sent) \/ n = Len(sent) + 1
      BY <1>2, <2>3
    <2>5. \A n \in 1..Len(sent') : sent'[n].device <= device
      BY <1>2, <1>3, <2>3, <2>4
    <2>6. ASSUME bus # "off", conn # first
          PROVE  \A k \in 1..Len(queue') : sent'[queue'[k]].device = conn
      <3>1. \A k \in 1..Len(queue) : sent'[queue[k]].device = conn
        BY <1>2, <1>6, <2>3, <2>6
      <3>2. CASE Room
        <4>1. queue' = Append(queue, Len(sent) + 1)
          BY <1>10, <3>2 DEF Push
        <4>2. queue \in Seq(Nat) /\ Len(sent) + 1 \in Nat
          BY NumbersQueued
        <4>3. /\ Len(queue') = Len(queue) + 1 /\ queue'[Len(queue) + 1] = Len(sent) + 1
              /\ \A k \in 1..Len(queue) : queue'[k] = queue[k]
          BY <4>1, <4>2, AppendProperties
        <4>4. \A k \in 1..Len(queue') : k \in 1..Len(queue) \/ k = Len(queue) + 1
          BY <1>2, <4>3
        <4>5. sent'[queue'[Len(queue) + 1]].device = conn
          BY <1>4, <2>3, <2>6, <4>3
        <4> QED BY <3>1, <4>3, <4>4, <4>5
      <3>3. CASE ~Room
        BY <1>10, <3>1, <3>3 DEF Push
      <3> QED BY <3>2, <3>3
    <2>7. ASSUME bus = "configured", conn # first
          PROVE  /\ writer = "write" => sent'[cur].device = conn
                 /\ Flight # <<>> => sent'[InFlight].device = conn
      <3>1. writer = "write" => cur \in 1..Len(sent)
        BY <1>2 DEF Writing
      <3>2. Flight # <<>> => InFlight \in 1..Len(sent)
        BY <2>7 DEF Stream
      <3> QED BY <1>7, <2>3, <2>7, <3>1, <3>2
    <2> QED BY <1>4, <1>5, <2>1, <2>2, <2>5, <2>6, <2>7 DEF Followed
  <1>11. CASE Boot
    <2>1. /\ UNCHANGED <<sent, device>> /\ bus' = "attached" /\ conn' = device /\ first' = device
          /\ link # <<>>
      BY <1>11 DEF Boot
    <2>2. device # 0
      BY <2>1 DEF Known
    <2> QED BY <1>3, <2>1, <2>2 DEF Followed
  <1>12. CASE FollowOn
    <2>1. /\ UNCHANGED <<sent, device>> /\ bus' = "attached" /\ conn' = device /\ queue' = <<>>
          /\ link # <<>>
      BY <1>12 DEF FollowOn
    <2>2. device # 0 /\ Len(queue') = 0
      BY <2>1 DEF Known
    <2> QED BY <1>3, <2>1, <2>2 DEF Followed
  <1>13. CASE FollowOff
    BY <1>3, <1>5, <1>13 DEF FollowOff, Followed, came
  <1>14. CASE WaitEnabled \/ WriteFailed
    BY <1>3, <1>4, <1>5, <1>6, <1>7, <1>14
       DEF WaitEnabled, WriteFailed, Followed, Flight, InFlight, backVars, busVars, came
  <1>15. CASE Take
    <2>1. /\ UNCHANGED <<sent, device, bus, conn, first, got, rx, buffer>>
          /\ queue # <<>> /\ queue' = Tail(queue) /\ cur' = Head(queue)
      BY <1>15 DEF Take, backVars, busVars, came
    <2>2. Flight' = Flight /\ InFlight' = InFlight
      BY <2>1 DEF Flight, InFlight
    <2>3. queue \in Seq(1..Len(sent))
      BY Basics
    <2>4. /\ cur' = queue[1] /\ 1 \in 1..Len(queue)
          /\ \A k \in 1..Len(queue') : queue'[k] = queue[k + 1] /\ k + 1 \in 1..Len(queue)
      BY <2>1, <2>3, Taken
    <2>5. bus # "off" /\ conn # first =>
            /\ sent[cur'].device = conn
            /\ \A k \in 1..Len(queue') : sent[queue'[k]].device = conn
      BY <1>6, <2>4
    <2> QED BY <1>3, <1>4, <1>5, <1>7, <2>1, <2>2, <2>5 DEF Followed
  <1>16. CASE WritePacket
    <2>1. /\ UNCHANGED <<sent, device, bus, conn, first, got, queue>>
          /\ writer = "write" /\ (cur' = cur \/ writer' = "receive")
      BY <1>16 DEF WritePacket, backVars, busVars, came
    <2>2. Flight' = Append(Flight, Packet(cur, part)) /\ Flight \in Seq(APacket)
      BY <1>16, FlightSteps
    <2>3. Packet(cur, part) \in APacket /\ Packet(cur, part).unit = cur
      <3>1. cur \in 1..Len(sent) /\ part \in 1..Count(cur)
        BY <1>2, <2>1 DEF Writing
      <3>2. Packet(cur, part) \in APacket
        BY <3>1, PacketType
      <3> QED BY <3>2 DEF Packet
    <2>4. Flight' # <<>> /\ Flight'[1] = IF Flight = <<>> THEN Packet(cur, part) ELSE Flight[1]
      <3>1. /\ Len(Flight) \in Nat /\ (Flight # <<>> => Len(Flight) >= 1)
            /\ (Flight = <<>> => Len(Flight) = 0)
        BY FlightSteps
      <3>2. /\ Len(Flight') = Len(Flight) + 1 /\ Flight'[Len(Flight) + 1] = Packet(cur, part)
            /\ \A k \in 1..Len(Flight) : Flight'[k] = Flight[k]
        BY <2>2, <2>3, AppendProperties
      <3>3. Flight' # <<>>
        BY <3>1, <3>2
      <3>4. CASE Flight = <<>>
        BY <3>1, <3>2, <3>3, <3>4
      <3>5. CASE Flight # <<>>
        <4>1. 1 \in 1..Len(Flight)
          BY <3>1, <3>5
        <4> QED BY <3>2, <3>3, <3>5, <4>1
      <3> QED BY <3>4, <3>5
    <2>5. InFlight' = IF Flight = <<>> THEN cur ELSE InFlight
      BY <2>3, <2>4 DEF InFlight
    <2>6. bus = "configured" /\ conn # first => sent[InFlight'].device = conn
      BY <1>7, <2>1, <2>5
    <2> QED BY <1>3, <1>4, <1>5, <1>6, <1>7, <2>1, <2>6 DEF Followed
  <1>17. CASE Reset
    BY <1>3, <1>4, <1>5, <1>6, <1>17 DEF Reset, Followed, backVars, came
  <1>18. CASE Configure
    <2>1. /\ UNCHANGED <<sent, device, conn, first, got, queue, writer, rx, buffer>>
          /\ bus = "reset" /\ writer # "write"
      BY <1>18 DEF Configure, backVars, writerVars, came
    <2>2. Flight = <<>>
      BY <2>1, FlightSteps DEF Emptied
    <2>3. Flight' = <<>>
      BY <2>1, <2>2 DEF Flight
    <2> QED BY <1>3, <1>4, <1>5, <1>6, <2>1, <2>3 DEF Followed
  <1>19. CASE Poll
    <2>1. /\ UNCHANGED <<sent, device, bus, conn, first, queue, writer, cur>>
          /\ bus = "configured"
      BY <1>19 DEF Poll, backVars, busVars, writerVars
    <2>2. Flight' = <<>> \/ Flight' = Flight
      BY <1>19, FlightSteps
    <2>3. Flight' # <<>> => Flight # <<>> /\ InFlight' = InFlight
      BY <2>2 DEF InFlight
    <2> QED BY <1>3, <1>4, <1>6, <1>7, <2>1, <2>3 DEF Followed
  <1>20. CASE Awake \/ Leave \/ UNCHANGED vars
    BY <1>9, <1>20 DEF Awake, Leave, vars, backVars, writerVars, busVars, came
  <1> QED
    BY <1>8, <1>10, <1>11, <1>12, <1>13, <1>14, <1>15, <1>16, <1>17, <1>18, <1>19, <1>20, Zenon
       DEF Next, Forward

LEMMA NothingOldStep ==
  ASSUME EndpointAssumption, TypeOK, Known, Writing, Whole, Stream, Followed, NothingOld, [Next]_vars
  PROVE  NothingOld'
  <1>1. CASE UNCHANGED <<role, sent, got, gotFor, first>>
    BY <1>1 DEF NothingOld
  <1>2. ASSUME NEW len \in Lengths, Push(len) PROVE NothingOld'
    <2>1. UNCHANGED <<role, got, gotFor, first>>
      BY <1>2 DEF Push, profile, busVars, came
    <2>2. CASE got # <<>>
      <3>1. got[1].unit \in 1..Len(sent)
        BY <2>2 DEF Whole, Came
      <3>2. sent'[got[1].unit] = sent[got[1].unit]
        BY <1>2, <3>1, Pushed
      <3> QED BY <2>1, <2>2, <3>2 DEF NothingOld
    <2> QED BY <2>1, <2>2 DEF NothingOld
  <1>3. CASE Boot
    BY <1>1, <1>3 DEF Boot, Followed, NothingOld, profile, came
  <1>4. CASE Poll
    <2>1. UNCHANGED <<role, sent, first>> /\ bus = "configured"
      BY <1>4 DEF Poll, profile, backVars, busVars
    <2>2. CASE Ends(Flight)
      <3>1. got' = Flight /\ Flight # <<>> /\ gotFor' = conn
        BY <1>4, <2>2, FlightSteps
      <3>2. Flight[1].unit = InFlight /\ InFlight \in 1..Len(sent)
        BY <3>1, <2>1 DEF InFlight, Stream
      <3>3. role = "Wheel" => /\ sent[InFlight].device <= conn
                              /\ conn # first => sent[InFlight].device = conn
        BY <2>1, <3>1, <3>2 DEF Followed
      <3> QED BY <2>1, <3>1, <3>2, <3>3 DEF NothingOld
    <2>3. CASE ~Ends(Flight)
      BY <1>1, <1>4, <2>1, <2>3, FlightSteps DEF came
    <2> QED BY <2>2, <2>3
  <1>5. CASE Attach \/ Awake \/ Leave \/ FollowOn \/ FollowOff \/ Forward \/ Reset \/ Configure
             \/ UNCHANGED vars
    BY <1>1, <1>5 DEF Attach, Awake, Leave, FollowOn, FollowOff, Forward, WaitEnabled, Take,
       WritePacket, WriteFailed, Reset, Configure, vars, profile, backVars, busVars, came
  <1> QED
    BY <1>2, <1>3, <1>4, <1>5, Zenon DEF Next

-----------------------------------------------------------------------------
(* The theorems *)

LEMMA AlwaysIInv == Spec => []IInv
  <1>1. Init => IInv
    <2> SUFFICES ASSUME Init PROVE IInv
      OBVIOUS
    <2>1. TypeOK /\ Known /\ Writing
      BY TypeInit, EndpointAssumption DEF Typed
    <2>2. sent = <<>> /\ queue = <<>> /\ got = <<>> /\ bus = "off" /\ conn = 0 /\ writer = "wait"
      BY DEF Init
    <2>3. Len(sent) = 0 /\ Len(queue) = 0
      BY <2>2
    <2>4. InLine /\ Whole /\ Emptied /\ Stream /\ Followed /\ NothingOld
      BY <2>2, <2>3 DEF InLine, Whole, Emptied, Stream, Followed, NothingOld, Came
    <2> QED BY <2>1, <2>4 DEF IInv
  <1>2. IInv /\ [Next]_vars => IInv'
    <2> SUFFICES ASSUME IInv, [Next]_vars PROVE IInv'
      OBVIOUS
    <2>1. TypeOK /\ Known /\ Writing /\ InLine /\ Whole /\ Emptied /\ Stream /\ Followed /\ NothingOld
      BY DEF IInv
    <2>2. Typed'
      BY <2>1, TypedStep, EndpointAssumption, Zenon DEF Typed
    <2>3. InLine'
      BY <2>1, InLineStep, EndpointAssumption, Zenon
    <2>4. Whole'
      BY <2>1, WholeStep, EndpointAssumption, Zenon
    <2>5. Emptied'
      BY <2>1, EmptiedStep, Zenon
    <2>6. Stream'
      BY <2>1, StreamStep, EndpointAssumption, Zenon
    <2>7. Followed'
      BY <2>1, FollowedStep, EndpointAssumption, Zenon
    <2>8. NothingOld'
      BY <2>1, NothingOldStep, EndpointAssumption, Zenon
    <2> QED BY <2>2, <2>3, <2>4, <2>5, <2>6, <2>7, <2>8 DEF IInv, Typed
  <1> QED
    BY <1>1, <1>2, PTL DEF Spec

(***************************************************************************)
(* Every variable keeps to its type: in particular the queue takes no more *)
(* than its capacity, the endpoint one packet, and the console never takes *)
(* more packets for one transfer than the longest report has.              *)
(***************************************************************************)
THEOREM TypeCorrect == Spec => []TypeOK
  BY AlwaysIInv, PTL DEF IInv

(***************************************************************************)
(* In the wheel role the console gets nothing of another wheel on a        *)
(* connection, save on its first one what wheels before it have left: when *)
(* queues are cleared, what is being written is lost to the reset.         *)
(***************************************************************************)
THEOREM NothingOfEarlierWheel == Spec => []NothingOld
  BY AlwaysIInv, PTL DEF IInv

\* What WholeInOrder takes to have come out last.
Arrived ==
  IF got = <<>> THEN 0
  ELSE IF got = Transfer(got[1].unit) THEN got[1].unit ELSE 0 - 1

(***************************************************************************)
(* The console gets the units whole, each for itself and in order, none    *)
(* twice, in each role, with every packet size and wherever a reset falls: *)
(* the path implements LossyFifo.                                          *)
(***************************************************************************)
THEOREM OrderKept == Spec => WholeInOrder
  <1>1. Init => Fifo!Init
    BY DEF Init, Fifo!Init
  <1>2. IInv => Arrived = Came
    <2> SUFFICES ASSUME IInv PROVE Arrived = Came
      OBVIOUS
    <2>1. CASE got = <<>>
      BY <2>1 DEF Came, Arrived
    <2>2. CASE got # <<>>
      <3>1. /\ Came \in 1..Len(sent) /\ Len(got) = Count(Came) /\ Came = got[1].unit
            /\ \A k \in 1..Len(got) : got[k] = Packet(Came, k)
        BY <2>2 DEF IInv, Whole, Came
      <3>2. got = [k \in 1..Len(got) |-> got[k]]
        <4>1. got \in Seq(APacket)
          BY DEF IInv, TypeOK
        <4> QED BY <4>1, LenProperties
      <3>3. got = Transfer(Came)
        BY <3>1, <3>2 DEF Transfer, Count
      <3> QED BY <2>2, <3>1, <3>3 DEF Arrived
    <2> QED BY <2>1, <2>2
  <1>3. ASSUME IInv, [Next]_vars
        PROVE  \/ UNCHANGED <<sent, Came>>
               \/ (\E x \in Unit : sent' = Append(sent, x)) /\ UNCHANGED Came
               \/ Came' \in (Came + 1)..Len(sent) /\ UNCHANGED sent
    <2>1. TypeOK /\ Known /\ Writing /\ Whole /\ Stream
      BY <1>3 DEF IInv
    <2>2. ASSUME NEW len \in Lengths, Push(len)
          PROVE  (\E x \in Unit : sent' = Append(sent, x)) /\ UNCHANGED Came
      <3>1. /\ device \in 1..MaxDevices /\ got' = got
            /\ sent' = Append(sent, [device |-> device, len |-> len])
        <4>1. device \in 0..MaxDevices /\ MaxDevices \in Nat
          BY <2>1, EndpointAssumption DEF TypeOK, EndpointAssumption
        <4>2. device # 0
          BY <2>1, <2>2 DEF Push, Known
        <4> QED BY <2>2, <4>1, <4>2 DEF Push, came
      <3>2. [device |-> device, len |-> len] \in Unit
        BY <3>1 DEF Unit
      <3> QED BY <3>1, <3>2 DEF Came
    <2>3. ASSUME Poll PROVE UNCHANGED sent /\ (UNCHANGED Came \/ Came' \in (Came + 1)..Len(sent))
      <3>1. sent' = sent
        BY <2>3 DEF Poll, backVars
      <3>2. CASE Ends(Flight)
        <4>1. got' = Flight /\ Flight # <<>>
          BY <2>1, <2>3, <3>2, FlightSteps, EndpointAssumption
        <4>2. Came' = InFlight
          BY <4>1 DEF Came, InFlight
        <4>3. Came < InFlight /\ InFlight \in 1..Len(sent)
          BY <2>1, <2>3, PollEnds, EndpointAssumption
        <4>4. Came \in 0..Len(sent) /\ Len(sent) \in Nat
          BY <2>1, Numbered, EndpointAssumption
        <4> QED BY <3>1, <4>2, <4>3, <4>4
      <3>3. CASE ~Ends(Flight)
        <4>1. got' = got
          BY <2>1, <2>3, <3>3, FlightSteps, EndpointAssumption DEF came
        <4> QED BY <3>1, <4>1 DEF Came
      <3> QED BY <3>2, <3>3
    <2>4. CASE UNCHANGED <<sent, got>>
      BY <2>4 DEF Came
    <2>5. CASE Attach \/ Awake \/ Leave \/ Boot \/ FollowOn \/ FollowOff \/ Forward \/ Reset
               \/ Configure \/ UNCHANGED vars
      BY <2>4, <2>5 DEF Attach, Awake, Leave, Boot, FollowOn, FollowOff, Forward, WaitEnabled, Take,
         WritePacket, WriteFailed, Reset, Configure, vars, backVars, came
    <2> QED
      BY <1>3, <2>2, <2>3, <2>5, Zenon DEF Next
  <1>5. IInv' => (Arrived = Came)'
    BY <1>2, PTL
  <1>4. IInv /\ IInv' /\ [Next]_vars => [Fifo!Next]_<<sent, Arrived>>
    <2> SUFFICES ASSUME IInv, IInv', [Next]_vars PROVE [Fifo!Next]_<<sent, Arrived>>
      OBVIOUS
    <2>1. Arrived = Came
      BY <1>2
    <2>2. Arrived' = Came'
      BY <1>5
    <2> QED BY <1>3, <2>1, <2>2 DEF Fifo!Next, Fifo!Send, Fifo!Deliver, Arrived
  <1> QED
    BY <1>1, <1>4, AlwaysIInv, PTL DEF Spec, WholeInOrder, Fifo!Spec, Arrived
=============================================================================
