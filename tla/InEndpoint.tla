----------------------------- MODULE InEndpoint -----------------------------
(***************************************************************************)
(* From the device behind the bridge to the console: forward_in of         *)
(* proxy.rs fills a queue, forward_in of device.rs writes it to an IN      *)
(* endpoint, in each of the three roles.                                   *)
(*                                                                         *)
(* What is queued is a unit: in the relay role one packet of DriveHub's,   *)
(* otherwise one report, which becomes one transfer of several packets.    *)
(* The console takes packets until one is shorter than the endpoint's, or  *)
(* it has as much as the longest report.  Lengths are scaled down, bytes   *)
(* are left out.                                                           *)
(***************************************************************************)
EXTENDS Integers, Sequences

CONSTANTS
  MAX_PACKET,    \* length of the longest report
  PacketSizes,   \* max packet sizes an endpoint may have
  Lengths,       \* lengths of the units from the devices
  QUEUE_LEN,     \* capacity of the queue
  MaxUnits,      \* bound: units from the devices
  MaxDevices,    \* bound: devices attached one after the other
  MaxResets      \* bound: bus resets

ASSUME EndpointAssumption ==
  /\ MAX_PACKET \in Nat \ {0} /\ PacketSizes \subseteq 1..MAX_PACKET
  /\ Lengths \subseteq 0..MAX_PACKET
  /\ QUEUE_LEN \in Nat \ {0}
  /\ MaxUnits \in Nat /\ MaxDevices \in Nat /\ MaxResets \in Nat

VARIABLES
  role, mps,   \* PROFILE: the role and the endpoint's max packet size
  \* the device behind the bridge
  device,      \* devices attached so far
  backend,     \* "none", "attached", "awake"
  link,        \* WHEEL_LINK; in the relay role BACKEND_READY
  sent,        \* history: the units from them, with the device
  queue,       \* the units queued, by number
  \* forward_in
  writer,      \* "wait" for the endpoint, "receive", "write"
  cur,         \* the unit it writes
  part,        \* and the packet of it that is next
  \* the endpoint and the console
  bus,         \* "off" the bus, "attached", "reset", "configured"
  enabled,     \* the endpoint is enabled: "no", "yes"
  buffer,      \* the packet in the endpoint
  rx,          \* the packets of the transfer that goes on
  got,         \* and of the last one that ended
  conn,        \* history: the wheel the console is connected for, 0 if none ever was
  first,       \* the first one it was connected for,
  gotFor,      \* and the one it was when the last transfer ended
  resets       \* history: times the endpoint was disabled

profile == <<role, mps>>
backVars == <<device, backend, link, sent>>
writerVars == <<writer, cur, part>>
busVars == <<bus, enabled, conn, first, resets>>
came == <<got, gotFor>>
vars == <<profile, backVars, queue, writerVars, busVars, buffer, rx, came>>

Roles == {"Wheel", "Relay", "Mirror"}
NoPacket == <<>>

Init ==
  /\ role \in Roles /\ mps \in PacketSizes
  /\ device = 0 /\ backend = "none" /\ link = <<>> /\ sent = <<>> /\ queue = <<>>
  /\ writer = "wait" /\ cur = 0 /\ part = 0
  /\ bus = "off" /\ enabled = "no" /\ buffer = NoPacket
  /\ rx = <<>> /\ got = <<>> /\ gotFor = 0 /\ conn = 0 /\ first = 0 /\ resets = 0

-----------------------------------------------------------------------------
(* Faulty variants, each a slip the code could have made; the properties    *)
(* below are confirmed to tell them from the real definitions.              *)

\* No zero-length packet ends a transfer.
PacketsUnended(len) == IF role = "Relay" \/ len = 0 THEN 1 ELSE (len + mps - 1) \div mps

\* The queue is not cleared for the new connection.
FollowOnUncleared ==
  /\ conn # 0 /\ bus = "off" /\ link # <<>> /\ Head(link) = "awake"
  /\ link' = Tail(link) /\ bus' = "attached" /\ conn' = device
  /\ UNCHANGED <<profile, device, backend, sent, queue, writerVars, enabled, first, resets,
                 buffer, rx, came>>

\* forward_in ends when a reset has made a write fail.
WaitEnabledOnce ==
  /\ writer = "wait" /\ enabled = "yes" /\ resets = 0
  /\ writer' = "receive"
  /\ UNCHANGED <<profile, backVars, queue, cur, part, busVars, buffer, rx, came>>

\* One unit more than the queue holds.
RoomForOneMore == Len(queue) <= QUEUE_LEN

-----------------------------------------------------------------------------
(* Transfers *)

\* The packets a unit is written in: in the relay role as it is; otherwise cut
\* up, with a zero-length packet if the last one is full and the report is not
\* the longest.
Packets(len) ==
  IF role = "Relay" THEN 1
  ELSE IF len < MAX_PACKET THEN len \div mps + 1 ELSE (len + mps - 1) \div mps

PacketLen(len, i) == IF len >= i * mps THEN mps ELSE len - (i - 1) * mps

Packet(n, i) == [unit |-> n, part |-> i, len |-> PacketLen(sent[n].len, i)]
Transfer(n) == [i \in 1..Packets(sent[n].len) |-> Packet(n, i)]

\* The console: a short packet ends a transfer, and so does the longest report.
Ends(packets) ==
  LET last == packets[Len(packets)] IN
  \/ role = "Relay"
  \/ last.len < mps
  \/ (Len(packets) - 1) * mps + last.len >= MAX_PACKET

-----------------------------------------------------------------------------
(* core 1: the device behind the bridge *)

\* In the wheel role the next one is taken to come when the console has seen
\* the last one go (WheelLink.tla has the times).
Attach ==
  /\ backend = "none" /\ device < MaxDevices
  /\ role = "Wheel" => link = <<>> /\ bus = "off"
  /\ device' = device + 1 /\ backend' = "attached"
  /\ UNCHANGED <<profile, link, sent, queue, writerVars, busVars, buffer, rx, came>>

\* wheel_link; the relay signals BACKEND_READY when it has asked DriveHub for F3.
\* In the mirror role nobody takes either.
Tell(report) ==
  CASE role = "Wheel"                         -> link' = Append(link, report)
    [] role = "Relay" /\ report = "awake"     -> link' = <<"awake">>
    [] OTHER                                  -> UNCHANGED link

Awake ==
  /\ backend = "attached"
  /\ backend' = "awake" /\ Tell("awake")
  /\ UNCHANGED <<profile, device, sent, queue, writerVars, busVars, buffer, rx, came>>

Leave ==
  /\ backend # "none"
  /\ backend' = "none" /\ Tell("gone")
  /\ UNCHANGED <<profile, device, sent, queue, writerVars, busVars, buffer, rx, came>>

\* forward_in, proxy.rs: what does not fit is dropped.
Room == Len(queue) < QUEUE_LEN

Push(len) ==
  /\ backend # "none" /\ Len(sent) < MaxUnits
  /\ role = "Relay" => backend = "awake" /\ len <= mps
  /\ sent' = Append(sent, [device |-> device, len |-> len])
  /\ queue' = IF Room THEN Append(queue, Len(sent) + 1) ELSE queue
  /\ UNCHANGED <<profile, device, backend, link, writerVars, busVars, buffer, rx, came>>

-----------------------------------------------------------------------------
(* core 0: the native device *)

\* task: in the wheel role it waits for a wheel that is awake, in the relay role
\* for DriveHub, in the mirror role for nothing.  No queue is cleared.
Boot ==
  /\ bus = "off" /\ conn = 0
  /\ \/ /\ role = "Wheel" /\ link # <<>> /\ Head(link) = "awake"
        /\ link' = Tail(link) /\ conn' = device /\ first' = device
     \/ role = "Relay" /\ link # <<>> /\ link' = <<>> /\ UNCHANGED <<conn, first>>
     \/ role = "Mirror" /\ UNCHANGED <<link, conn, first>>
  /\ bus' = "attached"
  /\ UNCHANGED <<profile, device, backend, sent, queue, writerVars, enabled, resets,
                 buffer, rx, came>>

\* follow_wheel, from the second connection on.
FollowOn ==
  /\ conn # 0 /\ bus = "off" /\ link # <<>> /\ Head(link) = "awake"
  /\ link' = Tail(link) /\ queue' = <<>> /\ bus' = "attached" /\ conn' = device
  /\ UNCHANGED <<profile, device, backend, sent, writerVars, enabled, first, resets,
                 buffer, rx, came>>

\* follow_wheel; or task, which is still waiting.
FollowOff ==
  /\ link # <<>> /\ Head(link) = "gone"
  /\ link' = Tail(link) /\ bus' = "off" /\ rx' = <<>>
  /\ UNCHANGED <<profile, device, backend, sent, queue, writerVars, enabled, conn, first, resets,
                 buffer, came>>

\* forward_in, device.rs.
WaitEnabled ==
  /\ writer = "wait" /\ enabled = "yes"
  /\ writer' = "receive"
  /\ UNCHANGED <<profile, backVars, queue, cur, part, busVars, buffer, rx, came>>

Take ==
  /\ writer = "receive" /\ queue # <<>>
  /\ writer' = "write" /\ cur' = Head(queue) /\ part' = 1 /\ queue' = Tail(queue)
  /\ UNCHANGED <<profile, backVars, busVars, buffer, rx, came>>

WritePacket ==
  /\ writer = "write" /\ enabled = "yes" /\ buffer = NoPacket
  /\ buffer' = <<Packet(cur, part)>>
  /\ IF part < Packets(sent[cur].len)
     THEN part' = part + 1 /\ UNCHANGED <<writer, cur>>
     ELSE writer' = "receive" /\ cur' = 0 /\ part' = 0
  /\ UNCHANGED <<profile, backVars, queue, busVars, rx, came>>

WriteFailed ==
  /\ writer = "write" /\ enabled = "no"
  /\ writer' = "wait" /\ cur' = 0 /\ part' = 0
  /\ UNCHANGED <<profile, backVars, queue, busVars, buffer, rx, came>>

-----------------------------------------------------------------------------
(* the console *)

\* A bus reset disables the endpoint, empties it and ends the transfer.
Reset ==
  /\ bus # "off" /\ (enabled = "yes" => resets < MaxResets)
  /\ bus' = "reset" /\ enabled' = "no" /\ buffer' = NoPacket /\ rx' = <<>>
  /\ resets' = IF enabled = "yes" THEN resets + 1 ELSE resets
  /\ UNCHANGED <<profile, backVars, queue, writerVars, conn, first, came>>

\* By the time the console has addressed the device, forward_in has noticed.
Configure ==
  /\ bus = "reset" /\ writer # "write"
  /\ bus' = "configured" /\ enabled' = "yes"
  /\ UNCHANGED <<profile, backVars, queue, writerVars, conn, first, resets, buffer, rx, came>>

Poll ==
  /\ bus = "configured" /\ buffer # NoPacket
  /\ buffer' = NoPacket
  /\ LET packets == rx \o buffer IN
     IF Ends(packets) THEN got' = packets /\ gotFor' = conn /\ rx' = <<>>
                      ELSE rx' = packets /\ UNCHANGED came
  /\ UNCHANGED <<profile, backVars, queue, writerVars, busVars>>

-----------------------------------------------------------------------------
Forward == WaitEnabled \/ Take \/ WritePacket \/ WriteFailed

Next ==
  \/ Attach \/ Awake \/ Leave \/ (\E len \in Lengths : Push(len))
  \/ Boot \/ FollowOn \/ FollowOff \/ Forward
  \/ Reset \/ Configure \/ Poll

Spec == Init /\ [][Next]_vars

(***************************************************************************)
(* The executor polls forward_in when its queue or its endpoint wakes it,  *)
(* and a console polls an interrupt endpoint as long as it has configured  *)
(* the device.  Nothing else is assumed of either side.                    *)
(***************************************************************************)
LiveSpec == Spec /\ WF_vars(Forward) /\ WF_vars(Poll)

-----------------------------------------------------------------------------
(* Properties *)

Unit == [device : 1..MaxDevices, len : Lengths]
Numbers == 1..MaxUnits
APacket == [unit : Numbers, part : 1..(MAX_PACKET + 1), len : 0..MAX_PACKET]

TypeOK ==
  /\ role \in Roles /\ mps \in PacketSizes
  /\ device \in 0..MaxDevices /\ backend \in {"none", "attached", "awake"}
  /\ link \in Seq({"awake", "gone"})
  /\ sent \in Seq(Unit) /\ Len(sent) <= MaxUnits
  /\ queue \in Seq(1..Len(sent)) /\ Len(queue) <= QUEUE_LEN
  /\ writer \in {"wait", "receive", "write"}
  /\ cur \in 0..Len(sent) /\ part \in 0..(MAX_PACKET + 1)
  /\ writer = "write" => cur # 0 /\ part # 0
  /\ bus \in {"off", "attached", "reset", "configured"} /\ enabled \in {"no", "yes"}
  /\ buffer \in Seq(APacket) /\ Len(buffer) <= 1
  /\ rx \in Seq(APacket) /\ got \in Seq(APacket)
  /\ conn \in 0..device /\ first \in 0..conn /\ gotFor \in 0..conn /\ resets \in 0..MaxResets

(***************************************************************************)
(* The console gets the units as they were queued, in order, whole and     *)
(* each for itself, however they are cut into packets and wherever a bus   *)
(* reset falls (device.rs: "one packet per packet", "otherwise one report  *)
(* per transfer"): the path implements LossyFifo.                          *)
(***************************************************************************)
Fifo ==
  INSTANCE LossyFifo WITH
    Items <- Unit, sent <- sent,
    got <- IF got = <<>> THEN 0
           ELSE IF got = Transfer(got[1].unit) THEN got[1].unit ELSE 0 - 1

WholeInOrder == Fifo!Spec

(***************************************************************************)
(* In the wheel role the console gets nothing on a connection that came    *)
(* from an earlier wheel (device.rs: "Nothing queued for the old           *)
(* connection goes to the new one"), also when it was being written while  *)
(* the queues were cleared.  On the first connection, for which nothing is *)
(* cleared, it may get what wheels before it left, but nothing of a later. *)
(***************************************************************************)
NothingOld ==
  role = "Wheel" /\ got # <<>> =>
    LET from == sent[got[1].unit].device IN
    IF gotFor = first THEN from <= gotFor ELSE from = gotFor

(***************************************************************************)
(* What is queued does not stay queued while the console has the device    *)
(* configured.                                                             *)
(***************************************************************************)
KeepsUp ==
  \A n \in Numbers :
    (\E i \in 1..Len(queue) : queue[i] = n)
      ~> (bus # "configured" \/ \A i \in 1..Len(queue) : queue[i] # n)
=============================================================================
