------------------------------- MODULE Relay -------------------------------
(***************************************************************************)
(* The relay role: DriveHub behind the bridge, the console in front of it. *)
(* relay::run (relay.rs) asks DriveHub for F3, lets the device on the bus  *)
(* and then forwards what the console sends: class requests (CONTROL_OUT)  *)
(* and auth commands (CMD) over DriveHub's EP0, one at a time, and the     *)
(* packets of an OUT endpoint through forward_out.  The queues are filled  *)
(* by the device's handlers (device.rs) and outlive DriveHub.              *)
(*                                                                         *)
(* A request or packet is named by its number.  What handle (auth.rs) does *)
(* with a command is in Auth.tla, the way from DriveHub to the console in  *)
(* InEndpoint.tla; here a command only takes EP0 for a while.              *)
(***************************************************************************)
EXTENDS Integers, Sequences

CONSTANTS
  QUEUE_LEN,        \* capacity of CONTROL_OUT, of CMD and of the OUT queue
  SIGNER_PROBE_TRIES,
  MaxRequests,      \* bound: class requests
  MaxCommands,      \* bound: auth commands
  MaxPackets,       \* bound: OUT packets
  MaxHubs           \* bound: DriveHubs attached one after the other

ASSUME RelayAssumption ==
  /\ QUEUE_LEN \in Nat \ {0} /\ SIGNER_PROBE_TRIES \in Nat \ {0}
  /\ MaxRequests \in Nat /\ MaxCommands \in Nat /\ MaxPackets \in Nat /\ MaxHubs \in Nat

VARIABLES
  \* run
  hub,        \* DriveHubs attached so far
  pc,         \* "none", "probe"; serve_ep0: "select", "repeat", "auth"
  tries,      \* of try_signer
  cur,        \* the request that is repeated
  out,        \* forward_out: "none", "receive", "write", "stopped"
  outCur,     \* the packet it writes
  \* shared by the cores
  ready,      \* BACKEND_READY: "no", "yes"
  requests,   \* the requests the console sent (history)
  control,    \* CONTROL_OUT
  commands,   \* the auth commands it sent,
  cmds,       \* CMD
  packets,    \* and the OUT packets (history)
  outQueue,   \* IF0_OUT or FFB_OUT
  dropped,    \* STATS.dropped, as log_stats adds it up
  dev,        \* the device: "waiting" for BACKEND_READY, "up"
  \* history
  repeated,   \* the last request DriveHub got
  written,    \* the last packet it got
  taken       \* requests and packets taken from the queues

run == <<hub, pc, tries, cur, out, outCur>>
reqVars == <<requests, control>>
cmdVars == <<commands, cmds>>
packetVars == <<packets, outQueue>>
history == <<repeated, written, taken>>
vars == <<run, ready, reqVars, cmdVars, packetVars, dropped, dev, history>>

\* Faulty: one entry more than the queue holds.
RoomForOneMore(queue) == Len(queue) <= QUEUE_LEN

Room(queue) == Len(queue) < QUEUE_LEN

Init ==
  /\ hub = 0 /\ pc = "none" /\ tries = 0 /\ cur = 0 /\ out = "none" /\ outCur = 0
  /\ ready = "no"
  /\ requests = <<>> /\ control = <<>> /\ commands = 0 /\ cmds = <<>>
  /\ packets = <<>> /\ outQueue = <<>> /\ dropped = 0
  /\ dev = "waiting"
  /\ repeated = 0 /\ written = 0 /\ taken = 0

-----------------------------------------------------------------------------
(* Faulty variants, each a slip the code could have made; the properties    *)
(* below are confirmed to tell them from the real definitions.              *)

\* A drop is noted, not added.
CountOnce(queue) == IF Room(queue) THEN dropped ELSE 1

\* A request that failed is tried again after the next one.
RepeatEndAgain ==
  /\ pc = "repeat" /\ pc' = "select" /\ cur' = 0
  /\ repeated' \in {repeated, cur}
  /\ control' = IF Room(control) /\ repeated' # cur THEN Append(control, cur) ELSE control
  /\ UNCHANGED <<hub, tries, out, outCur, ready, requests, cmdVars, packetVars, dropped,
                 dev, written, taken>>

-----------------------------------------------------------------------------
(* core 1: run *)

Start ==
  /\ pc = "none" /\ hub < MaxHubs
  /\ hub' = hub + 1 /\ pc' = "probe" /\ tries' = 1
  /\ UNCHANGED <<cur, out, outCur, ready, reqVars, cmdVars, packetVars, dropped, dev,
                 history>>

\* After try_signer everything is polled for the first time: forward_out opens
\* its endpoint, serve_ep0 selects.
Relaying ==
  /\ pc' = "select" /\ tries' = 0 /\ out' = "receive" /\ ready' = "yes"

\* try_signer: F3 is read, or is not in the tries it has.
ProbeOk ==
  /\ pc = "probe" /\ Relaying
  /\ UNCHANGED <<hub, cur, outCur, reqVars, cmdVars, packetVars, dropped, dev, history>>

ProbeFails ==
  /\ pc = "probe"
  /\ IF tries < SIGNER_PROBE_TRIES
     THEN tries' = tries + 1 /\ UNCHANGED <<pc, out, ready>>
     ELSE Relaying
  /\ UNCHANGED <<hub, cur, outCur, reqVars, cmdVars, packetVars, dropped, dev, repeated,
                 written, taken>>

\* serve_ep0: CONTROL_OUT is looked at first.
RepeatBegin ==
  /\ pc = "select" /\ control # <<>>
  /\ pc' = "repeat" /\ cur' = Head(control) /\ control' = Tail(control)
  /\ taken' = taken + 1
  /\ UNCHANGED <<hub, tries, out, outCur, ready, requests, cmdVars, packetVars, dropped,
                 dev, repeated, written>>

\* A request that fails may have reached DriveHub or not.
RepeatEnd ==
  /\ pc = "repeat" /\ pc' = "select" /\ cur' = 0
  /\ repeated' \in {repeated, cur}
  /\ UNCHANGED <<hub, tries, out, outCur, ready, reqVars, cmdVars, packetVars, dropped,
                 dev, written, taken>>

CommandBegin ==
  /\ pc = "select" /\ control = <<>> /\ cmds # <<>>
  /\ pc' = "auth" /\ cmds' = Tail(cmds)
  /\ UNCHANGED <<hub, tries, cur, out, outCur, ready, reqVars, commands, packetVars,
                 dropped, dev, history>>

\* handle ends: each of its waits has a timeout (Auth.tla).
CommandEnd ==
  /\ pc = "auth" /\ pc' = "select"
  /\ UNCHANGED <<hub, tries, cur, out, outCur, ready, reqVars, cmdVars, packetVars,
                 dropped, dev, history>>

\* forward_out: it stops at the first transfer that fails, whatever the error.
OutTake ==
  /\ out = "receive" /\ outQueue # <<>>
  /\ out' = "write" /\ outCur' = Head(outQueue) /\ outQueue' = Tail(outQueue)
  /\ taken' = taken + 1
  /\ UNCHANGED <<hub, pc, tries, cur, ready, reqVars, cmdVars, packets, dropped, dev,
                 repeated, written>>

WriteOk ==
  /\ out = "write"
  /\ out' = "receive" /\ outCur' = 0 /\ written' = outCur
  /\ UNCHANGED <<hub, pc, tries, cur, ready, reqVars, cmdVars, packetVars, dropped, dev,
                 repeated, taken>>

WriteFails ==
  /\ out = "write"
  /\ out' = "stopped" /\ outCur' = 0 /\ written' \in {written, outCur}
  /\ UNCHANGED <<hub, pc, tries, cur, ready, reqVars, cmdVars, packetVars, dropped, dev,
                 repeated, taken>>

\* DriveHub is unplugged: run is dropped at any of its awaits.
Leave ==
  /\ pc # "none"
  /\ pc' = "none" /\ tries' = 0 /\ cur' = 0 /\ out' = "none" /\ outCur' = 0
  /\ UNCHANGED <<hub, ready, reqVars, cmdVars, packetVars, dropped, dev, history>>

-----------------------------------------------------------------------------
(* core 0: the device's task and its handlers *)

Boot ==
  /\ dev = "waiting" /\ ready = "yes"
  /\ dev' = "up" /\ ready' = "no"
  /\ UNCHANGED <<run, reqVars, cmdVars, packetVars, dropped, history>>

\* try_send: the entry that does not fit is the one that is lost, and counted.
Queued(queue, n) == IF Room(queue) THEN Append(queue, n) ELSE queue
Count(queue) == IF Room(queue) THEN dropped ELSE dropped + 1

\* control_out: every class request goes to DriveHub.
ConsoleRequests ==
  /\ dev = "up" /\ Len(requests) < MaxRequests
  /\ requests' = Append(requests, "request")
  /\ control' = Queued(control, Len(requests) + 1)
  /\ dropped' = Count(control)
  /\ UNCHANGED <<run, ready, cmdVars, packetVars, dev, history>>

\* control_out and control_in: auth is answered from what is known, and sent on.
ConsoleAuth ==
  /\ dev = "up" /\ commands < MaxCommands
  /\ commands' = commands + 1 /\ cmds' = Queued(cmds, commands + 1)
  /\ UNCHANGED <<run, ready, reqVars, packetVars, dropped, dev, history>>

\* if0_output, forward_ffb_out.
ConsoleWrites ==
  /\ dev = "up" /\ Len(packets) < MaxPackets
  /\ packets' = Append(packets, "packet")
  /\ outQueue' = Queued(outQueue, Len(packets) + 1)
  /\ dropped' = Count(outQueue)
  /\ UNCHANGED <<run, ready, reqVars, cmdVars, dev, history>>

-----------------------------------------------------------------------------
Serve == RepeatBegin \/ RepeatEnd \/ CommandBegin \/ CommandEnd
ForwardOut == OutTake \/ WriteOk \/ WriteFails

Next ==
  \/ Start \/ ProbeOk \/ ProbeFails \/ Serve \/ ForwardOut \/ Leave
  \/ Boot \/ ConsoleRequests \/ ConsoleAuth \/ ConsoleWrites

Spec == Init /\ [][Next]_vars

(***************************************************************************)
(* The executor polls run when one of its wakers fires, and every transfer *)
(* and every wait of handle ends.  Nothing is assumed of the console, of   *)
(* DriveHub or of how a transfer ends.                                     *)
(***************************************************************************)
LiveSpec == Spec /\ WF_vars(Serve) /\ WF_vars(ForwardOut)

-----------------------------------------------------------------------------
(* Properties *)

TypeOK ==
  /\ hub \in 0..MaxHubs /\ pc \in {"none", "probe", "select", "repeat", "auth"}
  /\ tries \in 0..SIGNER_PROBE_TRIES /\ cur \in 0..Len(requests)
  /\ out \in {"none", "receive", "write", "stopped"} /\ outCur \in 0..Len(packets)
  /\ ready \in {"no", "yes"}
  /\ requests \in Seq({"request"}) /\ packets \in Seq({"packet"})
  /\ control \in Seq(1..Len(requests)) /\ Len(control) <= QUEUE_LEN
  /\ commands \in 0..MaxCommands
  /\ cmds \in Seq(1..commands) /\ Len(cmds) <= QUEUE_LEN
  /\ outQueue \in Seq(1..Len(packets)) /\ Len(outQueue) <= QUEUE_LEN
  /\ dropped \in Nat /\ dev \in {"waiting", "up"}
  /\ repeated \in 0..Len(requests)
  /\ written \in 0..Len(packets) /\ taken \in Nat

(***************************************************************************)
(* The console's requests reach DriveHub in the order they were sent, none *)
(* repeated by the bridge, whatever fails and whenever DriveHub is         *)
(* replaced; and so do its packets ("every endpoint is forwarded packet by *)
(* packet", relay.rs).                                                     *)
(***************************************************************************)
Requests == INSTANCE LossyFifo WITH Items <- {"request"}, sent <- requests, got <- repeated
Packets == INSTANCE LossyFifo WITH Items <- {"packet"}, sent <- packets, got <- written

InOrder == Requests!Spec /\ Packets!Spec

(***************************************************************************)
(* Of what the console sent, all that was not taken from the queues is     *)
(* either still there or counted as dropped (device.rs, Stats: "Messages   *)
(* lost because a queue was full"), also while no DriveHub is there.       *)
(***************************************************************************)
DropsCounted ==
  Len(requests) + Len(packets) = taken + Len(control) + Len(outQueue) + dropped

(***************************************************************************)
(* Once a transfer has failed relay::run ends ("Relay DriveHub until a     *)
(* transfer fails", relay.rs).  It does not hold: run joins all of its     *)
(* tasks, and serve_ep0 never ends.                                        *)
(***************************************************************************)
FailureEnds == out = "stopped" ~> pc = "none"
=============================================================================
