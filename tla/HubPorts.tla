------------------------------ MODULE HubPorts ------------------------------
(***************************************************************************)
(* The hub on the USB-A port and the devices behind it (src/src/hub.rs).   *)
(*                                                                         *)
(* The events loop waits for a port's connection to change, enumerates the *)
(* device that is there now, and hands it to a free child through the      *)
(* child's slot; or tells the child of a port that its device is gone.     *)
(* While it enumerates, for up to 22 s, it hears of no other port.         *)
(*                                                                         *)
(* A device is named by the order in which the devices were plugged in.    *)
(* The hub itself, HubHandler and the bus's table of addresses are outside *)
(* this repository: a hub keeps one bit per port for a change of its       *)
(* connection, which is reported as what the port is then.                 *)
(***************************************************************************)
EXTENDS Naturals

CONSTANTS
  MAX_PORTS,       \* ports of the hub
  CHILDREN,        \* devices served at the same time
  ENUM_ATTEMPTS,   \* enumeration attempts per attach
  MaxAddr,         \* size of the bus's table of addresses
  MaxDevices       \* bound: devices plugged in

ASSUME HubAssumption ==
  /\ MAX_PORTS \in Nat \ {0}
  /\ CHILDREN \in Nat \ {0} /\ ENUM_ATTEMPTS \in Nat \ {0}
  /\ MaxAddr \in Nat \ {0} /\ MaxDevices \in Nat

VARIABLES
  \* the hub and the devices
  plugged,    \* devices plugged in so far
  dev,        \* the device on each port, 0 if none
  devAddr,    \* the address it answers to, 0 if it was not given one
  changed,    \* the ports with a change that was not reported
  hasty,      \* history: "yes" once a device was plugged in before the removal
              \* of the last one from its port was reported
  \* the events loop
  pc,         \* "listen", "enumerate", "handover" or "backoff"
  port,       \* the port it acts on,
  free,       \* the child picked for it
  attempt,
  info,       \* and the device enumerated
  portChild,  \* port_child
  busy,       \* the children that are busy
  \* the children
  slot,       \* what each child is signalled
  child,      \* the device each child has
  serving,    \* the children whose serve_device runs
  \* the bus
  addresses,  \* the addresses in use
  leaked      \* history: those of devices that were not handed over

hubVars == <<plugged, dev, devAddr, changed, hasty>>
eventVars == <<pc, port, free, attempt, info, portChild, busy>>
childVars == <<child, serving>>
busVars == <<addresses, leaked>>
vars == <<hubVars, eventVars, slot, childVars, busVars>>

Ports == 0..(MAX_PORTS - 1)
NoPort == MAX_PORTS
Children == 0..(CHILDREN - 1)
NoChild == CHILDREN
Addresses == 1..MaxAddr

\* What EnumerationInfo stands for, and a Signal's value.
None == [dev |-> 0, port |-> NoPort, addr |-> 0]
Info == [dev : 1..MaxDevices, port : Ports, addr : Addresses]
Empty == [event |-> "none", info |-> None]
Attached(d) == [event |-> "attached", info |-> d]
Detached == [event |-> "detached", info |-> None]

Init ==
  /\ plugged = 0 /\ changed = {} /\ hasty = "no"
  /\ dev = [p \in Ports |-> 0] /\ devAddr = [p \in Ports |-> 0]
  /\ pc = "listen" /\ port = NoPort /\ free = NoChild /\ attempt = 0 /\ info = None
  /\ portChild = [p \in Ports |-> NoChild] /\ busy = {}
  /\ slot = [c \in Children |-> Empty] /\ child = [c \in Children |-> None]
  /\ serving = {}
  /\ addresses = {} /\ leaked = {}

-----------------------------------------------------------------------------
(* Faulty variants, each a slip the code could have made; the properties    *)
(* below are confirmed to tell them from the real definitions.              *)

\* The children run on their own, and take their signals when they get to it.
SettledAlways == TRUE

\* The entry of port_child is read but not taken.
RemovedNotTaken(p) ==
  /\ pc = "listen" /\ (\A c \in Children : slot[c] = Empty) /\ p \in changed /\ dev[p] = 0
  /\ changed' = changed \ {p}
  /\ busy' = busy \ {portChild[p]}
  /\ slot' = [c \in Children |-> IF c = portChild[p] THEN Detached ELSE slot[c]]
  /\ UNCHANGED <<plugged, dev, devAddr, hasty, pc, port, free, attempt, info,
                 portChild, childVars, busVars>>

\* One attempt too many.
EnumerateFailsOnceMore ==
  /\ pc = "enumerate"
  /\ attempt' = attempt + 1
  /\ pc' = IF attempt <= ENUM_ATTEMPTS THEN pc ELSE "listen"
  /\ UNCHANGED <<hubVars, port, free, info, portChild, busy, slot, childVars, busVars>>

\* The address is given back as soon as serving has ended.
ServedOutFreed(c) ==
  /\ c \in serving
  /\ serving' = serving \ {c}
  /\ addresses' = addresses \ {child[c].addr}
  /\ UNCHANGED <<hubVars, eventVars, slot, child, leaked>>

\* A child that served out does not wait for the detach.
ReleaseServing(c) ==
  /\ c \in serving /\ slot[c].event = "detached"
  /\ slot' = [slot EXCEPT ![c] = Empty]
  /\ child' = [child EXCEPT ![c] = None] /\ serving' = serving \ {c}
  /\ addresses' = addresses \ {child[c].addr}
  /\ UNCHANGED <<hubVars, eventVars, leaked>>

-----------------------------------------------------------------------------
(* The ports *)

Plug(p) ==
  /\ dev[p] = 0 /\ plugged < MaxDevices
  /\ plugged' = plugged + 1
  /\ dev' = [dev EXCEPT ![p] = plugged + 1]
  /\ changed' = changed \cup {p} /\ hasty' = IF p \in changed THEN "yes" ELSE hasty
  /\ UNCHANGED <<devAddr, eventVars, slot, childVars, busVars>>

Unplug(p) ==
  /\ dev[p] # 0
  /\ dev' = [dev EXCEPT ![p] = 0] /\ devAddr' = [devAddr EXCEPT ![p] = 0]
  /\ changed' = changed \cup {p}
  /\ UNCHANGED <<plugged, hasty, eventVars, slot, childVars, busVars>>

-----------------------------------------------------------------------------
(* events *)

\* run joins the loop with the children: whenever it awaits, they are polled
\* and take what they were signalled.
Settled == \A c \in Children : slot[c] = Empty

Signal(c, value) == slot' = [slot EXCEPT ![c] = value]

\* DeviceDetected: the first free child is picked; with none the device is
\* ignored.
Detected(p) ==
  /\ pc = "listen" /\ Settled /\ p \in changed /\ dev[p] # 0
  /\ changed' = changed \ {p}
  /\ IF Children \subseteq busy
     THEN UNCHANGED <<pc, port, free, attempt>>
     ELSE /\ pc' = "enumerate" /\ port' = p /\ attempt' = 1
          /\ \E c \in Children \ busy : (\A d \in Children \ busy : c <= d) /\ free' = c
  /\ UNCHANGED <<plugged, dev, devAddr, hasty, info, portChild, busy, slot, childVars, busVars>>

\* DeviceRemoved: the port's child, if it has one, is told.
Removed(p) ==
  /\ pc = "listen" /\ Settled /\ p \in changed /\ dev[p] = 0
  /\ changed' = changed \ {p}
  /\ portChild' = [portChild EXCEPT ![p] = NoChild]
  /\ busy' = busy \ {portChild[p]}
  /\ IF portChild[p] = NoChild THEN UNCHANGED slot ELSE Signal(portChild[p], Detached)
  /\ UNCHANGED <<plugged, dev, devAddr, hasty, pc, port, free, attempt, info, childVars, busVars>>

\* The hub cannot be asked, or answers something else: the loop sleeps for
\* ERROR_BACKOFF, and a change stays to be reported.
PollFails ==
  /\ pc = "listen" /\ Settled
  /\ pc' = "backoff"
  /\ UNCHANGED <<hubVars, port, free, attempt, info, portChild, busy, slot, childVars, busVars>>

BackoffEnds ==
  /\ pc = "backoff"
  /\ pc' = "listen"
  /\ UNCHANGED <<hubVars, port, free, attempt, info, portChild, busy, slot, childVars, busVars>>

Listen == pc' = "listen" /\ port' = NoPort /\ free' = NoChild /\ attempt' = 0

\* enumerate: the port is reset and the device on it, if any, takes an address.
EnumerateOk ==
  /\ pc = "enumerate" /\ dev[port] # 0
  /\ \E a \in Addresses \ addresses :
       /\ addresses' = addresses \cup {a}
       /\ devAddr' = [devAddr EXCEPT ![port] = a]
       /\ info' = [dev |-> dev[port], port |-> port, addr |-> a]
  /\ pc' = "handover"
  /\ UNCHANGED <<plugged, dev, changed, hasty, port, free, attempt, portChild, busy, slot,
                 childVars, leaked>>

\* The reset or the enumeration fails; so it goes on until the attempts are used up.
EnumerateFails ==
  /\ pc = "enumerate"
  /\ devAddr' = [devAddr EXCEPT ![port] = 0]
  /\ IF attempt < ENUM_ATTEMPTS
     THEN attempt' = attempt + 1 /\ UNCHANGED <<pc, port, free>>
     ELSE Listen
  /\ UNCHANGED <<plugged, dev, changed, hasty, info, portChild, busy, slot, childVars, busVars>>

\* The device goes to the child.
Handover ==
  /\ pc = "handover"
  /\ portChild' = [portChild EXCEPT ![port] = free]
  /\ busy' = busy \cup {free}
  /\ Signal(free, Attached(info))
  /\ Listen /\ info' = None
  /\ UNCHANGED <<hubVars, childVars, busVars>>

\* A hub is not served; its address stays in use.
HubIgnored ==
  /\ pc = "handover"
  /\ leaked' = leaked \cup {info.addr}
  /\ Listen /\ info' = None
  /\ UNCHANGED <<hubVars, portChild, busy, slot, childVars, addresses>>

-----------------------------------------------------------------------------
(* child *)

\* A child without a device takes what it is handed.  A detach is nothing to it,
\* nor is another device to a child that has one.
Take(c) ==
  /\ slot[c] # Empty /\ (child[c] # None => slot[c].event = "attached")
  /\ Signal(c, Empty)
  /\ IF child[c] = None /\ slot[c].event = "attached"
     THEN child' = [child EXCEPT ![c] = slot[c].info] /\ serving' = serving \cup {c}
     ELSE UNCHANGED childVars
  /\ UNCHANGED <<hubVars, eventVars, busVars>>

\* Served out: a transfer failed.  The child keeps the device.
ServedOut(c) ==
  /\ c \in serving
  /\ serving' = serving \ {c}
  /\ UNCHANGED <<hubVars, eventVars, slot, child, busVars>>

\* The child's device is gone: serving it stops, its address is free.
Release(c) ==
  /\ child[c] # None /\ slot[c].event = "detached"
  /\ Signal(c, Empty)
  /\ child' = [child EXCEPT ![c] = None] /\ serving' = serving \ {c}
  /\ addresses' = addresses \ {child[c].addr}
  /\ UNCHANGED <<hubVars, eventVars, leaked>>

-----------------------------------------------------------------------------
Events == \/ \E p \in Ports : Detected(p) \/ Removed(p)
          \/ EnumerateOk \/ EnumerateFails \/ Handover \/ HubIgnored

Next ==
  \/ \E p \in Ports : Plug(p) \/ Unplug(p)
  \/ Events \/ PollFails \/ BackoffEnds
  \/ \E c \in Children : Take(c) \/ ServedOut(c) \/ Release(c)

Spec == Init /\ [][Next]_vars

(***************************************************************************)
(* The executor polls run whenever one of its wakers fires, and an         *)
(* enumeration attempt ends one way or the other.  A hub does not fail     *)
(* whenever it is polled: it reports a change in the end.  Nothing is      *)
(* assumed of the devices.                                                 *)
(***************************************************************************)
LiveSpec ==
  /\ Spec /\ SF_vars(Events) /\ WF_vars(BackoffEnds)
  /\ \A c \in Children : WF_vars(Take(c) \/ Release(c))

-----------------------------------------------------------------------------
(* Properties *)

Event == {Empty, Detached} \cup {Attached(i) : i \in Info}

TypeOK ==
  /\ plugged \in 0..MaxDevices
  /\ dev \in [Ports -> 0..MaxDevices] /\ devAddr \in [Ports -> 0..MaxAddr]
  /\ changed \subseteq Ports /\ hasty \in {"no", "yes"}
  /\ pc \in {"listen", "enumerate", "handover", "backoff"}
  /\ port \in 0..MAX_PORTS /\ free \in 0..CHILDREN
  /\ attempt \in 0..ENUM_ATTEMPTS
  /\ info \in Info \cup {None}
  /\ portChild \in [Ports -> 0..CHILDREN] /\ busy \subseteq Children
  /\ slot \in [Children -> Event]
  /\ child \in [Children -> Info \cup {None}] /\ serving \subseteq Children
  /\ addresses \subseteq Addresses /\ leaked \subseteq addresses

(***************************************************************************)
(* When every change of a port has been dealt with, the device that each   *)
(* busy child has is on the port that names the child, and the others have *)
(* none (hub.rs: "serves it like a device on the root port until the hub   *)
(* reports it gone").  Devices are taken to be replugged so slowly that    *)
(* the removal is reported in between.                                     *)
(***************************************************************************)
Quiet == pc = "listen" /\ changed = {} /\ Settled

ServesAttached ==
  Quiet /\ hasty = "no" =>
    \A c \in Children :
      IF c \in busy
      THEN LET d == child[c] IN
           d # None /\ dev[d.port] = d.dev /\ portChild[d.port] = c
      ELSE child[c] = None /\ \A p \in Ports : portChild[p] # c

(***************************************************************************)
(* However fast devices are replugged, no child keeps one that is gone     *)
(* (hub.rs: "Behind a hub, unlike on the root port (R13), detaches are     *)
(* seen").  It does not hold: see README.md.                               *)
(***************************************************************************)
DetachesSeen ==
  Quiet => \A c \in Children : child[c] # None => dev[child[c].port] = child[c].dev

(***************************************************************************)
(* No two devices on the bus answer to the same address.                   *)
(***************************************************************************)
AddressesDistinct ==
  \A p, q \in Ports : p # q /\ devAddr[p] # 0 => devAddr[p] # devAddr[q]

(***************************************************************************)
(* An address in use is a child's or on its way to one, unless it went to  *)
(* a hub behind the hub: none is lost when a device comes and goes, and    *)
(* none is given back while the child it was given to has it.              *)
(***************************************************************************)
Held ==
  {child[c].addr : c \in Children} \cup {slot[c].info.addr : c \in Children}
    \cup {info.addr}

AddressesKept == addresses = (Held \ {0}) \cup leaked

(***************************************************************************)
(* The child of a device that is gone is free again in the end, unless     *)
(* devices are replugged too fast.                                         *)
(***************************************************************************)
GoneReleased ==
  \A c \in Children :
    child[c] # None /\ dev[child[c].port] # child[c].dev ~> child[c] = None \/ hasty = "yes"
=============================================================================
