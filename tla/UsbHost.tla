------------------------------ MODULE UsbHost ------------------------------
(***************************************************************************)
(* The root port: host_task (usb_host.rs) waits for a device, enumerates   *)
(* it, serves it as what it is (serve_device) and waits for it to go.  A   *)
(* device that is not known is probed (probe, hid.rs), taken for a signer  *)
(* if it answers as one, and monitored otherwise (monitor, hid.rs).        *)
(*                                                                         *)
(* What proxy::run, relay::run, auth::serve and hub::run do is in the      *)
(* other modules; of the hub only the addresses its children take are kept.*)
(* A device's descriptors are chosen when they are read.  Of a report that *)
(* is monitored only whether it differs from the one before counts.        *)
(***************************************************************************)
EXTENDS Hid

CONSTANTS
  Roles,               \* the roles the bridge may be built for
  Configs,             \* configurations a device may have
  Descs,               \* report descriptors an interface may have
  ReportValues,        \* reports a device may send, 0 is an empty one
  REPORT_DESC_BUF_LEN, \* items read of a report descriptor
  REPORT_LOG_INTERVAL, \* in ticks
  CHILDREN,            \* devices a hub's children serve
  MaxAddr,             \* size of the bus's table of addresses
  MaxDevices           \* bound: devices plugged in

ASSUME UsbHostAssumption ==
  /\ Roles \subseteq {"Wheel", "Relay", "Mirror"} /\ 0 \in ReportValues
  /\ Configs \subseteq Seq(Descriptor) /\ Descs \subseteq Seq(Item)
  /\ REPORT_DESC_BUF_LEN \in Nat /\ REPORT_LOG_INTERVAL \in Nat \ {0}
  /\ CHILDREN \in Nat /\ MaxAddr \in Nat \ {0} /\ MaxDevices \in Nat

VARIABLES
  role,      \* PROFILE.role
  r13,       \* the board's pull-up R13: "fitted", "removed"
  plugged,   \* devices plugged in so far
  port,      \* the root port: "empty", "device"
  stage,     \* of host_task, see Stages
  kind,      \* what the device was classified as
  addr,      \* the address it was given
  config,    \* its configuration
  ifaces,    \* what find_interfaces found in it
  probing,   \* probe: the interface it is at,
  desc,      \* the report descriptor it read,
  todo,      \* the reports that are left
  asked,     \* and those it has asked for
  mon,       \* monitor_interface, for each interface
  addresses, \* the bus's addresses in use
  hubAddrs,  \* those of the devices behind the hub
  lost       \* history: those nobody will give back

board == <<role, r13>>
probeVars == <<probing, desc, todo, asked>>
deviceVars == <<kind, addr, config, ifaces, probeVars, mon, hubAddrs>>
busVars == <<addresses, lost>>
hostVars == <<board, plugged, port, stage, deviceVars, busVars>>

Kinds == {"Wheel", "RelayBackend", "Hub", "Other"}
Serving == {"classify", "probe", "feature", "idle", "wheel", "relay", "signer", "hub", "monitor"}
Stages == {"wait", "enumerate", "stopped"} \cup Serving

Addresses == 1..MaxAddr
Interfaces == 1..MAX_HID_INTERFACES

\* A monitor: whether it runs; the last report, and whether it is still to be
\* logged; the time since the last line, of the transfer under way, and since
\* the first report that is not logged.
NoMonitor == [on |-> "no", last |-> 0, unlogged |-> "no", since |-> 0, wait |-> 0, age |-> 0]
NewMonitor == [NoMonitor EXCEPT !.on = "yes", !.since = REPORT_LOG_INTERVAL]
NoMonitors == [i \in Interfaces |-> NoMonitor]

NoProbe == probing' = 0 /\ desc' = <<>> /\ todo' = <<>> /\ asked' = {}
Forget ==
  /\ kind' = "none" /\ addr' = 0 /\ config' = <<>> /\ ifaces' = <<>>
  /\ NoProbe /\ mon' = NoMonitors /\ hubAddrs' = {}

HostInit ==
  /\ role \in Roles /\ r13 \in {"fitted", "removed"}
  /\ plugged = 0 /\ port = "empty" /\ stage = "wait"
  /\ kind = "none" /\ addr = 0 /\ config = <<>> /\ ifaces = <<>>
  /\ probing = 0 /\ desc = <<>> /\ todo = <<>> /\ asked = {}
  /\ mon = NoMonitors /\ hubAddrs = {} /\ addresses = {} /\ lost = {}

-----------------------------------------------------------------------------
(* Faulty variants, here and further down, are slips the code could have    *)
(* made; the properties below are confirmed to tell them from the real      *)
(* definitions.                                                             *)

\* Enumeration is given up, and a detach is waited for.
EnumerateGivenUp ==
  /\ stage = "enumerate" /\ stage' = "stopped"
  /\ UNCHANGED <<board, plugged, port, deviceVars, busVars>>

-----------------------------------------------------------------------------
(* The root port *)

\* A device's going is noticed before the next one comes, if it is noticed.
Plug ==
  /\ port = "empty" /\ plugged < MaxDevices
  /\ r13 = "removed" => stage \in {"wait", "enumerate"}
  /\ port' = "device" /\ plugged' = plugged + 1
  /\ UNCHANGED <<board, stage, deviceVars, busVars>>

Unplug ==
  /\ port = "device" /\ port' = "empty"
  /\ UNCHANGED <<board, plugged, stage, deviceVars, busVars>>

-----------------------------------------------------------------------------
(* host_task *)

\* wait_for_connection: with R13 there always seems to be a device.
Connect ==
  /\ stage = "wait" /\ (r13 = "fitted" \/ port = "device")
  /\ stage' = "enumerate"
  /\ UNCHANGED <<board, plugged, port, deviceVars, busVars>>

\* enumerate_with_retry: as often as it takes.
EnumerateFails ==
  /\ stage = "enumerate"
  /\ UNCHANGED hostVars

EnumerateOk ==
  /\ stage = "enumerate" /\ port = "device" /\ addresses # Addresses
  /\ addr' = Min(Addresses \ addresses) /\ addresses' = addresses \cup {addr'}
  /\ stage' = "classify"
  /\ kind' \in (IF role = "Relay" THEN Kinds ELSE Kinds \ {"RelayBackend"})
  /\ config' \in Configs /\ ifaces' = find_interfaces(config')
  /\ UNCHANGED <<board, plugged, port, probeVars, mon, hubAddrs, lost>>

\* serve_device: the wheel and a hub are not probed; nor is anything if EP0
\* cannot be opened.
ServeDevice ==
  /\ stage = "classify"
  /\ stage' = CASE kind = "Wheel" -> "wheel" [] kind = "Hub" -> "hub" [] OTHER -> "probe"
  /\ probing' = IF stage' = "probe" THEN 1 ELSE 0
  /\ config' = <<>>
  /\ UNCHANGED <<board, plugged, port, kind, addr, ifaces, desc, todo, asked, mon,
                 hubAddrs, busVars>>

-----------------------------------------------------------------------------
(* probe *)

\* The report descriptor is read, as much of it as the HID descriptor lists and
\* the buffer holds, and summarised.
ReadDescriptor ==
  /\ stage = "probe" /\ probing <= Len(ifaces)
  /\ \E d \in Descs :
       desc' = SubSeq(d, 1, Min({Len(d), ifaces[probing].report_desc_len, REPORT_DESC_BUF_LEN}))
  /\ todo' = log_report_summary(desc') /\ stage' = "feature"
  /\ UNCHANGED <<board, plugged, port, kind, addr, config, ifaces, probing, asked, mon,
                 hubAddrs, busVars>>

NoDescriptor ==
  /\ stage = "probe" /\ probing <= Len(ifaces)
  /\ stage' = "idle"
  /\ UNCHANGED <<board, plugged, port, deviceVars, busVars>>

\* read_feature_reports: the next feature report, whether the device answers or
\* not.
ReadFeature ==
  /\ stage = "feature"
  /\ \E n \in DOMAIN todo :
       /\ IsFeature(todo[n]) /\ \A m \in 1..(n - 1) : ~IsFeature(todo[m])
       /\ asked' = IF todo[n].page = USAGE_PAGE_PS_AUTH THEN asked
                   ELSE asked \cup {[id |-> todo[n].id, len |-> FeatureLen(todo[n].bits)]}
       /\ todo' = SubSeq(todo, n + 1, Len(todo))
  /\ UNCHANGED <<board, plugged, port, stage, kind, addr, config, ifaces, probing, desc,
                 mon, hubAddrs, busVars>>

FeaturesRead ==
  /\ stage = "feature" /\ \A n \in DOMAIN todo : ~IsFeature(todo[n])
  /\ stage' = "idle" /\ todo' = <<>>
  /\ UNCHANGED <<board, plugged, port, kind, addr, config, ifaces, probing, desc, asked,
                 mon, hubAddrs, busVars>>

\* SET_IDLE, and on to the next interface.
SetIdle ==
  /\ stage = "idle"
  /\ stage' = "probe" /\ probing' = probing + 1 /\ desc' = <<>> /\ asked' = {}
  /\ UNCHANGED <<board, plugged, port, kind, addr, config, ifaces, todo, mon, hubAddrs,
                 busVars>>

\* Those monitors run whose interface has an IN endpoint, if it can be opened.
MonitorStarts ==
  /\ stage' = "monitor"
  /\ mon' \in [Interfaces -> {NoMonitor, NewMonitor}]
  /\ \A i \in Interfaces :
       mon'[i].on = "yes" => i <= Len(ifaces) /\ ifaces[i].in # NoEndpoint

\* probe has done the last interface, or cannot open EP0 to begin with.  Then the
\* relay is started, or the device is asked whether it signs.
ProbeEnds ==
  /\ stage = "probe" /\ (probing = 1 \/ probing > Len(ifaces))
  /\ \/ kind = "RelayBackend" /\ stage' = "relay" /\ UNCHANGED mon
     \/ kind = "Other" /\ role = "Wheel" /\ ifaces # <<>> /\ stage' = "signer" /\ UNCHANGED mon
     \/ kind = "Other" /\ MonitorStarts
  /\ NoProbe /\ ifaces' = <<>>
  /\ UNCHANGED <<board, plugged, port, kind, addr, config, hubAddrs, busVars>>

-----------------------------------------------------------------------------
(* monitor_interface *)

\* At the end of each turn the last report is logged, if it is due.
Logged(m) ==
  IF m.unlogged = "yes" /\ m.since >= REPORT_LOG_INTERVAL
  THEN [m EXCEPT !.unlogged = "no", !.since = 0, !.wait = 0, !.age = 0]
  ELSE [m EXCEPT !.wait = 0]

Monitored(i, m) ==
  /\ stage = "monitor" /\ mon[i].on = "yes"
  /\ mon' = [mon EXCEPT ![i] = m]
  /\ UNCHANGED <<board, plugged, port, stage, kind, addr, config, ifaces, probeVars,
                 hubAddrs, busVars>>

MonitorReport(i, value) ==
  Monitored(i, Logged(IF value = mon[i].last THEN mon[i]
                      ELSE [mon[i] EXCEPT !.last = value, !.unlogged = "yes"]))

\* Faulty variant: a timeout is not looked at any further.
MonitorTimeoutIdle(i) ==
  mon[i].wait = REPORT_LOG_INTERVAL /\ Monitored(i, [mon[i] EXCEPT !.wait = 0])

MonitorTimeout(i) == mon[i].wait = REPORT_LOG_INTERVAL /\ Monitored(i, Logged(mon[i]))

MonitorFails(i) == Monitored(i, NoMonitor)

\* Time passes; no timer that has expired is left waiting.
Tick ==
  /\ stage = "monitor"
  /\ \A i \in Interfaces : mon[i].wait < REPORT_LOG_INTERVAL
  /\ mon' = [i \in Interfaces |->
       IF mon[i].on = "no" THEN mon[i]
       ELSE [mon[i] EXCEPT !.wait = @ + 1, !.since = Min({@ + 1, REPORT_LOG_INTERVAL}),
                           !.age = IF mon[i].unlogged = "yes" THEN @ + 1 ELSE 0]]
  /\ UNCHANGED <<board, plugged, port, stage, kind, addr, config, ifaces, probeVars,
                 hubAddrs, busVars>>

-----------------------------------------------------------------------------
(* hub::run: see HubPorts *)

HubTakes ==
  /\ stage = "hub" /\ Cardinality(hubAddrs \ lost) < CHILDREN /\ addresses # Addresses
  /\ LET a == Min(Addresses \ addresses) IN
       /\ addresses' = addresses \cup {a} /\ hubAddrs' = hubAddrs \cup {a}
  /\ UNCHANGED <<board, plugged, port, stage, kind, addr, config, ifaces, probeVars, mon,
                 lost>>

HubFrees ==
  /\ stage = "hub"
  /\ \E a \in hubAddrs \ lost : addresses' = addresses \ {a} /\ hubAddrs' = hubAddrs \ {a}
  /\ UNCHANGED <<board, plugged, port, stage, kind, addr, config, ifaces, probeVars, mon,
                 lost>>

\* A hub behind the hub is ignored.
HubLoses ==
  /\ stage = "hub"
  /\ \E a \in hubAddrs : lost' = lost \cup {a}
  /\ UNCHANGED <<board, plugged, port, stage, deviceVars, addresses>>

-----------------------------------------------------------------------------
(* host_task, again *)

\* serve_device ends: proxy::run or relay::run gives up at once, or all monitors
\* have stopped.  hub::run does before it has enumerated anything.  auth::serve
\* never ends.
ServedOut ==
  /\ \/ stage \in {"wheel", "relay"}
     \/ stage = "hub" /\ hubAddrs = {}
     \/ stage = "monitor" /\ \A i \in Interfaces : mon[i].on = "no"
  /\ stage' = "stopped"
  /\ UNCHANGED <<board, plugged, port, deviceVars, busVars>>

\* wait_for_disconnect: serve_device, or hub::run with its children, is dropped.
\* The device's address is given back; its children's are not.
Disconnect ==
  /\ stage \in Serving \cup {"stopped"} /\ r13 = "removed" /\ port = "empty"
  /\ stage' = "wait" /\ Forget
  /\ addresses' = addresses \ {addr} /\ lost' = lost \cup hubAddrs
  /\ UNCHANGED <<board, plugged, port>>

-----------------------------------------------------------------------------
Probe ==
  \/ ReadDescriptor \/ NoDescriptor \/ ReadFeature \/ FeaturesRead \/ SetIdle \/ ProbeEnds

Monitor ==
  \/ \E i \in Interfaces :
       \/ \E value \in ReportValues : MonitorReport(i, value)
       \/ MonitorTimeout(i) \/ MonitorFails(i)
  \/ Tick

HostNext ==
  \/ Plug \/ Unplug
  \/ Connect \/ EnumerateFails \/ EnumerateOk \/ ServeDevice \/ Probe \/ Monitor
  \/ HubTakes \/ HubFrees \/ HubLoses \/ ServedOut \/ Disconnect

HostSpec == HostInit /\ [][HostNext]_hostVars

(***************************************************************************)
(* host_task waits for the port and goes on when it sees a device, and a   *)
(* device that stays plugged in answers its enumeration at last.  Nothing  *)
(* is assumed of what is served, or of when devices come and go.           *)
(***************************************************************************)
LiveHostSpec == HostSpec /\ WF_hostVars(Connect) /\ WF_hostVars(EnumerateOk)

-----------------------------------------------------------------------------
(* Properties *)

HostTypeOK ==
  /\ role \in Roles /\ r13 \in {"fitted", "removed"}
  /\ plugged \in 0..MaxDevices /\ port \in {"empty", "device"} /\ stage \in Stages
  /\ kind \in Kinds \cup {"none"} /\ addr \in {0} \cup Addresses
  /\ Len(ifaces) <= MAX_HID_INTERFACES /\ probing \in 0..(MAX_HID_INTERFACES + 1)
  /\ Len(todo) <= MAX_REPORTS
  /\ \A i \in Interfaces :
       /\ mon[i].on \in {"no", "yes"} /\ mon[i].last \in ReportValues
       /\ mon[i].since \in 0..REPORT_LOG_INTERVAL /\ mon[i].wait \in 0..REPORT_LOG_INTERVAL
  /\ hubAddrs \cup lost \subseteq addresses /\ addresses \subseteq Addresses
  \* whoever is served has an address of its own
  /\ stage \in Serving \cup {"stopped"} => addr \in addresses \ (hubAddrs \cup lost)

(***************************************************************************)
(* What find_interfaces gives to proxy::run, relay::run and probe are the  *)
(* device's HID interfaces in their order, with their own endpoints:       *)
(* nothing of another interface or of an alternate setting gets in ("the   *)
(* HID interfaces (alternate setting 0)", hid.rs).                         *)
(***************************************************************************)
InterfacesFound == stage = "classify" => Finds(ifaces, config)

(***************************************************************************)
(* Of a report descriptor that saves no more globals at a time than the    *)
(* stack holds, and with no report of 2^32 bits, probe asks for all of each*)
(* feature report and nothing else, whatever the order of the items, what  *)
(* they save and restore and where reading broke off; none of the reports  *)
(* is one of the authentication's ("Not read", hid.rs).  When there are    *)
(* more reports than there is room for, it asks for some of them.          *)
(***************************************************************************)
ProbeReads ==
  StackSuffices(desc) /\ BitsFit(desc) =>
    /\ asked \subseteq Readable(desc)
    /\ stage = "idle" /\ Cardinality(Reports(desc)) <= MAX_REPORTS => asked = Readable(desc)

(***************************************************************************)
(* probe asks for no report of the authentication, whatever the descriptor *)
(* (USAGE_PAGE_PS_AUTH: "Not read: a GET_REPORT there can change the       *)
(* device's auth state", hid.rs).  It does not hold of a descriptor that   *)
(* saves more globals than the stack holds: see README.md.                 *)
(***************************************************************************)
AuthNotRead ==
  \A r \in asked : MainItems(desc, r.id, "feature") # {} =>
                     PageOf(desc, r.id, "feature") # USAGE_PAGE_PS_AUTH

(***************************************************************************)
(* A report that differs from the last does not stay unlogged for twice    *)
(* the interval, whether more of them come, and whenever, or none ("The    *)
(* timeout only bounds how long a coalesced change can stay unlogged",     *)
(* hid.rs).  Once is not enough: a report right before the line is due     *)
(* puts it off by another timeout.                                         *)
(***************************************************************************)
ChangesLogged == \A i \in Interfaces : mon[i].age < 2 * REPORT_LOG_INTERVAL

(***************************************************************************)
(* A device plugged into a port that nothing is served on is served in the *)
(* end, with R13 or without and however often its enumeration fails ("No   *)
(* attempt limit", usb_host.rs), also when the addresses of a hub's devices*)
(* have been lost with it.                                                 *)
(***************************************************************************)
ServedInTheEnd ==
  port = "device" /\ stage \in {"wait", "enumerate"}
    ~> stage \in Serving \/ port = "empty"
=============================================================================
