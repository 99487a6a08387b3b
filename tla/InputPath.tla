----------------------------- MODULE InputPath -----------------------------
(***************************************************************************)
(* The wheel's input on its way to the console, wheel role: forward_input  *)
(* (proxy.rs) translates each report into INPUT (device.rs), which         *)
(* send_input writes to the endpoint at every poll and control_in answers  *)
(* GET_REPORT with.  INPUT outlives the wheel and the connection.          *)
(*                                                                         *)
(* The endpoint holds one packet.  send_input takes the next one from      *)
(* INPUT at once and then waits for the endpoint, so what a poll returns   *)
(* was taken from INPUT two polls before.                                  *)
(***************************************************************************)
EXTENDS InputMap, Sequences

CONSTANTS
  Reports,      \* what a wheel may report
  MaxReports,   \* bound: reports of all wheels
  MaxWheels     \* bound: wheels attached one after the other

ASSUME InputAssumption ==
  /\ Reports \subseteq C272
  /\ MaxReports \in Nat /\ MaxWheels \in Nat

VARIABLES
  \* the wheel and its proxy
  wheel,     \* wheels attached so far
  proxy,     \* "none", "waking", "serving"
  polling,   \* forward_input: "no", "yes"
  link,      \* WHEEL_LINK
  sent,      \* history: the reports the wheels sent, with the wheel
  \* the device
  input,     \* INPUT
  held,      \* what send_input is writing
  buffer,    \* the endpoint's packet
  \* the console
  bus,       \* "off" the bus, "attached", "reset", "configured"
  enabled,   \* the endpoint is enabled: "no", "yes"
  read,      \* the last input report the console got on this connection
  conn,      \* history: the wheel the console is connected for
  marks,     \* history: Len(sent) at the last poll and at the last but one,
  floor      \* and the report that what was read last must not be older than

wheelVars == <<wheel, proxy, polling, sent>>
deviceVars == <<input, held, buffer>>
consoleVars == <<bus, enabled, read, conn, marks, floor>>
vars == <<wheelVars, link, deviceVars, consoleVars>>

\* A report on its way, with the number of the wheel's report it was made of.
Report(n, r) == [n |-> n, report |-> r]
Nothing == Report(0, neutral)
NoPacket == <<>>

Init ==
  /\ wheel = 0 /\ proxy = "none" /\ polling = "no" /\ link = <<>> /\ sent = <<>>
  /\ input = Nothing /\ held = NoPacket /\ buffer = NoPacket
  /\ bus = "off" /\ enabled = "no" /\ read = Nothing /\ conn = 0
  /\ marks = <<0, 0>> /\ floor = 0

-----------------------------------------------------------------------------
(* Faulty variants, each a slip the code could have made; the properties    *)
(* below are confirmed to tell them from the real definitions.              *)

\* INPUT is written field by field, and the console's side gets between.
WheelReportsTorn(r) ==
  /\ polling = "yes" /\ Len(sent) < MaxReports
  /\ sent' = Append(sent, [wheel |-> wheel, report |-> r])
  /\ input' = Report(Len(sent) + 1,
                     [translate(r) EXCEPT !.accelerator = input.report.accelerator])
  /\ UNCHANGED <<wheel, proxy, polling, link, held, buffer, consoleVars>>

\* send_input takes INPUT only once, when the endpoint is enabled.
WrittenAgain ==
  /\ held # NoPacket /\ enabled = "yes" /\ buffer = NoPacket
  /\ buffer' = held
  /\ UNCHANGED <<wheelVars, link, input, held, consoleVars>>

-----------------------------------------------------------------------------
(* core 1: the wheel *)

\* The next wheel is taken to come when the console has seen the last one go
\* (WheelLink.tla has the times).
ProxyStart ==
  /\ proxy = "none" /\ link = <<>> /\ bus = "off" /\ wheel < MaxWheels
  /\ wheel' = wheel + 1 /\ proxy' = "waking" /\ polling' = "yes"
  /\ UNCHANGED <<sent, link, deviceVars, consoleVars>>

\* forward_input does not wait for serve_ep0 to wake the wheel.
WheelReports(r) ==
  /\ polling = "yes" /\ Len(sent) < MaxReports
  /\ sent' = Append(sent, [wheel |-> wheel, report |-> r])
  /\ input' = Report(Len(sent) + 1, translate(r))
  /\ UNCHANGED <<wheel, proxy, polling, link, held, buffer, consoleVars>>

\* A transfer was canceled, or the host saw the wheel go: keep_polling says no.
\* What else forward_input gets, it polls on after.
InputStops ==
  /\ polling = "yes"
  /\ polling' = "no"
  /\ UNCHANGED <<wheel, proxy, sent, link, deviceVars, consoleVars>>

WheelAwake ==
  /\ proxy = "waking"
  /\ proxy' = "serving" /\ link' = Append(link, "awake")
  /\ UNCHANGED <<wheel, polling, sent, deviceVars, consoleVars>>

ProxyDrop ==
  /\ proxy # "none"
  /\ proxy' = "none" /\ polling' = "no" /\ link' = Append(link, "gone")
  /\ UNCHANGED <<wheel, sent, deviceVars, consoleVars>>

-----------------------------------------------------------------------------
(* core 0: the device *)

\* follow_wheel, and task for the first wheel: INPUT is not touched.
FollowOn ==
  /\ link # <<>> /\ Head(link) = "awake" /\ bus = "off"
  /\ link' = Tail(link) /\ bus' = "attached" /\ conn' = wheel
  /\ read' = Nothing /\ floor' = 0
  /\ UNCHANGED <<wheelVars, deviceVars, enabled, marks>>

FollowOff ==
  /\ link # <<>> /\ Head(link) = "gone"
  /\ link' = Tail(link) /\ bus' = "off"
  /\ UNCHANGED <<wheelVars, deviceVars, enabled, read, conn, marks, floor>>

\* send_input: the next report is taken when the one before has been written,
\* and once the endpoint is enabled.
SendEnabled ==
  /\ held = NoPacket /\ enabled = "yes"
  /\ held' = <<input>>
  /\ UNCHANGED <<wheelVars, link, input, buffer, consoleVars>>

Written ==
  /\ held # NoPacket /\ enabled = "yes" /\ buffer = NoPacket
  /\ buffer' = held /\ held' = <<input>>
  /\ UNCHANGED <<wheelVars, link, input, consoleVars>>

Failed ==
  /\ held # NoPacket /\ enabled = "no"
  /\ held' = NoPacket
  /\ UNCHANGED <<wheelVars, link, input, buffer, consoleVars>>

-----------------------------------------------------------------------------
(* the console *)

\* A bus reset disables the endpoint and empties it.
Reset ==
  /\ bus # "off"
  /\ bus' = "reset" /\ enabled' = "no" /\ buffer' = NoPacket
  /\ UNCHANGED <<wheelVars, link, input, held, read, conn, marks, floor>>

\* By the time the console has addressed the device, send_input has noticed.
Configure ==
  /\ bus = "reset" /\ held = NoPacket
  /\ bus' = "configured" /\ enabled' = "yes"
  /\ marks' = <<Len(sent), Len(sent)>>
  /\ UNCHANGED <<wheelVars, link, deviceVars, read, conn, floor>>

Poll ==
  /\ bus = "configured" /\ buffer # NoPacket
  /\ read' = buffer[1] /\ buffer' = NoPacket
  /\ floor' = marks[2] /\ marks' = <<Len(sent), marks[1]>>
  /\ UNCHANGED <<wheelVars, link, input, held, bus, enabled, conn>>

\* GET_REPORT(Input, 1) on IF0.
GetReport ==
  /\ bus \in {"reset", "configured"}
  /\ read' = input /\ floor' = Len(sent)
  /\ UNCHANGED <<wheelVars, link, deviceVars, bus, enabled, conn, marks>>

-----------------------------------------------------------------------------
Next ==
  \/ ProxyStart \/ InputStops \/ WheelAwake \/ ProxyDrop
  \/ \E r \in Reports : WheelReports(r)
  \/ FollowOn \/ FollowOff \/ SendEnabled \/ Written \/ Failed
  \/ Reset \/ Configure \/ Poll \/ GetReport

Spec == Init /\ [][Next]_vars

-----------------------------------------------------------------------------
(* Properties *)

\* The types, and that every report on its way is the translation of the one
\* it is numbered for (stated without the set of all reports, which TLC
\* cannot enumerate).
OnItsWay(packet) ==
  \/ packet = Nothing
  \/ packet.n \in 1..Len(sent) /\ packet = Report(packet.n, translate(sent[packet.n].report))

TypeOK ==
  /\ wheel \in 0..MaxWheels /\ proxy \in {"none", "waking", "serving"}
  /\ polling \in {"no", "yes"} /\ (polling = "yes" => wheel # 0)
  /\ sent \in Seq([wheel : 1..wheel, report : Reports]) /\ Len(sent) <= MaxReports
  /\ link \in Seq({"awake", "gone"})
  /\ OnItsWay(input) /\ OnItsWay(read)
  /\ held = NoPacket \/ OnItsWay(held[1])
  /\ buffer = NoPacket \/ OnItsWay(buffer[1])
  /\ bus \in {"off", "attached", "reset", "configured"} /\ enabled \in {"no", "yes"}
  /\ conn \in 0..wheel /\ floor \in 0..Len(sent)
  /\ marks \in (0..Len(sent)) \X (0..Len(sent))

(***************************************************************************)
(* Whatever the console reads, at a poll or with GET_REPORT, shows the     *)
(* controls as a wheel reported them, one by one as docs/input-mapping.md  *)
(* lists them, or at rest when no wheel has reported anything.             *)
(***************************************************************************)
ConsoleReadsWheel ==
  IF read.n = 0 THEN read.report = neutral
                ELSE Shows(read.report, sent[read.n].report)

(***************************************************************************)
(* What a poll returns is no older than what the wheel had reported at the *)
(* last poll but one (at most two intervals of 5 ms, then), or when the    *)
(* console configured the device; GET_REPORT returns the latest.  device.rs*)
(* says "the latest input report at every poll".                           *)
(***************************************************************************)
UpToDate == read.n >= floor

(***************************************************************************)
(* On each connection the console is sent the report at rest until the     *)
(* wheel it is connected for has reported something (input_map.rs, "The    *)
(* report sent before the wheel's first report: everything released, wheel *)
(* centred").  It does not hold: INPUT keeps the last wheel's.             *)
(***************************************************************************)
NeutralFirst == read.n # 0 => sent[read.n].wheel = conn
=============================================================================
