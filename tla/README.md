# A TLA+ model of rp-wheel-bridge

rp-wheel-bridge is firmware for a board with two RP2350 cores. A Logitech G PRO
wheel for Xbox/PC is plugged into one side (behind a hub, with a licensed
controller) and a PS5 into the other, which is shown the PlayStation G PRO. This
directory models the parts of the firmware in which several tasks, two cores,
statics that outlive their tasks, and devices that come and go have to agree.
TLC checks the models on small instances; TLAPS proves the theorems of the
`*_proofs` modules for every value of the constants.

1. [Inventory](#inventory)
2. [Modules](#modules) and how they correspond to the code
3. [Runs](#runs): what is checked, the bounds, the fairness
4. [Proofs](#proofs)
5. [Disagreements found](#disagreements-found)
6. [What is not modelled](#what-is-not-modelled)

## Inventory

All files are in `src/src/`. Core 0 runs the UART logger and the native USB device;
core 1 runs the PIO USB host with everything behind it. Each core has a cooperative
executor: between two awaits a task is not interrupted by another task of its core,
but the other core may run anything. The cores share queues (`Channel`), signals
(`Signal`, the last value only), atomics and mutexes with a critical section.

| component | state | operations | correct when |
|---|---|---|---|
| Wheel link (`device.rs` `task`, `follow_wheel`; `proxy.rs` `run`, `serve_ep0`, `forward_ffb_out`, `recover_ffb`) | `WHEEL_LINK`, `FFB_OUT`, `FFB_RECOVER`, `FFB_HALT_CLEARED`; `attached` and the position of four tasks | a proxy starts, wakes the wheel, forwards force feedback, recovers from a STALL, is dropped; the device goes on and off the bus | the console has the device while the wheel is awake and working, and otherwise not; it surely sees each unplug; nothing of an old connection goes to a new one |
| Authentication relay (`auth.rs`) | `STATE` (the console's), `CMD`, `NONCE`, `NONCE_REFUSED`, the attempt | the console's F0-F3 on core 0; passing on, resending, signing again, fetching, publishing on core 1 | the console is only given a whole signature of its present nonce; the signer is not overworked; the task is never stuck |
| Proxy HID++ requests and control repeats (`proxy.rs` `hidpp_request` and its users, `rev_lights`, the IF1 closure) | `WAKING`, `WHEEL_ANSWERED`, `BRIDGE_ANSWER`, `LED_FEATURE`, `rev_level`, `HIDPP_IN`, `CONTROL_OUT`, `IF0_OUT` | pings, feature requests with timeouts, routing of what the wheel sends, repeated console requests, rev lights | answers reach who asked; what is kept of them is what was asked for; each wheel gets served |
| USB hub (`hub.rs`) | `port_child`, `busy`, slots of the children, the bus's addresses | port events, polls that fail, enumeration with retries, hand-over, serving, release | a child has a device exactly while that is on its port; addresses are neither shared nor lost |
| Log output (`uart_log.rs`) | `PIPE`, `DROPPED` | `log` on both cores, the UART task | lines whole or not at all; what is dropped is counted and reported |
| Native USB device data path (`device.rs`; `forward_in`, `forward_input` of `proxy.rs`) | `INPUT`, `INPUT_IN`, `FFB_IN`, the endpoints, `STATS` | polls answered from `INPUT`, reports cut into transfers, queues, class requests | the console gets the latest report, and everything else whole, in order and from the wheel it is connected for |
| Input translation (`input_map.rs`) | none | `translate` | agrees with `docs/input-mapping.md` |
| USB host, root port (`usb_host.rs`) | the root device, its address, the bus's addresses | wait, enumerate without limit, classify, serve, disconnect | each device is served in the end, under an address of its own |
| HID probe and monitor (`hid.rs`) | what was found in the descriptors; the changes not yet logged | descriptor walks, feature reports, logging of input | the interfaces and reports found are those of the descriptors; the auth reports are left alone; no change stays unlogged |
| DriveHub relay (`relay.rs`) | the queues of the device, `BACKEND_READY` | packets forwarded one by one, requests and auth commands over one EP0 | order and boundaries kept, what is lost is counted |
| Start-up (`main.rs`), G HUB start-up capture (`ghub_init.rs`) | none | tasks are spawned; a table | |

Who calls whom: `host_task` enumerates the hub and runs `hub::run`; its `events` loop
hands devices to children, each of which runs `serve_device`: `proxy::run` for the
wheel, `auth::serve` for the signer. A detach drops the future of whatever runs,
at any of its awaits. The proxy reports to the device side through `WHEEL_LINK` and
shares the queues with it; the device's `Control` handler, which must answer at once,
calls `auth::get_report`/`set_report`, and these talk to the signer's task through
`STATE` and `CMD`.

Hard to test, and therefore what the properties are about (`hazards` in
`PROJECT.json` has each with its line): futures dropped half-way while statics
survive them; a report or answer arriving after its wait timed out; two tasks of one
proxy starting at the same time although one must wake the wheel first; requests
of the console overtaking a signing in progress; transfers whose reply is lost after the
device acted; devices replugged while the hub loop is busy; both cores logging at the
same time into an almost full pipe; a bus reset in the middle of a report; a connection
made while something of the last one is being written; descriptors nobody has on the
desk.

## Modules

| module | models | composes / extends |
|---|---|---|
| `ConsolePort` | abstract: what the console sees of the port | |
| `WheelLink` | the wheel link | implements `ConsolePort` |
| `WheelLink_proofs` | theorems | `WheelLink` |
| `AuthRounds` | abstract: what the console is promised of its rounds | |
| `Auth` | the authentication relay | implements `AuthRounds` |
| `Auth_proofs` | theorems | `Auth` |
| `Hidpp` | HID++ with the wheel and the console | |
| `Hidpp_proofs` | theorems | `Hidpp` |
| `HubPorts` | the hub, its children, addresses | |
| `HubPorts_proofs` | theorems | `HubPorts` |
| `UsbHost` | the root port: `host_task`, `serve_device`, `probe`, `monitor` | extends `Hid` |
| `Hid` | the descriptor walks of `hid.rs`, as operators, with what they should find | |
| `UsbHost_proofs` | theorems | `UsbHost`, `Hid`; `Relay`, one of the tasks `serve_device` starts |
| `UartLog` | log output from two cores | |
| `UartLog_proofs` | theorems | `UartLog` |
| `InputMap` | `translate` and the tables of the documentation, as operators | |
| `InputPath` | a report's way from the wheel through `INPUT` to the console | extends `InputMap` |
| `InputPath_proofs` | theorems | `InputPath` |
| `LossyFifo` | abstract: items come out in order and once, some are lost | |
| `InEndpoint` | the IN queues and endpoints, in each role | implements `LossyFifo` |
| `InEndpoint_proofs` | theorems | `InEndpoint` |
| `Relay` | the relay role towards DriveHub | implements `LossyFifo` twice |
| `MCInputPath`, `MCUsbHost` | instances for TLC: reports; configurations and report descriptors | |

Each module has a section "Faulty variants": definitions with a slip the code could
have made, which show that the properties would notice it. They are not part of the
specification. `map` in `PROJECT.json` names the lines each definition stands for.

**Atomicity.** An action is what a task does between two awaits that another task
or core can get between. A control transfer whose outcome alone matters is one step
with every outcome it can have; a transfer during which other tasks matter is two
(`ClearHaltBegin`/`ClearHaltEnd`, `FfbTake`/`FfbSent`).

**WheelLink.** `ep0` is the position of `serve_ep0` ("waking", "serving",
"clearing" a halt), `ffb` that of `forward_ffb_out` and `recover_ffb`, `dev` and
`attached` those of `task` and `follow_wheel`. `ProxyStart`/`ProxyDrop` are
`run` entered and its future dropped (with `WheelLink::drop`); `recover` and `cleared`
are the two signals, which `ProxyDrop` leaves as they are. `LinkSend` is `wheel_link`,
`try_send` ignored result included. A packet of force feedback is only told apart by
whether it was queued for an earlier wheel ("gone") or over an earlier console
connection ("left"). The wheel may STALL at any time, also while `serve_ep0` still wakes
it; `early` remembers that a recovery began then. Time is in ticks of 100 ms; `Urgent`
lets no time pass while a task has something to do, since the tasks are quick against
100 ms. How long a control transfer takes is left open.

**Auth, AuthRounds.** Core 0's handlers are `GetReset` (F3), `SetReport` (F0), `GetState` (F2),
`GetSignature` (F1); `pc` is the position of the signer's task in `serve`, `handle`,
`sign` and `fetch_signature`. A nonce is the number of its round, a signature page the
round it signs and its number. The signer does what the comments in `auth.rs` and
`docs/ps5-auth.md` say of it: it steps its page on every GET it takes, may refuse a
SET F0 or take it and lose the reply, and says "ready" for a moment after it was
given a nonce. `Unplug` is the signer going away at any await; the statics stay.
The console starts its next round whenever it likes, also during a signing, and the signer
may refuse any page. `fault` remembers what was wrong with the present round: it was started
before the task had kept up (`CaughtUp`: done with the last round, and room in CMD for this
one), or the signer did not take its first page. The properties that fail in such rounds
are stated for the others; what was wrong with a round is no excuse for the next.
`AuthRounds` keeps what the console sees: the round, "ready", and the pages given; it
promises them of each round that is `kept`.

**Hidpp.** One `wheel` after another; `pc` is the position of `serve_ep0`. Requests
the wheel has not answered are `owed`, tagged with whose they are. `WheelAnswers`
passes an answer through `Route`, the closure of IF1's `forward_in`. An answer is
reduced to the byte that is used: 0, the wheel's own LED index (a wheel's number
stands for it) or something else. What the code keeps over wheels (`ledFeature`,
`answer`, `waking`, `answered`, the queues) the model keeps. A request whose wait timed out, or
whose transfer failed after the wheel took it, stays owed, since nothing keeps the wheel from
answering it yet; `givenUp` remembers that there was one. The GET_STATUS ticker only logs.

**HubPorts.** `pc`, `port`, `free`, `attempt`, `info` are the locals of `events`;
`slot[c]` is child c's `Signal`; `child[c]` and `serving` are the position of `child`. `PollFails` is a poll of the hub that
fails or answers something unexpected, `BackoffEnds` the end of ERROR_BACKOFF.
`run` joins the loop and the children in one task, so a child is polled, and takes its
signal, before the loop goes on from an await: `Settled`. The hub reports the present
state of a changed port; `HubHandler` and the table of addresses are external.

**UartLog.** `Format`, `Enter` (the critical section), `Drop`/`Keep`, `Push` (one
`try_write`, which may take only a part), `Leave` on each core; `Read` and `Transmit`
of the task. A byte knows its record, whether it belongs to a notice, and its place.

**InputMap, InputPath.** A byte of buttons is the set of its bits, an axis its 16-bit
number. `translate` is the code's; `Shows` says what the console's report must say of the
wheel's, line by line from the tables of `docs/input-mapping.md`. In `InputPath`, a
report travels with the number of the wheel's report it was made of: `WheelReports` is
one turn of `forward_input` with `set_input`; `SendEnabled`, `Written` and `Failed` are
`send_input`; `Poll` and `GetReport` are the console. The endpoint holds one packet, so
a report waits twice: in `held` while `send_input` waits for the endpoint, and in
`buffer`. `marks` and `floor` remember what the console can ask of a poll.

**InEndpoint, LossyFifo.** What is queued is a unit: a report, or in the relay role one
packet. `Push` is `forward_in` of `proxy.rs`; `WaitEnabled`, `Take`, `WritePacket` and
`WriteFailed` are `forward_in` of `device.rs` with embassy's `write_transfer`, which cuts
a report into packets; `Poll` puts them together again as the console does. `Boot` is
`task`, which waits for the first wheel (or DriveHub) and clears nothing; `FollowOn` and
`FollowOff` are `follow_wheel`, which clears the queue from the second connection on. The same module is used for `INPUT_IN` and `FFB_IN`, since they only
differ in their endpoint.

**UsbHost, Hid.** `stage` is the position of `host_task` and of what it calls. A device's
descriptors are only chosen when they are read (`EnumerateOk`, `ReadDescriptor`), which
spares a state for each of them before. `ServeDevice` is `serve_device`'s choice of what to do.
`Finder` and `Summary` are the locals of `find_interfaces` and `log_report_summary` after
each descriptor or item, as recursive functions of how many there were; `Finds` and
`Readable` say by quantifiers over places what is to be found. A report's bits are counted
modulo `U32`, 2^32 in the code. `mon` is `monitor_interface` with time in ticks.
`proxy::run`, `relay::run`, `auth::serve` and `hub::run` are each a stage that ends, or
does not, when the device goes.

**Relay.** `pc` is the position of `try_signer` and `serve_ep0`, `out` that of
`forward_out`; the console's side (`ConsoleRequests`, `ConsoleAuth`, `ConsoleWrites`) are
the handlers of `device.rs`. Requests and packets are numbered; `handle` is in `Auth`.
`dropped` counts from the start; the periodic log line, which reads and resets the
code's counter, is left out.

## Runs

Every run takes at most about a minute and a half. The three violation runs belong to
[disagreements](#disagreements-found).

| run | bounds | what it shows |
|---|---|---|
| `wheel_link` | the code's intervals in ticks (MIN_DETACH 5, halt timeout 10, recovery interval 50), WHEEL_LINK 4, FFB_OUT 2, next wheel >= 0.9 s later and >= 0.1 s of waking; STALLs at any time | Once the reports are taken, the device is on the bus when the wheel is present (awake and not being recovered), and otherwise only with a wheel whose recovery began before it was awake (`LinkTracksWheel`); queued packets are of this connection (`QueuesFresh`); the link implements `ConsolePort` (`ConsoleSeesUnplug`); every "gone" takes the device off (`GoneSeen`); every "awake" brings it back (`BackOn`) |
| `auth` | nonce of 3 pages, signature of 3, 2 attempts, CMD 5, 2 rounds, started at any time; any page may be refused or its reply lost | In a round not at fault, what is told ready is the whole signature of that round (`SignatureForNonce`); a round is signed once and its pages are given in turn, as `AuthRounds` has it (`RoundsKept`). In all rounds: pages refused, but for the first, are sent again before the signature is awaited (`LaterPagesResent`); signing runs are bounded (`SigningBudget`); the task gets back to the commands (`BackToCommands`) |
| `hidpp` | 2 wheels, answers late or never, 2 pings, table of at most 2 entries, 2 LEDs, queues of 1 | The LED index changes only to the one the wheel attached was asked for, until a request to it is given up (`IndexKept`); answers reach their side (`RightSide`); the lights follow the console (`LightsFollow`); each wheel is served, answering or not (`GetsServed`) |
| `hub_ports` | 3 ports, 2 children, 3 devices, 3 addresses, 2 attempts | Children follow the ports (`ServesAttached`); addresses are distinct and accounted for (`AddressesDistinct`, `AddressesKept`); a gone device's child is released (`GoneReleased`) |
| `usb_host` | 2 devices, 514 configurations, 2805 report descriptors, 2 interfaces and 2 reports noted, a stack of 1, 3 addresses, 2 children, an interval of 2 ticks | The interfaces found are the configuration's (`InterfacesFound`); of a report descriptor that saves its globals no deeper than the stack, the probe asks for all feature reports but those of the authentication (`ProbeReads`); no change stays unlogged for two intervals (`ChangesLogged`); each device is served in the end (`ServedInTheEnd`) |
| `uart_log` | 2 cores, pipe 5, lines up to 3, notices 2, count saturating at 2, 4 records | Whole lines, notices in front of their records (`WholeLines`); no record is lost silently (`Accounted`) |
| `input_path` | 6 reports, 2 reported, 2 wheels | The console reads each control as the tables say (`ConsoleReadsWheel`), from a report that is recent enough (`UpToDate`) |
| `in_endpoint` | the 3 roles, packets of 2 or 3, reports of 0, 2 and 3 of at most 3, queue 2, 3 units, 2 devices, 1 bus reset | Reports arrive whole and in order (`WholeInOrder`), from the wheel of this connection (`NothingOld`), and the queue is drained (`KeepsUp`) |
| `relay` | queues 2, 2 probe tries, 4 requests, 3 commands, 4 packets, 2 DriveHubs | Requests and packets pass in order, none twice (`InOrder`); what is lost in a queue is counted (`DropsCounted`) |
| `auth_first_page` | as `auth`, signature of 2, CMD 4 | A refused first page that is not sent again (`RefusedResent` violated) |
| `input_stale` | as `input_path`, smaller | A first report of an earlier wheel (`NeutralFirst` violated) |
| `relay_after_failure` | as `relay`, smaller | A relay without its OUT task (`FailureEnds` violated) |

**Why the bounds are enough.** WheelLink: its intervals are the real ones; two packets
distinguish head and tail, and `WHEEL_LINK` has its real capacity, since how many
reports queue up while `follow_wheel` sleeps is a question of time. By trying other
values TLC finds that no report is ever dropped as long as a wheel takes at least
two MIN_DETACH, 1 s, from the end of one proxy to being reported awake by the next
(`ReplugTime` 9 + `WakeTime` 1 ticks pass, 8 + 1 do not). The code does not enforce
this; it rests on the wheel, which boots for about 5 s (`hub.rs`, module comment). Auth:
two rounds let a signature, a page kept and a refusal of one round be seen in the next, and
a round start while the last is being signed; three pages let one be first, middle and last; CMD of 5 has
room for one round and not for two. A round after one that was started early takes a third;
TLC finds no violation of the safety properties with three either (4 million states, with
a signature of 2 pages), and they are proved for any number. Hidpp: what statics carry over
needs two wheels; queues of one are full as soon as anything is in them. HubPorts: one
port more than children makes a device that finds none free; the theorems hold for any
number. UsbHost: the configurations are all of one interface and three descriptors out
of eight kinds, so that an alternate setting, a foreign interface, endpoints of each
kind and HID descriptors with and without a report descriptor stand in every order, and one
with more interfaces than are kept; the report
descriptors are all of up to four items out of seven after one report of 12 bits, cut
off wherever the buffer or the HID descriptor ends them, and some that save their globals
one deeper than the stack; with `U32` 32 three main items of 12 bits wrap.
What is found in all others is proved. UartLog: the pipe is shorter
than two lines with a notice, so each way of not fitting occurs, also with a
wrapped-around buffer. InputPath: bytes are all 0, all 1 and three patterns that tell any
two bits apart, so that an exchange of two bits shows; two reports are one to be late
and one to be overtaken by. What `translate` does with all other reports is proved.
InEndpoint: a report of one packet, of one full packet, of two, of the maximum and of
length 0, with an endpoint that divides the longest report and one that does not; three
units are one being written and a full queue. Relay: more than fit into each queue, and a
DriveHub after the one that failed.

**Stopping.** `CHECK_DEADLOCK FALSE` stands where a bound on history ends a
behaviour (records logged, devices plugged in, wheels attached, reports sent).

**Fairness.**
- `WheelLink`: weak fairness of `Follow`, `RecoverDone` and `Tick`: the device task is
  woken by its queue, `recover_ffb`'s wait is a `with_timeout`, timers fire. None of
  the wheel, the console, or `serve_ep0` (a transfer may take any time).
- `Auth`: weak fairness of the signer's task and of `PollTimeout` (`SIGNER_TIMEOUT`).
  None of the console, the signer or the outcome of transfers.
- `Hidpp`: weak fairness of `Wake` and `Features`, the waking and asking part of
  `serve_ep0`: each of its waits has a timeout. A control transfer ends because the
  host driver gives each a no-data timeout. None of the wheel or the console.
- `HubPorts`: weak fairness of each child's taking a signal and of `BackoffEnds`, a
  timer; strong fairness of the events loop, since a poll of the hub may fail at any
  time and send the loop to sleep, but a hub that is there answers in the end. None of
  the devices.
- `UsbHost`: weak fairness of `Connect` and `EnumerateOk`: `host_task` sees a device on
  the port, and one that stays plugged in answers its enumeration at last. None of when
  devices come and go, nor of what is served.
- `InEndpoint`: weak fairness of the four steps of `forward_in` together, and of the
  console's polling an endpoint it has configured. None of the device behind the bridge.
- `Relay` (only for `FailureEnds`): weak fairness of `serve_ep0` and of `forward_out`.

**Taken from other modules or from outside.** The next wheel comes when the console has
seen the last one go (`InputPath`, `InEndpoint`; `wheel_link` says with which times this is
so). A bus reset ends a write that waits for the endpoint, and by the time the console
has addressed the device and configured it, the task has noticed (`Configure`). On the
root port the next device comes when the last one's going was noticed, unless R13 hides it.

## Proofs

All theorems hold for every value of the constants that their module's assumption
allows. Each is proved from an inductive invariant with one proof step per action.

`WheelLink_proofs`, from `LinkAssumption` (capacities and MIN_DETACH positive):

- `TypeCorrect`: `TypeOK` is inductive.
- `AlwaysFresh`: `QueuesFresh` is not inductive, since the device boots with the
  pull-up off but without clearing a queue; `FreshInv` adds that nothing is tagged as
  left while the device has not booted.
- `FollowsWheel`: `LinkTracksWheel` speaks of an empty queue only. `TrackInv` says
  where the device will be once all reports are taken, that is, what the last report in
  `WHEEL_LINK` says, or the pull-up if there is none (`Announced`): on the bus if the wheel is
  `Present`, and only then or after a recovery that was `early`. A report that fits becomes
  the last one (`SendAnnounces`), and taking the first does not change the last
  (`TakeAnnounces`). It needs `Phases` (what `dev` says of `attached`) and `EarlyInv`: a
  recovery under way is of an awake wheel or `early`, and `early` ends with the waking and
  that recovery. The theorem holds for all intervals, and whenever the wheel STALLs; it is
  stated for as long as no report was `lost`.
- `NoReportLost`, `AlwaysTracks`: no report is lost, and the device therefore follows the
  wheel without that condition, for all constants that keep to `Intervals`, which speaks
  of times and of the queue's capacity: four places in `WHEEL_LINK`, MIN_DETACH less than
  `ReplugTime` and than RECOVERY_INTERVAL, twice MIN_DETACH at most `ReplugTime + WakeTime`, the
  wait for the halt less than RECOVERY_INTERVAL. What is asked of `ReplugTime` and `WakeTime` is asked of the
  wheel (see "Why the bounds are enough"); the rest is met by the code's own constants. The argument: `Due` is the
  time until the device side has taken every report, the rest of the sleep it is in and one
  MIN_DETACH for each report in the queue that takes the device off. It is over before the
  next wheel is awake and before the next recovery begins (`RoomInv`). `ToCome` counts
  the reports this proxy can still make before that, at most one each for the waking and the
  end of a recovery, and two for a recovery that is due; together with those that wait they
  are at most three, so that there is a place left for the one that the wheel is gone.
  `SleepsAppend` and `SleepsTail` say what a report more or less adds to the sleeps,
  `FollowKeeps` and `TickKeeps` what the device side and the clock take away.
- `PortImplemented`: every step of the link is a step of `ConsolePort` or none.

`UartLog_proofs`, from `LogAssumption` (finitely many cores, positive line lengths):

- `TypeCorrect`: the pipe is never asked for more than it holds, with `Exclusive` (one
  core in the critical section).
- `AlwaysWhole`: `StreamWell` says that what was sent, is being sent and is in the
  pipe is a chain of whole lines, up to the part the core in the critical section
  has still to push (`LinesWell`); the chain lemmas cut it and join it.
- `AllAccounted`: `Counting` adds the records on their way to the sum, and that the
  count a core has read is still the count while it is in the critical section.

`HubPorts_proofs`, from `HubAssumption` (numbers positive):

- A device's address goes from the events loop (`info`) over a child's slot to the
  child, and a child has only one of the last two at a time: its `Item`. That rests on
  `Phases`, a child's four states (idle, handed a device, having it, told that it is
  gone), and on `Loop`: nobody is signalled while the loop enumerates, so the child it
  picked before stays free. A handover and a release are then the only steps that change an
  item (`ItemKept`).
- `AlwaysKept`, `TypeCorrect`: with items, `InUse` says what `AddressesKept` says, and is
  inductive together with `Apart` (no address is held twice).
- `AlwaysDistinct`: `AddressesDistinct` needs that an address that is given back is
  answered to by nobody. `Answers` says that a device answers to an address that is
  held for its port, by a child that was not told it is gone; `Named` that a port's
  entry in `port_child` is the child that has this port's device.
- `AlwaysServes`: `ServesAttached` speaks of moments without an unreported change.
  `Unhurried` says what such a change can be otherwise: on a port that names a child it
  is the removal of that child's device.

`InputPath_proofs`, from `InputAssumption`:

- `Translation`: for each of the 2^88 reports `translate` shows each control where
  `docs/input-mapping.md` has it. Each byte is a lemma (a bit of it is set by
  exactly the pairs of its table), the rest goes through the 19 controls one by one.
- `TypeCorrect`, `AlwaysShows`: `TypeOK` says of every report on its way that it is the
  translation of the report it is numbered for; with `Translation` that is
  `ConsoleReadsWheel`.
- `AlwaysUpToDate`: `Ages` says of each place a report waits in (INPUT, `held`, the
  endpoint) since which poll it can have been there at most.

`UsbHost_proofs`, from `HidAssumption` and `UsbHostAssumption` (capacities and intervals
positive, configurations and report descriptors any sets of sequences, of any length):

- What the recursive functions compute. Library theorems for induction take an operator,
  which the provers cannot instantiate, so induction goes by the least counterexample:
  `Least` comes from the library's theorem that < is well-founded on the naturals,
  `UpTo` is induction over 0..n with a set in place of an operator, and `FinderDef`,
  `SummaryDef`, `InEffectDef`, `PartialSumDef` show with it that each function exists and
  obeys its equation.
- `FindsInterfaces`: `Found` says what the finder holds after n descriptors: as many
  interfaces as there are among them, or as it has room for, each at its rank with the first
  endpoints so far, and `current` the rank of the one the next descriptor belongs to, 0 if
  none.
- `AsksReadable`, for the descriptors whose Pushes the stack suffices for and whose reports
  have less than 2^32 bits (outside, what is asked for can be wrong, see below):
  `Stacked` names the Pushes that are open after n items, the last one
  first, and says that between two of them no Push stays open; so a Pop belongs to the first
  (`PushOfLast`), and what the reference says by counting is what a stack does. With it
  `Saves` says that the code's stack holds the globals in effect at those Pushes
  (`GlobalsInEffect`). `Summed` says that each report kept has the sum of its main items so
  far; `SumIsPartialSum` shows that a sum over a set does not depend on the order it is
  taken in, and `SumsFit` that nothing wraps on the way to a sum that fits. `AllKept` counts: when the reports are no more than there is room for, none is
  left out.
- `HostInvariant`: `HostInv` is inductive. `BoardOK` and `AddressesOK` are the type and that
  whoever is served has an address that neither the hub's devices nor the lost ones have.
  `ProbeOK` says that what was asked for and what is left to ask for are together what
  is to be asked for (`Asks`), which `AsksNext` keeps: `ProbeReads` alone says nothing of
  what is left. `MonitorsOK` bounds the age of an unlogged change by the time since the
  last line before the interval is over, and by the interval and the transfer under way
  after: `ChangesLogged` alone does not bound the next tick.
- `HostTypeCorrect`, `AlwaysFound`, `AlwaysReads` (under `AsksReadable`'s two conditions) and
  `AlwaysLogged` follow from it.

and about the relay, from `RelayAssumption`:

- `TypeCorrect`; `AllCounted`: `DropsCounted` is inductive with it.
- `OrderKept`: in each line (console, queue, task, DriveHub) the numbers go up (`Lines`):
  what arrived is less than what is under way, which is less than all that is queued.
  Each step is then one of `LossyFifo` or none (`Passing`).

`InEndpoint_proofs`, from `EndpointAssumption` (no packet and no report longer than the
longest report):

- `TypeCorrect`, with `Writing`: what is written is a packet of its unit.
- `OrderKept`: `InLine` says that the numbers go up from what has come over what is being
  written to what is queued. The rest is about packets. `Cut` is the arithmetic of the
  framing: every packet but the last is full and ends before the longest report does; the
  last is short or ends with it. `Stream` says that what is in flight (the transfer the console
  has begun and the packet in the endpoint) is the packets of one unit from the first on,
  and that what is being written goes on with it or starts a unit behind a whole one. So a
  transfer ends just where its unit does (`EndsWithUnit`, `PollEnds`). It holds only while
  the device is configured: between a disconnect and the reset a packet of an old unit may
  sit in the endpoint. `Emptied` and the guard of `Configure` are why a new configuration
  starts with nothing in flight.
- `NothingOfEarlierWheel`: `Followed` says that, from the second connection on, what is
  queued, being written or in flight is of the wheel the console is connected for.

`Auth_proofs`, from `AuthAssumption` (numbers of pages and attempts positive):

- All of them hold however the console's rounds overlap and whatever the signer refuses. The
  invariant `IInv` has two parts: `Always` for every round, and `Kept` for a round with
  `fault = "none"`. What makes `Kept` true at the start of a round is the part `Always`, since
  `Kept` may have been false before: so `Always` has to say enough of what earlier
  rounds leave behind.
- `Always`: `NoneAhead` (nothing is of a later round than the console's), `NothingHeld` (an
  absent signer holds nothing), `Noted`, and `Ordered`: pages come in the order in which they
  were sent, each once, so of a page the task has had, or one the signer holds, all that is
  queued comes after (`Past`, `Done`). `Resent` says which pages can have failed at each
  point of `handle` and `sign`; `LaterAreResent` follows. `Budget` counts the run that is due
  with those that were made (`Spent`), and says that only the round of the last page that
  was taken (`Last`) is signed; an attempt adds one, a lost reply (`replyLost`) one more. It
  needs `Missed`: when a page was refused before the last one has come, the signer lacks
  a page that does not come again, so that it does not sign before `sign` resends;
  `SigningIsBounded` follows.
- `Kept`: a page of the round is `Pending` until the signer has been sent it.
  `InOrder` says that pending pages are behind everything else and in order, so when the last
  one is taken none is left. Then either the task has had every page of the round
  (`Complete`), or the signer came in the middle of it and has signed nothing else
  (`Fresh`). Neither is inductive alone: a signer that is plugged in during a round finds pages
  missing. `Collected` relates what the signer holds to what is pending; `Signed` says what it
  has at each step of `sign`, and with that what `fetch` reads; `Told` carries it to the
  console. `SignatureIsForNonce` follows. A round that falls at fault drops out of `Kept`, and
  the next one that is not enters it anew.
- `RoundsImplemented`: every step of the relay is one of `AuthRounds` or none.
  `AuthRounds` says more than the invariants: "ready" is never taken back within a round, and
  never announced twice.

`Hidpp_proofs`, from `HidppAssumption`:

- `TypeCorrect`.
- `AnswersToTheRightSide`, late answers included: a wheel that is being woken has been asked
  by the bridge only (`Owing`), so WAKING, which lets every answer in, catches none
  for the console; and a wheel that is gone owes nothing, so WAKING left set by a dropped
  proxy (`Waking`) does no harm.
- `LightsAsWanted`: `Sent` says that `rev_level` is what the console wanted last, or nothing
  was wanted of this wheel yet.
- `IndexWasAskedFor`: as long as no request to the wheel was given up, there is one question
  at a time under way and the answer that waits is to that (`AskedOne`); a wheel that is gone
  owes nothing to the next. It assumes nothing of when a wheel answers: that an index is kept
  after a request was given up is in the property itself; what becomes of it then is noted
  below.

Model-checked only: all liveness properties (`GoneSeen`, `BackOn`, `BackToCommands`,
`GetsServed`, `GoneReleased`, `KeepsUp`, `ServedInTheEnd`), which need fairness. Every
safety property that a passing run checks is a theorem as well. No module declares a
recursive operator.

## Disagreements found

Each is a violation run; `findings` in `PROJECT.json` quotes the lines.

- `auth_first_page`: the refusal of nonce page 0 is forgotten in the same call that
  notes it, so the promised resend does not happen. With it the whole round
  fails, and the signer's old signature can be published for the new nonce.
- `input_stale`: INPUT keeps the last wheel's report, so the console's first report on
  the next connection is not the one at rest.
- `relay_after_failure`: `forward_out` ends at a failed transfer, the rest of the relay
  goes on without it.

Noted on the way, without a run:

- `OnBusOnlyAwake` of `WheelLink` fails: `forward_ffb_out` runs beside the task that wakes the
  wheel and takes what FFB_OUT still holds. When the wheel STALLs that, a recovery begins,
  whose end (after a second, since `serve_ep0` cannot clear the halt meanwhile) reports the
  wheel "back": the device goes on the bus before the wheel is awake, which `device.rs` has
  it "only then". It lasts until the wheel is awake, and does no harm after
  (`LinkTracksWheel`).
- `OwnSignatureRead` of `Auth` fails: a console that starts its next round while the last one's
  nonce is with the signer gets that signature for the new one, published under the
  console's nonce id of that moment. `docs/ps5-auth.md` has the console give up a round that
  does not finish and start the next; it also has F2 say "signing" until all pages
  of the signature are cached.
- `LedFeatureAsked` of `Hidpp` fails: an answer that comes after its request was given up (the
  wait timed out, or the transfer failed) is taken for that of the next one, and a byte
  of it may be kept as the LED feature's index.
- `AuthNotRead` of `UsbHost` fails: a Push beyond the stack of four is ignored but its Pop is
  not (`hid.rs`, `log_report_summary`). The Pop brings back the globals of an earlier Push, a
  main item of the authentication's usage page is taken for one of another page, and the
  probe asks for that report, although `USAGE_PAGE_PS_AUTH` says "Not read". TLC finds it
  with `STACK_LEN` 4, `REPORT_DESC_BUF_LEN` 9 and `DeepNest(4)` of `MCUsbHost`.
- A reply lost after the signer took the last page costs one signing run more than
  SIGN_ATTEMPTS (`SigningBudget` allows it, and says so).
- `NoStaleForce` of `WheelLink` fails: packets queued for the wheel before are sent to a
  new one, since the queues are cleared only when the device goes on the bus again.
- `DetachesSeen` of `HubPorts` fails (2 ports): a device replugged while the loop
  enumerates another port is reported as detected only; its old child keeps serving a
  device that is gone.
- A hub behind the hub keeps its address for good, as do the devices of a hub that
  is unplugged: after many of them devices behind a hub cannot be enumerated. The
  root port always has an address left (`ServedInTheEnd`). A device that finds no free
  child is not looked at again until it is replugged.
- `LedFeatureOfWheel` of `Hidpp` fails: the LED index of the wheel before stays in use
  when the present one does not answer, although the log says "rev lights off".
- `forward_ffb_out` returning leaves the proxy running without force feedback.
- The relay does not clear CONTROL_OUT and FFB_OUT for the next DriveHub, which is sent
  what was left over.
- For the first connection no IN queue is cleared: what a wheel that left before it was
  awake had sent reaches the console after that wheel's successor has come
  (`NothingOld`'s first case).

## What is not modelled

- `main.rs` and `ghub_init.rs`: set-up, and a table of requests that the default build
  does not use.
- Descriptors, strings and the fixed answers to class requests (`device.rs`): no state.
  Logging, statistics and hex dumps, other than as `UartLog` and `DropsCounted`.
- Data toggles. When a halt is cleared after `recover_ffb` stopped waiting for it, the
  pipe's toggle is not reset; what a mismatch does is up to the host driver.
- Two signers at once, which would share CMD and NONCE; `docs/ps5-auth.md` has one.
- Setting up the hub, other than as a device that ends up in `hub::run`.
- The host driver, embassy-usb, `HubHandler`, the PIO bus, the wheel, DriveHub, the
  signer and the console, other than as the environment of the modules above.
