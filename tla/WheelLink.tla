----------------------------- MODULE WheelLink -----------------------------
(***************************************************************************)
(* The wheel role's link between the two USB sides of the bridge.          *)
(*                                                                         *)
(* On core 1 a proxy serves each attached wheel (src/src/proxy.rs): its    *)
(* EP0 task wakes the wheel and then serves it, its force feedback task    *)
(* forwards the console's packets, and on a STALL asks the EP0 task to     *)
(* clear the endpoint halt.  Both report the wheel present or gone through *)
(* the queue WHEEL_LINK.  On core 0 the device task (src/src/device.rs)    *)
(* follows these reports: it keeps the D+ pull-up on, so that the console  *)
(* sees a device, only while the last report it has taken says TRUE.       *)
(*                                                                         *)
(* Time is counted in ticks of 100 ms.  Tasks are quick against a tick:    *)
(* time does not pass while a task that only waits for something           *)
(* that has happened has not run (Urgent).                                 *)
(***************************************************************************)
EXTENDS Naturals, Sequences

CONSTANTS
  LinkCap,           \* capacity of WHEEL_LINK
  QueueLen,          \* capacity of FFB_OUT
  MinDetach,         \* shortest stay off the console's bus
  HaltTimeout,       \* how long a recovery waits for the halt to be cleared
  RecoveryInterval,  \* at most one recovery per this long
  ReplugTime,        \* least time from one wheel's proxy to the next
  WakeTime           \* least time to wake a wheel, once its proxy runs

ASSUME LinkAssumption ==
  /\ LinkCap \in Nat \ {0} /\ QueueLen \in Nat \ {0}
  /\ MinDetach \in Nat \ {0} /\ HaltTimeout \in Nat
  /\ RecoveryInterval \in Nat /\ ReplugTime \in Nat /\ WakeTime \in Nat

VARIABLES
  ep0,       \* the proxy's EP0 task; "none" when no wheel is attached
  ffb,       \* the proxy's force feedback OUT task
  held,      \* the packet that task is sending to the wheel
  recover,   \* FFB_RECOVER is signalled
  cleared,   \* FFB_HALT_CLEARED: the answer, or "none"
  link,      \* WHEEL_LINK
  ffbOut,    \* FFB_OUT
  dev,       \* the device side: waiting to boot, or what follow_wheel does
  attached,  \* follow_wheel's variable
  setup,     \* ticks until the next proxy, or until the wheel can be awake
  halt,      \* ticks left of a recovery's wait
  cool,      \* ticks until the next recovery is due
  sleep,     \* ticks left of follow_wheel's MIN_DETACH
  reported,  \* history: the last report made by wheel_link
  lost,      \* history: a report was dropped because WHEEL_LINK was full
  early      \* history: a recovery of this wheel began before it was awake, and
             \* the wheel is not awake yet or that recovery not over

proxyVars == <<ep0, ffb, held, recover, cleared>>
devVars == <<dev, attached, sleep>>
linkVars == <<link, reported, lost>>
vars == <<proxyVars, devVars, linkVars, ffbOut, setup, halt, cool, early>>

(***************************************************************************)
(* A force feedback packet is told apart by where it comes from: sent on   *)
(* the console connection and for the wheel of now ("cur"), queued since   *)
(* before the wheel of now ("gone"), or since before the device last left  *)
(* the bus ("left").                                                       *)
(***************************************************************************)
Tag == {"cur", "gone", "left"}

Aged(q, tag) == [i \in DOMAIN q |-> tag]

\* The console sees a device: off until the device is built, then set_pullup.
Pullup == dev # "boot" /\ attached

Awake == ep0 \in {"serving", "clearing"}

Init ==
  /\ ep0 = "none" /\ ffb = "none" /\ held = "cur"
  /\ recover = FALSE /\ cleared = "none"
  /\ link = <<>> /\ reported = FALSE /\ lost = FALSE /\ early = FALSE
  /\ ffbOut = <<>>
  /\ dev = "boot" /\ attached = TRUE /\ sleep = 0
  /\ setup = 0 /\ halt = 0 /\ cool = 0

-----------------------------------------------------------------------------
(* Faulty variants, each a slip the code could have made; the properties    *)
(* below are confirmed to tell them from the real definitions.              *)

\* WHEEL_LINK as a Signal: a new report overwrites the one not yet taken.
LinkSendLatest(report) ==
  reported' = report /\ link' = <<report>> /\ UNCHANGED lost

\* recover_ffb returns early when the halt was not cleared.
RecoverOnlyCleared ==
  /\ ffb = "recovering" /\ (cleared # "none" \/ halt = 0)
  /\ ffb' = "waiting" /\ cleared' = "none" /\ halt' = 0
  /\ IF cleared = "ok"
     THEN reported' = TRUE /\ link' = Append(link, TRUE) /\ UNCHANGED lost
     ELSE UNCHANGED linkVars
  /\ early' = (early /\ ~Awake)
  /\ UNCHANGED <<ep0, held, recover, devVars, ffbOut, setup, cool>>

\* An off-by-one in the capacity of FFB_OUT.
ConsoleSendOneMore ==
  /\ Pullup
  /\ Len(ffbOut) <= QueueLen
  /\ ffbOut' = Append(ffbOut, "cur")
  /\ UNCHANGED <<proxyVars, devVars, linkVars, setup, halt, cool, early>>

\* follow_wheel does not wait for MIN_DETACH.
FollowOffAtOnce ==
  /\ dev = "following" /\ link # <<>> /\ ~Head(link) /\ attached
  /\ link' = Tail(link)
  /\ attached' = FALSE /\ ffbOut' = Aged(ffbOut, "left")
  /\ UNCHANGED <<proxyVars, dev, sleep, reported, lost, setup, halt, cool, early>>

\* follow_wheel drops the reports that queued up when it goes off the bus.
FollowOffForget ==
  /\ dev = "following" /\ link # <<>> /\ ~Head(link) /\ attached
  /\ link' = <<>>
  /\ attached' = FALSE /\ dev' = "detaching" /\ sleep' = MinDetach
  /\ ffbOut' = Aged(ffbOut, "left")
  /\ UNCHANGED <<proxyVars, reported, lost, setup, halt, cool, early>>

\* follow_wheel does not clear the queues.
FollowOnUncleared ==
  /\ dev = "following" /\ link # <<>> /\ Head(link) /\ ~attached
  /\ link' = Tail(link)
  /\ attached' = TRUE
  /\ UNCHANGED <<proxyVars, dev, sleep, reported, lost, ffbOut, setup, halt, cool, early>>

-----------------------------------------------------------------------------
(* WHEEL_LINK *)

\* wheel_link: the result of try_send is not looked at.
LinkSend(report) ==
  /\ reported' = report
  /\ IF Len(link) < LinkCap
     THEN link' = Append(link, report) /\ UNCHANGED lost
     ELSE lost' = TRUE /\ UNCHANGED link

-----------------------------------------------------------------------------
(* Core 1: the proxy *)

\* run starts on an enumerated wheel.  The FFB OUT pipe may fail to open.
ProxyStart ==
  /\ ep0 = "none" /\ setup = 0
  /\ ep0' = "waking" /\ setup' = WakeTime
  /\ \E opened \in BOOLEAN : ffb' = IF opened THEN "waiting" ELSE "stopped"
  /\ cool' = 0
  /\ ffbOut' = Aged(ffbOut, "gone")
  /\ UNCHANGED <<held, recover, cleared, devVars, linkVars, halt, early>>

\* serve_ep0 has woken the wheel (or given up): the device may go on the bus.
WheelAwake ==
  /\ ep0 = "waking" /\ setup = 0
  /\ ep0' = "serving"
  /\ LinkSend(TRUE)
  /\ early' = (early /\ ffb = "recovering")
  /\ UNCHANGED <<ffb, held, recover, cleared, devVars, ffbOut, setup, halt, cool>>

\* The wheel is gone: all of the proxy's futures are dropped where they are,
\* and WheelLink's drop reports it.  The signals are statics and keep their state.
ProxyDrop ==
  /\ ep0 # "none"
  /\ ep0' = "none" /\ ffb' = "none" /\ setup' = ReplugTime /\ halt' = 0
  /\ held' = "cur" /\ cool' = 0
  /\ LinkSend(FALSE)
  /\ early' = FALSE
  /\ UNCHANGED <<recover, cleared, devVars, ffbOut>>

FfbTake ==
  /\ ffb = "waiting" /\ ffbOut # <<>>
  /\ ffb' = "sending" /\ held' = Head(ffbOut) /\ ffbOut' = Tail(ffbOut)
  /\ UNCHANGED <<ep0, recover, cleared, devVars, linkVars, setup, halt, cool, early>>

\* Sent, or dropped after an error other than a STALL or a detach.
FfbSent ==
  /\ ffb = "sending"
  /\ ffb' = "waiting" /\ held' = "cur"
  /\ UNCHANGED <<ep0, recover, cleared, devVars, linkVars, ffbOut, setup, halt, cool, early>>

\* Disconnected or Canceled: the task returns; the other tasks go on.
FfbStop ==
  /\ ffb = "sending"
  /\ ffb' = "stopped" /\ held' = "cur"
  /\ UNCHANGED <<ep0, recover, cleared, devVars, linkVars, ffbOut, setup, halt, cool, early>>

\* A STALL when no recovery is due: the packet is dropped.
FfbStallDropped ==
  /\ ffb = "sending" /\ cool > 0
  /\ ffb' = "waiting" /\ held' = "cur"
  /\ UNCHANGED <<ep0, recover, cleared, devVars, linkVars, ffbOut, setup, halt, cool, early>>

\* A STALL: recover_ffb up to its wait for FFB_HALT_CLEARED.  Nothing keeps
\* this task from forwarding, and a wheel from a STALL, while it is woken.
FfbStallRecover ==
  /\ ffb = "sending" /\ cool = 0
  /\ ffb' = "recovering" /\ held' = "cur" /\ cool' = RecoveryInterval
  /\ LinkSend(FALSE)
  /\ early' = (early \/ ~Awake)
  /\ cleared' = "none" /\ recover' = TRUE /\ halt' = HaltTimeout
  /\ UNCHANGED <<ep0, devVars, ffbOut, setup>>

\* recover_ffb goes on, answered or timed out, and reports the wheel back.
RecoverDone ==
  /\ ffb = "recovering" /\ (cleared # "none" \/ halt = 0)
  /\ ffb' = "waiting" /\ cleared' = "none" /\ halt' = 0
  /\ LinkSend(TRUE)
  /\ early' = (early /\ ~Awake)
  /\ UNCHANGED <<ep0, held, recover, devVars, ffbOut, setup, cool>>

\* serve_ep0's select takes FFB_RECOVER and sends CLEAR_FEATURE ...
ClearHaltBegin ==
  /\ ep0 = "serving" /\ recover
  /\ ep0' = "clearing" /\ recover' = FALSE
  /\ UNCHANGED <<ffb, held, cleared, devVars, linkVars, ffbOut, setup, halt, cool, early>>

\* ... and signals its result, whether or not recover_ffb still waits for it.
ClearHaltEnd ==
  /\ ep0 = "clearing"
  /\ ep0' = "serving" /\ cleared' \in {"ok", "failed"}
  /\ UNCHANGED <<ffb, held, recover, devVars, linkVars, ffbOut, setup, halt, cool, early>>

-----------------------------------------------------------------------------
(* Core 0: the device *)

\* The console sends force feedback; dropped when FFB_OUT is full.
ConsoleSend ==
  /\ Pullup
  /\ Len(ffbOut) < QueueLen
  /\ ffbOut' = Append(ffbOut, "cur")
  /\ UNCHANGED <<proxyVars, devVars, linkVars, setup, halt, cool, early>>

\* task: reports are taken until one says TRUE, then the device is built,
\* which turns the pull-up on.
Boot ==
  /\ dev = "boot" /\ link # <<>>
  /\ link' = Tail(link)
  /\ dev' = IF Head(link) THEN "following" ELSE "boot"
  /\ UNCHANGED <<proxyVars, attached, sleep, reported, lost, ffbOut, setup, halt, cool, early>>

FollowSame ==
  /\ dev = "following" /\ link # <<>> /\ Head(link) = attached
  /\ link' = Tail(link)
  /\ UNCHANGED <<proxyVars, devVars, reported, lost, ffbOut, setup, halt, cool, early>>

FollowOff ==
  /\ dev = "following" /\ link # <<>> /\ ~Head(link) /\ attached
  /\ link' = Tail(link)
  /\ attached' = FALSE /\ dev' = "detaching" /\ sleep' = MinDetach
  /\ ffbOut' = Aged(ffbOut, "left")
  /\ UNCHANGED <<proxyVars, reported, lost, setup, halt, cool, early>>

\* Every queue is cleared before the pull-up goes on.
FollowOn ==
  /\ dev = "following" /\ link # <<>> /\ Head(link) /\ ~attached
  /\ link' = Tail(link)
  /\ attached' = TRUE /\ ffbOut' = <<>>
  /\ UNCHANGED <<proxyVars, dev, sleep, reported, lost, setup, halt, cool, early>>

\* The MIN_DETACH timer has run out.
Detached ==
  /\ dev = "detaching" /\ sleep = 0
  /\ dev' = "following"
  /\ UNCHANGED <<proxyVars, attached, sleep, linkVars, ffbOut, setup, halt, cool, early>>

Follow == Boot \/ FollowSame \/ FollowOff \/ FollowOn \/ Detached

-----------------------------------------------------------------------------
(* Time *)

Urgent ==
  \/ dev # "detaching" /\ link # <<>>
  \/ dev = "detaching" /\ sleep = 0
  \/ ffb = "recovering" /\ (cleared # "none" \/ halt = 0)

Less(n) == IF n = 0 THEN 0 ELSE n - 1

Tick ==
  /\ ~Urgent
  /\ setup + halt + cool + sleep > 0
  /\ setup' = Less(setup) /\ halt' = Less(halt)
  /\ cool' = Less(cool) /\ sleep' = Less(sleep)
  /\ UNCHANGED <<proxyVars, dev, attached, linkVars, ffbOut, early>>

-----------------------------------------------------------------------------
ProxyStep ==
  \/ WheelAwake \/ FfbTake \/ FfbSent \/ FfbStop
  \/ FfbStallDropped \/ FfbStallRecover \/ RecoverDone
  \/ ClearHaltBegin \/ ClearHaltEnd

Next == ProxyStart \/ ProxyDrop \/ ProxyStep \/ ConsoleSend \/ Follow \/ Tick

Spec == Init /\ [][Next]_vars

(***************************************************************************)
(* The executors run a task that can run, timers fire, and a recovery      *)
(* ends, answered or not.  Nothing is assumed of the wheel, of the console *)
(* or of how long a control transfer takes.                                *)
(***************************************************************************)
Fairness == WF_vars(Follow) /\ WF_vars(RecoverDone) /\ WF_vars(Tick)

LiveSpec == Spec /\ Fairness
-----------------------------------------------------------------------------
(* Properties *)

TypeOK ==
  /\ ep0 \in {"none", "waking", "serving", "clearing"}
  /\ ffb \in {"none", "waiting", "sending", "recovering", "stopped"}
  /\ held \in Tag
  /\ recover \in BOOLEAN
  /\ cleared \in {"none", "ok", "failed"}
  /\ link \in Seq(BOOLEAN) /\ Len(link) <= LinkCap
  /\ ffbOut \in Seq(Tag) /\ Len(ffbOut) <= QueueLen
  /\ dev \in {"boot", "following", "detaching"}
  /\ attached \in BOOLEAN
  /\ reported \in BOOLEAN /\ lost \in BOOLEAN /\ early \in BOOLEAN
  /\ setup \in Nat /\ halt \in Nat /\ cool \in Nat
  /\ sleep \in 0..MinDetach

(***************************************************************************)
(* Once the device side has taken every report, the device is on the       *)
(* console's bus when a wheel is attached and awake and its force feedback *)
(* is not being recovered, and only then: but for a recovery that began    *)
(* before the wheel was awake, whose end is reported like the waking.      *)
(* Even then there is a wheel, and from the time that it is awake and the  *)
(* recovery over, the device is where it should be (device.rs, WHEEL_LINK; *)
(* proxy.rs, serve_ep0 and recover_ffb).                                   *)
(***************************************************************************)
Present == Awake /\ ffb # "recovering"

LinkTracksWheel ==
  link = <<>> => /\ Present => Pullup /\ ~early
                 /\ Pullup => Present \/ (early /\ ep0 # "none")

(***************************************************************************)
(* Once it has taken every report, the device is on the bus only with an   *)
(* awake wheel (device.rs, WHEEL_LINK: "whether the wheel is attached and  *)
(* awake. The device is on the bus only then.").  It does not hold: a      *)
(* recovery that begins and ends while the wheel is being woken reports    *)
(* it back.                                                                *)
(***************************************************************************)
OnBusOnlyAwake == link = <<>> /\ Pullup => Awake

(***************************************************************************)
(* While the console sees the device, no packet waiting for the wheel was  *)
(* sent over an earlier connection (device.rs, follow_wheel: "Nothing      *)
(* queued for the old connection goes to the new one.").                   *)
(***************************************************************************)
QueuesFresh == Pullup => \A i \in DOMAIN ffbOut : ffbOut[i] # "left"

(***************************************************************************)
(* The device keeps away from the console for MinDetach whenever it        *)
(* leaves, whatever reports queue up meanwhile (device.rs, MIN_DETACH:     *)
(* "so the console surely sees the unplug").                               *)
(***************************************************************************)
Port == INSTANCE ConsolePort WITH
  plugged <- Pullup,
  off <- IF Pullup THEN 0 ELSE IF dev = "detaching" THEN MinDetach - sleep
         ELSE MinDetach

ConsoleSeesUnplug == Port!Spec

(***************************************************************************)
(* Every report that the wheel is gone takes the device off the bus, even  *)
(* when the next one already says that it is back (device.rs, WHEEL_LINK:  *)
(* "a quick off-and-on (FFB recovery) must not collapse into on").         *)
(***************************************************************************)
GoneSeen == ~reported ~> ~Pullup

(***************************************************************************)
(* A wheel reported awake gets the device on the bus, unless it is         *)
(* reported gone again first.                                              *)
(***************************************************************************)
BackOn == reported ~> (Pullup \/ ~reported)

(***************************************************************************)
(* A wheel is only sent force feedback that the console sent since that    *)
(* wheel is attached and since the device last left the bus.  It does not  *)
(* hold: see README.md.                                                    *)
(***************************************************************************)
NoStaleForce == ffb = "sending" => held = "cur"
=============================================================================
