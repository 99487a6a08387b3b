------------------------------- MODULE Hidpp -------------------------------
(***************************************************************************)
(* HID++ between the bridge, the wheel and the console (src/src/proxy.rs). *)
(*                                                                         *)
(* The proxy's EP0 task wakes a wheel with pings, asks it for its features *)
(* and then repeats the console's requests and drives the rev lights.  The *)
(* wheel answers on IF1, some time later; the IF1 task tells by the        *)
(* software ID whether a message is the bridge's or goes to the console.   *)
(*                                                                         *)
(* WAKING, WHEEL_ANSWERED, BRIDGE_ANSWER, LED_FEATURE and the queues are   *)
(* statics: they outlive the proxy of a wheel.  Messages are abstracted to *)
(* whose they are, what they answer and the one byte that is used of them. *)
(***************************************************************************)
EXTENDS Naturals, Sequences, FiniteSets

CONSTANTS
  QueueLen,     \* capacity of CONTROL_OUT, IF0_OUT and HIDPP_IN
  Leds,         \* the LEDs of the console's rev lights
  MaxWheels,    \* bound: wheels attached one after the other
  MaxPings,     \* bound: pings until PING_TIMEOUT
  MaxEntries,   \* bound: entries of the wheel's feature table
  MaxOwed       \* bound: requests that a wheel has not answered

ASSUME HidppAssumption ==
  /\ QueueLen \in Nat \ {0} /\ IsFiniteSet(Leds)
  /\ MaxWheels \in Nat /\ MaxPings \in Nat \ {0} /\ MaxEntries \in Nat /\ MaxOwed \in Nat

VARIABLES
  \* the wheel
  wheel,      \* the wheel attached, 0 if none
  wheels,     \* wheels attached so far
  owed,       \* the requests it has taken and not answered
  lights,     \* the level its rev lights show
  \* the EP0 task
  pc,         \* "none" while there is no proxy
  pings,
  ask,        \* what it asks the wheel for
  left,       \* how often it asks that again
  last,       \* rev_level
  \* statics
  waking, answered, answer, ledFeature,
  controlOut, if0Out, hidppIn,
  \* history
  booted,     \* the device has been put on the console's bus
  want,       \* the level the console wanted last, of this wheel
  failed,     \* the last rev light command failed
  swallowed,  \* an answer to the console was taken for the bridge's
  givenUp     \* a request to this wheel was given up before its answer came

wheelVars == <<wheel, wheels, givenUp>>
askVars == <<ask, left>>
lightVars == <<lights, last, want, failed>>
ledVars == <<ledFeature, booted>>
routeVars == <<answered, answer, hidppIn, swallowed>>
vars == <<wheelVars, owed, pc, pings, askVars, lightVars, routeVars, waking, ledVars,
          controlOut, if0Out>>

NoLevel == 2 * Cardinality(Leds) + 1
Level(mask) == 2 * Cardinality(mask)

\* A wheel's number stands for its index of 0x807a, 0 for an absent feature,
\* Other for a byte that means something else.
Other == MaxWheels + 1
NoAnswer == MaxWheels + 2
Empty == [what |-> "none", value |-> 0]

Init ==
  /\ wheel = 0 /\ wheels = 0 /\ owed = <<>> /\ lights = 0
  /\ pc = "none" /\ pings = 0 /\ ask = "set" /\ left = 0 /\ last = NoLevel
  /\ waking = FALSE /\ answered = FALSE /\ answer = Empty /\ ledFeature = 0
  /\ controlOut = 0 /\ if0Out = <<>> /\ hidppIn = <<>>
  /\ booted = FALSE /\ want = NoLevel /\ failed = FALSE /\ swallowed = FALSE
  /\ givenUp = FALSE

-----------------------------------------------------------------------------
(* Faulty variants, each a slip the code could have made; the properties    *)
(* below are confirmed to tell them from the real definitions.              *)

\* BRIDGE_ANSWER is not reset before the request.
AskUnreset ==
  /\ pc = "asking"
  /\ owed' = Append(owed, [by |-> "bridge", what |-> ask]) /\ pc' = "waiting"
  /\ UNCHANGED <<wheelVars, pings, askVars, lightVars, routeVars, waking, ledVars,
                 controlOut, if0Out>>

\* The answer is waited for without a timeout.
TimeoutNever == FALSE /\ UNCHANGED vars

\* The software ID is read at the same place in an error answer.
RouteErrorIndex(to, message) ==
  IF waking \/ (to = "bridge" /\ message.value # NoAnswer)
  THEN /\ answered' = (answered \/ (waking /\ to # "all"))
       /\ answer' = IF to = "bridge" THEN message ELSE answer
       /\ swallowed' = (swallowed \/ to = "host")
       /\ UNCHANGED hidppIn
  ELSE /\ hidppIn' = IF Len(hidppIn) < QueueLen THEN Append(hidppIn, to) ELSE hidppIn
       /\ UNCHANGED <<answered, answer, swallowed>>

\* rev_level is a static as well.
WheelOnKeepLevel ==
  /\ wheel = 0 /\ wheels < MaxWheels
  /\ wheel' = wheels + 1 /\ wheels' = wheels + 1 /\ lights' = 0 /\ givenUp' = FALSE
  /\ pc' = "start"
  /\ want' = NoLevel /\ failed' = FALSE /\ UNCHANGED last
  /\ UNCHANGED <<owed, pings, askVars, routeVars, waking, ledVars, controlOut, if0Out>>

\* A queue takes one entry too many.
PushOneMore(queue, x) == IF Len(queue) <= QueueLen THEN Append(queue, x) ELSE queue

-----------------------------------------------------------------------------
(* The wheel *)

WheelOn ==
  /\ wheel = 0 /\ wheels < MaxWheels
  /\ wheel' = wheels + 1 /\ wheels' = wheels + 1 /\ lights' = 0 /\ givenUp' = FALSE
  /\ pc' = "start" /\ last' = NoLevel
  /\ want' = NoLevel /\ failed' = FALSE
  /\ UNCHANGED <<owed, pings, askVars, routeVars, waking, ledVars, controlOut, if0Out>>

\* The proxy is dropped wherever it is.
WheelOff ==
  /\ wheel # 0
  /\ wheel' = 0 /\ owed' = <<>> /\ pc' = "none"
  /\ UNCHANGED <<wheels, givenUp, pings, askVars, lightVars, routeVars, waking, ledVars,
                 controlOut, if0Out>>

\* try_send
Push(queue, x) == IF Len(queue) < QueueLen THEN Append(queue, x) ELSE queue

\* A message from the wheel: an answer to the bridge or to the console ("host"),
\* or a notification, whose software ID is 0.
Route(to, message) ==
  IF waking \/ to = "bridge"
  THEN /\ answered' = (answered \/ (waking /\ to # "all"))
       /\ answer' = IF to = "bridge" THEN message ELSE answer
       /\ swallowed' = (swallowed \/ to = "host")
       /\ UNCHANGED hidppIn
  ELSE hidppIn' = Push(hidppIn, to) /\ UNCHANGED <<answered, answer, swallowed>>

\* The answers to a request; an error answer gives nothing.
Answers(what) ==
  [what : {what}, value : {NoAnswer, 0, IF what = "led" THEN wheel ELSE Other}]

WheelAnswers ==
  /\ owed # <<>>
  /\ owed' = Tail(owed)
  /\ \/ UNCHANGED routeVars
     \/ \E a \in Answers(Head(owed).what) : Route(Head(owed).by, a)
  /\ UNCHANGED <<wheelVars, pc, pings, askVars, lightVars, waking, ledVars,
                 controlOut, if0Out>>

WheelNotifies ==
  /\ wheel # 0
  /\ Route("all", Empty)
  /\ UNCHANGED <<wheelVars, owed, pc, pings, askVars, lightVars, waking, ledVars,
                 controlOut, if0Out>>

-----------------------------------------------------------------------------
(* The EP0 task: waking the wheel *)

StartWaking ==
  /\ pc = "start"
  /\ pc' = "pinging" /\ pings' = 0 /\ waking' = TRUE /\ answered' = FALSE
  /\ UNCHANGED <<wheelVars, owed, askVars, lightVars, answer, hidppIn, swallowed, ledVars,
                 controlOut, if0Out>>

\* A ping is taken by the wheel, or fails.
Ping ==
  /\ pc = "pinging" /\ ~answered /\ pings < MaxPings
  /\ pings' = pings + 1
  /\ owed' \in {owed, Append(owed, [by |-> "bridge", what |-> "ping"])}
  /\ UNCHANGED <<wheelVars, pc, askVars, lightVars, routeVars, waking, ledVars,
                 controlOut, if0Out>>

\* The wheel has answered, or PING_TIMEOUT is over.
PingEnd ==
  /\ pc = "pinging" /\ (answered \/ pings > 0)
  /\ pc' = "settling"
  /\ UNCHANGED <<wheelVars, owed, pings, askVars, lightVars, routeVars, waking, ledVars,
                 controlOut, if0Out>>

\* What the wheel has taken and not answered is waited for no longer; nothing keeps
\* it from answering yet.
GiveUp == givenUp' = (givenUp \/ owed' # <<>>)

\* The last answers have had their time to arrive.
Settled ==
  /\ pc = "settling"
  /\ pc' = "asking" /\ ask' = "set" /\ left' = 0
  /\ waking' = FALSE
  /\ UNCHANGED owed /\ GiveUp
  /\ UNCHANGED <<wheel, wheels, pings, lightVars, routeVars, ledVars, controlOut, if0Out>>

-----------------------------------------------------------------------------
(* The EP0 task: asking the wheel for its features *)

Asking(what, times) == pc' = "asking" /\ ask' = what /\ left' = times

\* What log_feature_table and query_led_feature make of the answer's byte.
Proceed(value) ==
  LET present == value \notin {NoAnswer, 0} IN
  /\ \/ ask = "set" /\ Asking(IF present THEN "count" ELSE "led", 1)
     \/ ask = "count" /\ value = NoAnswer /\ Asking("led", 1)
     \/ ask = "count" /\ value # NoAnswer
        /\ \E n \in 0..MaxEntries : IF n = 0 THEN Asking("trueforce", 1) ELSE Asking("entry", n)
     \/ ask = "entry" /\ IF left > 1 THEN Asking("entry", left - 1) ELSE Asking("trueforce", 1)
     \/ ask = "trueforce" /\ IF present THEN Asking("state", 2) ELSE Asking("led", 1)
     \/ ask = "state" /\ IF left > 1 THEN Asking("state", left - 1) ELSE Asking("led", 1)
     \/ ask = "led" /\ pc' = "serving" /\ UNCHANGED askVars
  /\ ledFeature' = IF ask = "led" /\ present THEN value ELSE ledFeature
  /\ booted' = (booted \/ ask = "led")

\* hidpp_request: the request is taken, or its transfer fails, be it after the wheel
\* has taken the request.
Ask ==
  /\ pc = "asking"
  /\ answer' = Empty
  /\ \/ /\ owed' = Append(owed, [by |-> "bridge", what |-> ask])
        /\ pc' = "waiting" /\ UNCHANGED <<askVars, ledVars, givenUp>>
     \/ /\ owed' \in {owed, Append(owed, [by |-> "bridge", what |-> ask])}
        /\ Proceed(NoAnswer) /\ GiveUp
  /\ UNCHANGED <<wheel, wheels, pings, lightVars, answered, hidppIn, swallowed, waking,
                 controlOut, if0Out>>

Answered ==
  /\ pc = "waiting" /\ answer # Empty
  /\ Proceed(answer.value) /\ answer' = Empty
  /\ UNCHANGED <<wheelVars, owed, pings, lightVars, answered, hidppIn, swallowed, waking,
                 controlOut, if0Out>>

\* FEATURE_QUERY_TIMEOUT
Timeout ==
  /\ pc = "waiting" /\ answer = Empty
  /\ UNCHANGED owed /\ Proceed(NoAnswer) /\ GiveUp
  /\ UNCHANGED <<wheel, wheels, pings, lightVars, routeVars, waking, controlOut, if0Out>>

-----------------------------------------------------------------------------
(* The EP0 task: serving the wheel *)

\* A request of the console is repeated to the wheel, which may refuse it.
RepeatControl ==
  /\ pc = "serving" /\ controlOut > 0 /\ Len(owed) < MaxOwed
  /\ controlOut' = controlOut - 1
  /\ owed' \in {owed, Append(owed, [by |-> "host", what |-> "control"])}
  /\ UNCHANGED <<wheelVars, pc, pings, askVars, lightVars, routeVars, waking, ledVars,
                 if0Out>>

\* rev_lights: sent on change, to the feature known as the LEDs'.  The transfer may
\* fail after the wheel has taken the command; nobody waits for its answer.
RevLights ==
  /\ pc = "serving" /\ if0Out # <<>> /\ Len(owed) < MaxOwed
  /\ if0Out' = Tail(if0Out)
  /\ want' = Level(Head(if0Out))
  /\ IF ledFeature = 0 \/ last = Level(Head(if0Out))
     THEN UNCHANGED <<owed, lights, last, failed>>
     ELSE /\ last' = Level(Head(if0Out))
          /\ failed' \in BOOLEAN
          /\ \E taken \in {TRUE, ~failed'} :
               /\ lights' = IF taken /\ ledFeature = wheel THEN last' ELSE lights
               /\ owed' = IF taken THEN Append(owed, [by |-> "bridge", what |-> "lights"])
                          ELSE owed
  /\ UNCHANGED <<wheelVars, pc, pings, askVars, routeVars, waking, ledVars, controlOut>>

-----------------------------------------------------------------------------
(* The console, in the tasks of device.rs *)

ConsoleAsks ==
  /\ booted /\ controlOut < QueueLen
  /\ controlOut' = controlOut + 1
  /\ UNCHANGED <<wheelVars, owed, pc, pings, askVars, lightVars, routeVars, waking, ledVars,
                 if0Out>>

ConsoleLights ==
  /\ booted
  /\ \E mask \in SUBSET Leds : if0Out' = Push(if0Out, mask)
  /\ UNCHANGED <<wheelVars, owed, pc, pings, askVars, lightVars, routeVars, waking, ledVars,
                 controlOut>>

ConsoleTakes ==
  /\ hidppIn # <<>>
  /\ hidppIn' = Tail(hidppIn)
  /\ UNCHANGED <<wheelVars, owed, pc, pings, askVars, lightVars, answered, answer, swallowed,
                 waking, ledVars, controlOut, if0Out>>

-----------------------------------------------------------------------------
Wheel == WheelOn \/ WheelOff \/ WheelAnswers \/ WheelNotifies
Wake == StartWaking \/ Ping \/ PingEnd \/ Settled
Features == Ask \/ Answered \/ Timeout
Console == ConsoleAsks \/ ConsoleLights \/ ConsoleTakes

Next == Wheel \/ Wake \/ Features \/ RepeatControl \/ RevLights \/ Console

Spec == Init /\ [][Next]_vars

(***************************************************************************)
(* The executor runs the task and its timers fire.  Nothing is assumed of  *)
(* the wheel or of the console.                                            *)
(***************************************************************************)
LiveSpec == Spec /\ WF_vars(Wake) /\ WF_vars(Features)

-----------------------------------------------------------------------------
(* Properties *)

Asked == {"ping", "set", "count", "entry", "trueforce", "state", "led", "control", "lights"}

TypeOK ==
  /\ wheel \in 0..MaxWheels /\ wheels \in 0..MaxWheels
  /\ owed \in Seq([by : {"bridge", "host"}, what : Asked])
  /\ pc \in {"none", "start", "pinging", "settling", "asking", "waiting", "serving"}
  /\ pings \in 0..MaxPings /\ ask \in Asked /\ left \in Nat
  /\ {lights, last, want} \subseteq 0..NoLevel
  /\ waking \in BOOLEAN /\ answered \in BOOLEAN
  /\ answer \in [what : Asked \cup {"none"}, value : 0..NoAnswer]
  /\ ledFeature \in 0..Other /\ booted \in BOOLEAN
  /\ controlOut \in 0..QueueLen
  /\ if0Out \in Seq(SUBSET Leds) /\ Len(if0Out) <= QueueLen
  /\ hidppIn \in Seq({"bridge", "host", "all"}) /\ Len(hidppIn) <= QueueLen
  /\ failed \in BOOLEAN /\ swallowed \in BOOLEAN /\ givenUp \in BOOLEAN

(***************************************************************************)
(* The index kept for the LEDs changes only to the one the wheel attached  *)
(* gave when it was asked for it, unless a request to this wheel was given *)
(* up before (proxy.rs, hidpp_request: "wait for the answer"): neither an  *)
(* answer to another question nor one of an earlier wheel gets there.      *)
(***************************************************************************)
IndexKept == [][ledFeature' # ledFeature => ledFeature' = wheel \/ givenUp]_vars

(***************************************************************************)
(* The index kept for the LEDs is what a wheel gave when asked for it,     *)
(* never a byte of another answer (proxy.rs, LED_FEATURE: "Wheel feature   *)
(* index of 0x807a (LED effects; 0: unknown or absent)").  It does not     *)
(* hold: see README.md.                                                    *)
(***************************************************************************)
LedFeatureAsked == ledFeature # Other

(***************************************************************************)
(* The index kept for the LEDs is that of the wheel that is served, or 0   *)
(* (proxy.rs, LED_FEATURE: "0: unknown or absent").  It does not hold: see *)
(* README.md.                                                              *)
(***************************************************************************)
LedFeatureOfWheel == pc = "serving" => ledFeature \in {0, wheel}

(***************************************************************************)
(* The wheel's answers to the bridge stay with it, those to the console    *)
(* are passed on (docs/usb-host.md: "The bridge's own HID++ requests use   *)
(* software ID 0xB; answers carrying it are not forwarded").               *)
(***************************************************************************)
RightSide == ~swallowed /\ \A k \in DOMAIN hidppIn : hidppIn[k] # "bridge"

(***************************************************************************)
(* The rev lights show the level the console wants of this wheel, but for  *)
(* a command that failed (docs/ps5.md: "translated to 0x807a function 6,   *)
(* level = 2 x lit LEDs").                                                 *)
(***************************************************************************)
LightsFollow ==
  pc = "serving" /\ ledFeature = wheel /\ want # NoLevel /\ ~failed => lights = want

(***************************************************************************)
(* A wheel that stays attached is served in the end, whatever it answers.  *)
(***************************************************************************)
GetsServed == pc # "none" ~> pc \in {"serving", "none"}
=============================================================================
