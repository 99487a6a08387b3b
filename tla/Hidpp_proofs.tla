---------------------------- MODULE Hidpp_proofs ----------------------------
(***************************************************************************)
(* Theorems about Hidpp, for every value of its constants.                 *)
(***************************************************************************)
EXTENDS Hidpp, SequenceTheorems, FiniteSetTheorems, TLAPS

-----------------------------------------------------------------------------
(* The inductive invariant *)

Request == [by : {"bridge", "host"}, what : Asked]
Message == [what : Asked \cup {"none"}, value : 0..NoAnswer]

\* A wheel that is not there owes nothing, and one that is being woken has been
\* asked by the bridge only.
Owing ==
  /\ pc = "none" <=> wheel = 0
  /\ wheel = 0 \/ pc = "start" => owed = <<>>
  /\ pc \in {"pinging", "settling"} => \A k \in 1..Len(owed) : owed[k].by = "bridge"

\* WAKING is left set by a proxy that is dropped, and found so by the next.
Waking == waking => pc \in {"none", "start", "pinging", "settling"}

\* Of a wheel that has left no request unanswered, the bridge has one question at a
\* time under way, and its answer is to that.
AskedOne ==
  /\ pc = "asking" /\ ~givenUp => owed = <<>>
  /\ pc = "waiting" /\ ~givenUp =>
       \/ owed = <<[by |-> "bridge", what |-> ask]>> /\ answer = Empty
       \/ owed = <<>> /\ (answer = Empty \/ answer \in Answers(ask))

\* What was sent last is what was wanted last; nothing is wanted of a wheel that
\* is not served yet.
Sent ==
  /\ pc \in {"start", "pinging", "settling", "asking", "waiting"} =>
       want = NoLevel /\ last = NoLevel
  /\ pc = "serving" /\ ledFeature # 0 => last = want

IInv == TypeOK /\ Owing /\ Waking /\ RightSide /\ Sent /\ LightsFollow /\ AskedOne

-----------------------------------------------------------------------------
(* Types *)

\* TypeOK, the queues apart from the rest.
Queues ==
  /\ owed \in Seq(Request)
  /\ if0Out \in Seq(SUBSET Leds) /\ Len(if0Out) <= QueueLen
  /\ hidppIn \in Seq({"bridge", "host", "all"}) /\ Len(hidppIn) <= QueueLen

Routing == answered \in BOOLEAN /\ answer \in Message /\ swallowed \in BOOLEAN

Tasks ==
  /\ pc \in {"none", "start", "pinging", "settling", "asking", "waiting", "serving"}
  /\ ask \in Asked /\ left \in Nat /\ ledFeature \in 0..Other /\ booted \in BOOLEAN

Rest ==
  /\ wheel \in 0..MaxWheels /\ wheels \in 0..MaxWheels /\ pings \in 0..MaxPings
  /\ lights \in 0..NoLevel /\ last \in 0..NoLevel /\ want \in 0..NoLevel
  /\ waking \in BOOLEAN /\ controlOut \in 0..QueueLen /\ failed \in BOOLEAN
  /\ givenUp \in BOOLEAN

LEMMA Parts == TypeOK <=> Queues /\ Routing /\ Tasks /\ Rest
  BY DEF TypeOK, Queues, Routing, Tasks, Rest, Request, Message

LEMMA PartsNext == TypeOK' <=> Queues' /\ Routing' /\ Tasks' /\ Rest'
  BY DEF TypeOK, Queues, Routing, Tasks, Rest, Request, Message

LEMMA Constants ==
  /\ QueueLen \in Nat \ {0} /\ MaxWheels \in Nat /\ MaxPings \in Nat \ {0}
  /\ NoLevel \in Nat /\ Other \in Nat /\ NoAnswer \in Nat
  /\ Other = MaxWheels + 1 /\ NoAnswer = MaxWheels + 2
  /\ \A mask \in SUBSET Leds : Level(mask) \in 0..NoLevel /\ Level(mask) # NoLevel
  <1>1. /\ QueueLen \in Nat \ {0} /\ MaxWheels \in Nat /\ MaxPings \in Nat \ {0}
        /\ IsFiniteSet(Leds)
    BY HidppAssumption DEF HidppAssumption
  <1>2. Cardinality(Leds) \in Nat
    BY <1>1, FS_CardinalityType
  <1>3. ASSUME NEW mask \in SUBSET Leds PROVE Level(mask) \in 0..NoLevel /\ Level(mask) # NoLevel
    <2>1. IsFiniteSet(mask) /\ Cardinality(mask) <= Cardinality(Leds)
      BY <1>1, FS_Subset
    <2>2. Cardinality(mask) \in Nat
      BY <2>1, FS_CardinalityType
    <2> QED BY <1>2, <2>1, <2>2 DEF Level, NoLevel
  <1> QED
    BY <1>1, <1>2, <1>3 DEF NoLevel, Other, NoAnswer

LEMMA PushType ==
  ASSUME NEW S, NEW queue \in Seq(S), Len(queue) <= QueueLen, NEW x \in S
  PROVE  Push(queue, x) \in Seq(S) /\ Len(Push(queue, x)) <= QueueLen
  <1>1. Len(queue) \in Nat /\ QueueLen \in Nat
    BY LenProperties, Constants
  <1>2. Append(queue, x) \in Seq(S) /\ Len(Append(queue, x)) = Len(queue) + 1
    BY AppendProperties
  <1>3. CASE Len(queue) < QueueLen
    BY <1>1, <1>2, <1>3 DEF Push
  <1>4. CASE ~(Len(queue) < QueueLen)
    BY <1>4 DEF Push
  <1> QED
    BY <1>3, <1>4

\* What is left of a queue when its head is taken.
LEMMA Taken ==
  ASSUME NEW S, NEW s \in Seq(S), s # <<>>
  PROVE  /\ Head(s) \in S /\ Tail(s) \in Seq(S) /\ Head(s) = s[1] /\ 1 \in 1..Len(s)
         /\ Len(s) \in Nat /\ Len(Tail(s)) = Len(s) - 1
         /\ \A k \in 1..Len(Tail(s)) : Tail(s)[k] = s[k + 1] /\ k + 1 \in 1..Len(s)
  <1>1. /\ Head(s) \in S /\ Tail(s) \in Seq(S) /\ Head(s) = s[1]
        /\ Len(s) \in Nat \ {0} /\ Len(Tail(s)) = Len(s) - 1
        /\ \A k \in 1..Len(Tail(s)) : Tail(s)[k] = s[k + 1]
    BY HeadTailProperties, LenProperties, EmptySeq
  <1> QED
    BY <1>1

LEMMA AnswerType ==
  ASSUME TypeOK, NEW what \in Asked, NEW a \in Answers(what)
  PROVE  a \in Message
  <1>1. wheel \in 0..MaxWheels
    BY DEF TypeOK
  <1>2. {NoAnswer, 0, IF what = "led" THEN wheel ELSE Other} \subseteq 0..NoAnswer
    BY <1>1, Constants
  <1> QED
    BY <1>2 DEF Answers, Message

\* The messages that come leave the routing what it is.
LEMMA RouteType ==
  ASSUME TypeOK, NEW to \in {"bridge", "host", "all"}, NEW message \in Message, Route(to, message)
  PROVE  Routing' /\ hidppIn' \in Seq({"bridge", "host", "all"}) /\ Len(hidppIn') <= QueueLen
  <1>1. /\ hidppIn \in Seq({"bridge", "host", "all"}) /\ Len(hidppIn) <= QueueLen
        /\ Routing /\ waking \in BOOLEAN
    BY Parts DEF Queues, Rest
  <1>2. CASE waking \/ to = "bridge"
    <2>1. /\ answered' = (answered \/ (waking /\ to # "all"))
          /\ answer' = IF to = "bridge" THEN message ELSE answer
          /\ swallowed' = (swallowed \/ to = "host")
          /\ UNCHANGED hidppIn
      BY <1>2 DEF Route
    <2>2. answered' \in BOOLEAN /\ swallowed' \in BOOLEAN
      BY <2>1
    <2>3. answer' \in Message
      BY <1>1, <2>1 DEF Routing
    <2> QED BY <1>1, <2>1, <2>2, <2>3 DEF Routing
  <1>3. CASE ~(waking \/ to = "bridge")
    <2>1. hidppIn' = Push(hidppIn, to) /\ UNCHANGED <<answered, answer, swallowed>>
      BY <1>3 DEF Route
    <2> QED BY <1>1, <2>1, PushType DEF Routing
  <1> QED
    BY <1>2, <1>3

\* Where the task goes from a question.
LEMMA ProceedType ==
  ASSUME TypeOK, NEW value \in 0..NoAnswer, Proceed(value)
  PROVE  /\ Tasks' /\ pc' \in {"asking", "serving"}
         /\ ledFeature' = ledFeature \/ (ask = "led" /\ ledFeature' = value)
  <1>1. /\ ask \in Asked /\ left \in Nat /\ ledFeature \in 0..Other /\ booted \in BOOLEAN
        /\ MaxEntries \in Nat
    BY Parts, HidppAssumption DEF Tasks, HidppAssumption
  <1>2. /\ ledFeature' = ledFeature \/ (ask = "led" /\ value \notin {NoAnswer, 0} /\ ledFeature' = value)
        /\ booted' = (booted \/ ask = "led")
    BY DEF Proceed
  <1>3. ledFeature' \in 0..Other /\ booted' \in BOOLEAN
    BY <1>1, <1>2, Constants
  <1>4. \/ pc' = "serving" /\ UNCHANGED <<ask, left>>
        \/ \E what \in Asked, times \in Nat : Asking(what, times)
    <2>1. CASE ask = "set" /\ Asking(IF value \notin {NoAnswer, 0} THEN "count" ELSE "led", 1)
      <3>1. (IF value \notin {NoAnswer, 0} THEN "count" ELSE "led") \in Asked /\ 1 \in Nat
        BY DEF Asked
      <3> QED BY <2>1, <3>1, Zenon
    <2>2. CASE ask = "count" /\ value = NoAnswer /\ Asking("led", 1)
      <3>1. "led" \in Asked /\ 1 \in Nat
        BY DEF Asked
      <3> QED BY <2>2, <3>1, Zenon
    <2>3. CASE \E n \in 0..MaxEntries : IF n = 0 THEN Asking("trueforce", 1) ELSE Asking("entry", n)
      <3>1. PICK n \in 0..MaxEntries : IF n = 0 THEN Asking("trueforce", 1) ELSE Asking("entry", n)
        BY <2>3
      <3>2. {"trueforce", "entry"} \subseteq Asked /\ 1 \in Nat /\ n \in Nat
        BY <1>1 DEF Asked
      <3> QED BY <3>1, <3>2, Zenon
    <2>4. CASE IF left > 1 THEN Asking("entry", left - 1) ELSE Asking("trueforce", 1)
      <3>1. {"trueforce", "entry"} \subseteq Asked /\ 1 \in Nat /\ (left > 1 => left - 1 \in Nat)
        BY <1>1 DEF Asked
      <3> QED BY <2>4, <3>1, Zenon
    <2>5. CASE IF value \notin {NoAnswer, 0} THEN Asking("state", 2) ELSE Asking("led", 1)
      <3>1. {"state", "led"} \subseteq Asked /\ 1 \in Nat /\ 2 \in Nat
        BY DEF Asked
      <3> QED BY <2>5, <3>1, Zenon
    <2>6. CASE IF left > 1 THEN Asking("state", left - 1) ELSE Asking("led", 1)
      <3>1. {"state", "led"} \subseteq Asked /\ 1 \in Nat /\ (left > 1 => left - 1 \in Nat)
        BY <1>1 DEF Asked
      <3> QED BY <2>6, <3>1, Zenon
    <2>7. CASE pc' = "serving" /\ UNCHANGED askVars
      BY <2>7 DEF askVars
    <2> QED BY <2>1, <2>2, <2>3, <2>4, <2>5, <2>6, <2>7, Zenon DEF Proceed
  <1> QED
    BY <1>1, <1>2, <1>3, <1>4 DEF Tasks, Asking

LEMMA OwedStep == ASSUME TypeOK, [Next]_vars PROVE owed' \in Seq(Request)
  <1>1. owed \in Seq(Request) /\ ask \in Asked
    BY Parts DEF Queues, Tasks
  <1>2. \/ owed' = owed \/ owed' = <<>> \/ (owed # <<>> /\ owed' = Tail(owed))
        \/ owed' = Append(owed, [by |-> "bridge", what |-> "ping"])
        \/ owed' = Append(owed, [by |-> "bridge", what |-> ask])
        \/ owed' = Append(owed, [by |-> "host", what |-> "control"])
        \/ owed' = Append(owed, [by |-> "bridge", what |-> "lights"])
    <2>1. CASE Wheel
      BY <2>1 DEF Wheel, WheelOn, WheelOff, WheelAnswers, WheelNotifies
    <2>2. CASE Wake
      BY <2>2 DEF Wake, StartWaking, Ping, PingEnd, Settled
    <2>3. CASE Features
      BY <2>3, Zenon DEF Features, Ask, Answered, Timeout
    <2>4. CASE RepeatControl
      BY <2>4 DEF RepeatControl
    <2>5. CASE RevLights
      <3>1. \/ owed' = owed
            \/ \E taken \in {TRUE, ~failed'} :
                 owed' = IF taken THEN Append(owed, [by |-> "bridge", what |-> "lights"]) ELSE owed
        BY <2>5, Zenon DEF RevLights
      <3> QED BY <3>1
    <2>6. CASE Console \/ UNCHANGED vars
      BY <2>6 DEF Console, ConsoleAsks, ConsoleLights, ConsoleTakes, vars
    <2> QED BY <2>1, <2>2, <2>3, <2>4, <2>5, <2>6, Zenon DEF Next
  <1>3. \A by \in {"bridge", "host"}, what \in Asked : [by |-> by, what |-> what] \in Request
    BY DEF Request
  <1>4. {"ping", "control", "lights"} \subseteq Asked
    BY DEF Asked
  <1>5. \A x \in Request : Append(owed, x) \in Seq(Request)
    BY <1>1, AppendProperties
  <1>6. <<>> \in Seq(Request) /\ (owed # <<>> => Tail(owed) \in Seq(Request))
    BY <1>1, EmptySeq, Taken
  <1>7. /\ [by |-> "bridge", what |-> "ping"] \in Request
        /\ [by |-> "bridge", what |-> ask] \in Request
        /\ [by |-> "host", what |-> "control"] \in Request
        /\ [by |-> "bridge", what |-> "lights"] \in Request
    BY <1>1, <1>3, <1>4
  <1> QED
    BY <1>1, <1>2, <1>5, <1>6, <1>7, Zenon
LEMMA TypeStep == ASSUME TypeOK, [Next]_vars PROVE TypeOK'
  <1>1. Queues /\ Routing /\ Tasks /\ Rest
    BY Parts
  <1>2. owed' \in Seq(Request)
    BY OwedStep
  <1> USE <1>1
  <1>3. /\ if0Out \in Seq(SUBSET Leds) /\ Len(if0Out) <= QueueLen
        /\ hidppIn \in Seq({"bridge", "host", "all"}) /\ Len(hidppIn) <= QueueLen
        /\ owed \in Seq(Request)
    BY DEF Queues
  <1>4. ASSUME UNCHANGED <<if0Out, hidppIn>> PROVE Queues'
    BY <1>2, <1>3, <1>4 DEF Queues
  <1>5. ASSUME UNCHANGED <<answered, answer, swallowed>> PROVE Routing'
    BY <1>5 DEF Routing
  <1>6. ASSUME UNCHANGED <<pc, ask, left, ledFeature, booted>> PROVE Tasks'
    BY <1>6 DEF Tasks
  <1>7. ASSUME UNCHANGED <<wheel, wheels, pings, lights, last, want, waking, controlOut, failed,
                           givenUp>>
        PROVE  Rest'
    BY <1>7 DEF Rest
  <1>8. Empty \in Message /\ NoAnswer \in 0..NoAnswer /\ 0 \in 0..NoAnswer
    BY Constants DEF Empty, Message
  <1>9. CASE WheelOn \/ WheelOff
    <2>1. Queues' /\ Routing'
      BY <1>4, <1>5, <1>9 DEF WheelOn, WheelOff, routeVars
    <2>2. Tasks'
      BY <1>9 DEF WheelOn, WheelOff, Tasks, askVars, ledVars
    <2>3. Rest'
      <3>1. /\ UNCHANGED <<pings, waking, controlOut>>
            /\ wheel' \in 0..MaxWheels /\ wheels' \in 0..MaxWheels
        BY <1>9, Constants DEF WheelOn, WheelOff, Rest
      <3>2. /\ lights' \in {lights, 0} /\ last' \in {last, NoLevel} /\ want' \in {want, NoLevel}
            /\ failed' \in {failed, FALSE} /\ givenUp' \in {givenUp, FALSE}
        BY <1>9 DEF WheelOn, WheelOff, lightVars
      <3>3. 0 \in 0..NoLevel /\ NoLevel \in 0..NoLevel
        BY Constants
      <3>4. lights' \in 0..NoLevel /\ last' \in 0..NoLevel /\ want' \in 0..NoLevel
        BY <3>2, <3>3 DEF Rest
      <3> QED BY <3>1, <3>2, <3>4 DEF Rest
    <2> QED BY <2>1, <2>2, <2>3, PartsNext
  <1>10. CASE WheelAnswers
    <2>1. /\ UNCHANGED <<wheelVars, pc, pings, askVars, lightVars, waking, ledVars, controlOut, if0Out>>
          /\ owed # <<>>
          /\ \/ UNCHANGED routeVars
             \/ \E a \in Answers(Head(owed).what) : Route(Head(owed).by, a)
      BY <1>10 DEF WheelAnswers
    <2>2. Tasks' /\ Rest'
      BY <1>6, <1>7, <2>1 DEF wheelVars, askVars, lightVars, ledVars
    <2>3. Routing' /\ hidppIn' \in Seq({"bridge", "host", "all"}) /\ Len(hidppIn') <= QueueLen
      <3>1. Head(owed) \in Request
        BY <1>3, <2>1, Taken
      <3>2. Head(owed).what \in Asked /\ Head(owed).by \in {"bridge", "host", "all"}
        BY <3>1 DEF Request
      <3>3. CASE UNCHANGED routeVars
        BY <1>3, <1>5, <3>3 DEF routeVars
      <3>4. ASSUME NEW a \in Answers(Head(owed).what), Route(Head(owed).by, a)
            PROVE  Routing' /\ hidppIn' \in Seq({"bridge", "host", "all"}) /\ Len(hidppIn') <= QueueLen
        <4>1. a \in Message
          BY <3>2, AnswerType
        <4> QED BY <3>2, <3>4, <4>1, RouteType
      <3> QED BY <2>1, <3>3, <3>4
    <2>4. Queues'
      BY <1>2, <1>3, <2>1, <2>3 DEF Queues
    <2> QED BY <2>2, <2>3, <2>4, PartsNext
  <1>11. CASE WheelNotifies
    <2>1. /\ UNCHANGED <<wheelVars, owed, pc, pings, askVars, lightVars, waking, ledVars,
                         controlOut, if0Out>>
          /\ Route("all", Empty)
      BY <1>11 DEF WheelNotifies
    <2>2. Tasks' /\ Rest'
      BY <1>6, <1>7, <2>1 DEF wheelVars, askVars, lightVars, ledVars
    <2>3. Routing' /\ hidppIn' \in Seq({"bridge", "host", "all"}) /\ Len(hidppIn') <= QueueLen
      BY <1>8, <2>1, RouteType
    <2>4. Queues'
      BY <1>2, <1>3, <2>1, <2>3 DEF Queues
    <2> QED BY <2>2, <2>3, <2>4, PartsNext
  <1>12. CASE Wake
    <2>1. Queues'
      BY <1>4, <1>12 DEF Wake, StartWaking, Ping, PingEnd, Settled, routeVars
    <2>2. Routing'
      BY <1>12 DEF Wake, StartWaking, Ping, PingEnd, Settled, routeVars, Routing
    <2>3. Tasks'
      BY <1>12 DEF Wake, StartWaking, Ping, PingEnd, Settled, askVars, ledVars, Tasks, Asked
    <2>4. Rest'
      <3>1. pings' \in 0..MaxPings
        BY <1>12, Constants DEF Wake, StartWaking, Ping, PingEnd, Settled, Rest
      <3>2. /\ UNCHANGED <<wheel, wheels, lights, last, want, controlOut, failed>>
            /\ waking' \in {waking, TRUE, FALSE}
            /\ givenUp' \in {givenUp, givenUp \/ owed' # <<>>}
        BY <1>12, Zenon DEF Wake, StartWaking, Ping, PingEnd, Settled, GiveUp, wheelVars, lightVars
      <3> QED BY <3>1, <3>2 DEF Rest
    <2> QED BY <2>1, <2>2, <2>3, <2>4, PartsNext
  <1>13. CASE Features
    <2>1. Queues'
      BY <1>4, <1>13 DEF Features, Ask, Answered, Timeout, routeVars
    <2>2. Routing'
      BY <1>8, <1>13 DEF Features, Ask, Answered, Timeout, routeVars, Routing
    <2>3. Rest'
      <3>1. /\ UNCHANGED <<wheel, wheels, pings, lights, last, want, waking, controlOut, failed>>
            /\ givenUp' \in {givenUp, givenUp \/ owed' # <<>>}
        BY <1>13, Zenon DEF Features, Ask, Answered, Timeout, GiveUp, wheelVars, lightVars
      <3> QED BY <3>1 DEF Rest
    <2>4. Tasks'
      <3>1. CASE pc' = "waiting" /\ UNCHANGED <<askVars, ledVars>>
        BY <3>1 DEF Tasks, askVars, ledVars
      <3>2. CASE Proceed(NoAnswer)
        BY <1>8, <3>2, ProceedType
      <3>3. CASE Proceed(answer.value)
        <4>1. answer.value \in 0..NoAnswer
          BY DEF Routing, Message
        <4> QED BY <3>3, <4>1, ProceedType
      <3> QED BY <1>13, <3>1, <3>2, <3>3, Zenon DEF Features, Ask, Answered, Timeout
    <2> QED BY <2>1, <2>2, <2>3, <2>4, PartsNext
  <1>14. CASE RepeatControl
    <2>1. /\ UNCHANGED <<wheelVars, pc, pings, askVars, lightVars, routeVars, waking, ledVars, if0Out>>
          /\ controlOut > 0 /\ controlOut' = controlOut - 1
      BY <1>14 DEF RepeatControl
    <2>2. Queues' /\ Routing' /\ Tasks'
      BY <1>4, <1>5, <1>6, <2>1 DEF askVars, routeVars, ledVars
    <2>3. Rest'
      BY <2>1, Constants DEF Rest, wheelVars, lightVars
    <2> QED BY <2>2, <2>3, PartsNext
  <1>15. CASE RevLights
    <2>1. /\ UNCHANGED <<wheelVars, pc, pings, askVars, routeVars, waking, ledVars, controlOut>>
          /\ if0Out # <<>> /\ if0Out' = Tail(if0Out) /\ want' = Level(Head(if0Out))
          /\ last' \in {last, Level(Head(if0Out))} /\ failed' \in BOOLEAN \cup {failed}
          /\ lights' \in {lights, last'}
      BY <1>15, Zenon DEF RevLights
    <2>2. /\ Head(if0Out) \in SUBSET Leds /\ Tail(if0Out) \in Seq(SUBSET Leds)
          /\ Len(Tail(if0Out)) = Len(if0Out) - 1 /\ Len(if0Out) \in Nat
      BY <1>3, <2>1, Taken
    <2>3. Level(Head(if0Out)) \in 0..NoLevel
      BY <2>2, Constants
    <2>4. Len(if0Out') <= QueueLen
      BY <1>3, <2>1, <2>2, Constants
    <2>5. Queues'
      BY <1>2, <1>3, <2>1, <2>2, <2>4 DEF Queues, routeVars
    <2>6. Routing' /\ Tasks'
      BY <1>5, <1>6, <2>1 DEF askVars, routeVars, ledVars
    <2>7. Rest'
      BY <2>1, <2>3 DEF Rest, wheelVars
    <2> QED BY <2>5, <2>6, <2>7, PartsNext
  <1>16. CASE ConsoleAsks
    <2>1. Queues' /\ Routing' /\ Tasks'
      BY <1>4, <1>5, <1>6, <1>16 DEF ConsoleAsks, askVars, routeVars, ledVars
    <2>2. Rest'
      BY <1>16, Constants DEF ConsoleAsks, Rest, wheelVars, lightVars
    <2> QED BY <2>1, <2>2, PartsNext
  <1>17. CASE ConsoleLights
    <2>1. /\ UNCHANGED <<wheelVars, owed, pc, pings, askVars, lightVars, routeVars, waking, ledVars,
                         controlOut>>
      BY <1>17 DEF ConsoleLights
    <2>2. if0Out' \in Seq(SUBSET Leds) /\ Len(if0Out') <= QueueLen
      <3>1. PICK mask \in SUBSET Leds : if0Out' = Push(if0Out, mask)
        BY <1>17 DEF ConsoleLights
      <3> QED BY <1>3, <3>1, PushType
    <2>3. Queues'
      BY <1>2, <1>3, <2>1, <2>2 DEF Queues, routeVars
    <2>4. Routing' /\ Tasks' /\ Rest'
      BY <1>5, <1>6, <1>7, <2>1 DEF wheelVars, askVars, lightVars, routeVars, ledVars
    <2> QED BY <2>3, <2>4, PartsNext
  <1>18. CASE ConsoleTakes
    <2>1. /\ UNCHANGED <<wheelVars, owed, pc, pings, askVars, lightVars, answered, answer, swallowed,
                         waking, ledVars, controlOut, if0Out>>
          /\ hidppIn # <<>> /\ hidppIn' = Tail(hidppIn)
      BY <1>18 DEF ConsoleTakes
    <2>2. hidppIn' \in Seq({"bridge", "host", "all"}) /\ Len(hidppIn') = Len(hidppIn) - 1
          /\ Len(hidppIn) \in Nat
      BY <1>3, <2>1, Taken
    <2>3. Len(hidppIn') <= QueueLen
      BY <1>3, <2>2, Constants
    <2>4. Queues'
      BY <1>2, <1>3, <2>1, <2>2, <2>3 DEF Queues
    <2>5. Routing' /\ Tasks' /\ Rest'
      BY <1>5, <1>6, <1>7, <2>1 DEF wheelVars, askVars, lightVars, ledVars
    <2> QED BY <2>4, <2>5, PartsNext
  <1>19. CASE UNCHANGED vars
    BY <1>4, <1>5, <1>6, <1>7, <1>19, PartsNext
       DEF vars, wheelVars, askVars, lightVars, ledVars, routeVars
  <1> QED
    BY <1>9, <1>10, <1>11, <1>12, <1>13, <1>14, <1>15, <1>16, <1>17, <1>18, <1>19, Zenon
       DEF Next, Wheel, Console
-----------------------------------------------------------------------------
(* Whose answers come, and where they go *)

LEMMA OwingStep == ASSUME TypeOK, Owing, [Next]_vars PROVE Owing'
  <1>1. /\ pc = "none" <=> wheel = 0
        /\ wheel = 0 \/ pc = "start" => owed = <<>>
        /\ pc \in {"pinging", "settling"} => \A k \in 1..Len(owed) : owed[k].by = "bridge"
        /\ owed \in Seq(Request) /\ MaxWheels \in Nat /\ wheels \in 0..MaxWheels
    BY Parts, Constants DEF Owing, Queues, Rest
  <1>2. CASE UNCHANGED <<pc, wheel, owed>>
    BY <1>1, <1>2 DEF Owing
  <1>3. CASE WheelOn
    BY <1>1, <1>3 DEF Owing, WheelOn
  <1>4. CASE WheelOff
    BY <1>1, <1>4 DEF Owing, WheelOff
  <1>5. CASE WheelAnswers
    <2>1. owed # <<>> /\ owed' = Tail(owed) /\ UNCHANGED <<pc, wheel>>
      BY <1>5 DEF WheelAnswers, wheelVars
    <2>2. \A k \in 1..Len(owed') : owed'[k] = owed[k + 1] /\ k + 1 \in 1..Len(owed)
      BY <1>1, <2>1, Taken
    <2> QED BY <1>1, <2>1, <2>2 DEF Owing
  <1>6. CASE Wake
    <2>1. CASE StartWaking
      <3>1. owed' = <<>> /\ pc' = "pinging" /\ wheel' = wheel /\ wheel # 0
        BY <1>1, <2>1 DEF StartWaking, wheelVars
      <3>2. Len(owed') = 0
        BY <3>1
      <3> QED BY <3>1, <3>2 DEF Owing
    <2>2. CASE Ping
      <3>1. pc = "pinging" /\ UNCHANGED <<pc, wheel>>
            /\ owed' \in {owed, Append(owed, [by |-> "bridge", what |-> "ping"])}
        BY <2>2 DEF Ping, wheelVars
      <3>2. CASE owed' = owed
        BY <1>2, <3>1, <3>2
      <3>3. CASE owed' = Append(owed, [by |-> "bridge", what |-> "ping"])
        <4>1. [by |-> "bridge", what |-> "ping"] \in Request /\ Len(owed) \in Nat
          BY <1>1, LenProperties DEF Request, Asked
        <4>2. /\ Len(owed') = Len(owed) + 1
              /\ owed'[Len(owed) + 1] = [by |-> "bridge", what |-> "ping"]
              /\ \A k \in 1..Len(owed) : owed'[k] = owed[k]
          BY <1>1, <3>3, <4>1, AppendProperties
        <4>3. \A k \in 1..Len(owed') : k \in 1..Len(owed) \/ k = Len(owed) + 1
          BY <4>1, <4>2
        <4>4. \A k \in 1..Len(owed') : owed'[k].by = "bridge"
          BY <1>1, <3>1, <4>2, <4>3
        <4> QED BY <1>1, <3>1, <4>4 DEF Owing
      <3> QED BY <3>1, <3>2, <3>3
    <2>3. CASE PingEnd
      BY <1>1, <2>3 DEF PingEnd, Owing, wheelVars
    <2>4. CASE Settled
      BY <1>1, <2>4 DEF Settled, Owing, wheelVars
    <2> QED BY <1>6, <2>1, <2>2, <2>3, <2>4 DEF Wake
  <1>7. CASE Features
    <2>1. pc \in {"asking", "waiting"} /\ wheel' = wheel
      BY <1>7 DEF Features, Ask, Answered, Timeout, wheelVars
    <2>2. pc' \in {"waiting", "asking", "serving"}
      BY <1>7, Zenon DEF Features, Ask, Answered, Timeout, Proceed, Asking
    <2> QED BY <1>1, <2>1, <2>2 DEF Owing
  <1>8. CASE RepeatControl
    BY <1>1, <1>8 DEF RepeatControl, Owing, wheelVars
  <1>9. CASE RevLights
    <2>1. pc = "serving" /\ UNCHANGED <<pc, wheel>>
      BY <1>9 DEF RevLights, wheelVars
    <2> QED BY <1>1, <2>1 DEF Owing
  <1>10. CASE WheelNotifies \/ Console \/ UNCHANGED vars
    BY <1>2, <1>10 DEF WheelNotifies, Console, ConsoleAsks, ConsoleLights, ConsoleTakes, vars, wheelVars
  <1> QED
    BY <1>3, <1>4, <1>5, <1>6, <1>7, <1>8, <1>9, <1>10, Zenon DEF Next, Wheel

LEMMA WakingStep == ASSUME TypeOK, Waking, [Next]_vars PROVE Waking'
  <1>1. CASE WheelOn \/ WheelOff \/ Wake
    BY <1>1 DEF Waking, WheelOn, WheelOff, Wake, StartWaking, Ping, PingEnd, Settled
  <1>2. CASE Features
    <2>1. pc \in {"asking", "waiting"} /\ waking' = waking
      BY <1>2 DEF Features, Ask, Answered, Timeout
    <2> QED BY <2>1 DEF Waking
  <1>3. CASE WheelAnswers \/ WheelNotifies \/ RepeatControl \/ RevLights \/ Console \/ UNCHANGED vars
    <2>1. UNCHANGED <<pc, waking>>
      BY <1>3, Zenon DEF WheelAnswers, WheelNotifies, RepeatControl, RevLights, Console,
         ConsoleAsks, ConsoleLights, ConsoleTakes, vars
    <2> QED BY <2>1 DEF Waking
  <1> QED
    BY <1>1, <1>2, <1>3, Zenon DEF Next, Wheel

LEMMA RightSideStep == ASSUME TypeOK, Owing, Waking, RightSide, [Next]_vars PROVE RightSide'
  <1>1. /\ hidppIn \in Seq({"bridge", "host", "all"}) /\ Len(hidppIn) \in Nat
        /\ owed \in Seq(Request)
        /\ ~swallowed /\ \A k \in 1..Len(hidppIn) : hidppIn[k] # "bridge"
    <2>1. hidppIn \in Seq({"bridge", "host", "all"}) /\ owed \in Seq(Request)
      BY Parts DEF Queues
    <2>2. Len(hidppIn) \in Nat /\ DOMAIN hidppIn = 1..Len(hidppIn)
      BY <2>1, LenProperties
    <2> QED BY <2>1, <2>2 DEF RightSide
  <1>2. hidppIn' \in Seq({"bridge", "host", "all"}) /\ DOMAIN hidppIn' = 1..Len(hidppIn')
    <2>1. hidppIn' \in Seq({"bridge", "host", "all"})
      BY TypeStep, PartsNext DEF Queues
    <2> QED BY <2>1, LenProperties
  <1>3. CASE UNCHANGED <<swallowed, hidppIn>>
    BY <1>3 DEF RightSide
  <1>4. ASSUME NEW to \in {"bridge", "host", "all"}, NEW message, Route(to, message),
               waking => to # "host"
        PROVE  RightSide'
    <2>1. CASE waking \/ to = "bridge"
      <3>1. UNCHANGED hidppIn /\ swallowed' = (swallowed \/ to = "host")
        BY <1>4, <2>1, Zenon DEF Route
      <3>2. to # "host"
        BY <1>4, <2>1
      <3>3. ~swallowed'
        BY <1>1, <3>1, <3>2
      <3> QED BY <3>1, <3>3 DEF RightSide
    <2>2. CASE ~(waking \/ to = "bridge")
      <3>1. hidppIn' = Push(hidppIn, to) /\ UNCHANGED swallowed /\ to # "bridge"
        BY <1>4, <2>2 DEF Route
      <3>2. CASE Len(hidppIn) < QueueLen
        <4>1. hidppIn' = Append(hidppIn, to)
          BY <3>1, <3>2 DEF Push
        <4>2. /\ Len(hidppIn') = Len(hidppIn) + 1 /\ hidppIn'[Len(hidppIn) + 1] = to
              /\ \A k \in 1..Len(hidppIn) : hidppIn'[k] = hidppIn[k]
          BY <1>1, <4>1, AppendProperties
        <4>3. \A k \in 1..Len(hidppIn') : k \in 1..Len(hidppIn) \/ k = Len(hidppIn) + 1
          BY <1>1, <4>2
        <4>4. \A k \in 1..Len(hidppIn') : hidppIn'[k] # "bridge"
          BY <1>1, <3>1, <4>2, <4>3
        <4> QED BY <1>1, <1>2, <3>1, <4>4 DEF RightSide
      <3>3. CASE ~(Len(hidppIn) < QueueLen)
        BY <1>3, <3>1, <3>3 DEF Push
      <3> QED BY <3>2, <3>3
    <2> QED BY <2>1, <2>2
  <1>5. CASE WheelAnswers
    <2>1. /\ owed # <<>>
          /\ \/ UNCHANGED routeVars
             \/ \E a \in Answers(Head(owed).what) : Route(Head(owed).by, a)
      BY <1>5 DEF WheelAnswers
    <2>2. Head(owed) \in Request /\ Head(owed) = owed[1] /\ 1 \in 1..Len(owed)
      BY <1>1, <2>1, Taken
    <2>3. Head(owed).by \in {"bridge", "host", "all"}
      BY <2>2 DEF Request
    <2>4. waking => Head(owed).by # "host"
      <3>1. SUFFICES ASSUME waking PROVE Head(owed).by = "bridge"
        BY <2>3
      <3>2. pc \in {"pinging", "settling"}
        BY <2>1, <3>1 DEF Waking, Owing
      <3> QED BY <2>2, <3>2 DEF Owing
    <2>5. CASE UNCHANGED routeVars
      BY <1>3, <2>5 DEF routeVars
    <2> QED BY <1>4, <2>1, <2>3, <2>4, <2>5
  <1>6. CASE WheelNotifies
    BY <1>4, <1>6 DEF WheelNotifies
  <1>7. CASE ConsoleTakes
    <2>1. hidppIn # <<>> /\ hidppIn' = Tail(hidppIn) /\ UNCHANGED swallowed
      BY <1>7 DEF ConsoleTakes
    <2>2. \A k \in 1..Len(hidppIn') : hidppIn'[k] = hidppIn[k + 1] /\ k + 1 \in 1..Len(hidppIn)
      BY <1>1, <2>1, Taken
    <2> QED BY <1>1, <1>2, <2>1, <2>2 DEF RightSide
  <1>8. CASE WheelOn \/ WheelOff \/ Wake \/ Features \/ RepeatControl \/ RevLights \/ ConsoleAsks
             \/ ConsoleLights \/ UNCHANGED vars
    <2>1. UNCHANGED <<swallowed, hidppIn>>
      BY <1>8, Zenon DEF WheelOn, WheelOff, Wake, StartWaking, Ping, PingEnd, Settled, Features, Ask,
         Answered, Timeout, RepeatControl, RevLights, ConsoleAsks, ConsoleLights, vars, routeVars
    <2> QED BY <1>3, <2>1
  <1> QED
    BY <1>5, <1>6, <1>7, <1>8, Zenon DEF Next, Wheel, Console

-----------------------------------------------------------------------------
(* The rev lights *)

LEMMA LightsStep ==
  ASSUME TypeOK, Owing, Sent, LightsFollow, [Next]_vars
  PROVE  Sent' /\ LightsFollow'
  <1>1. CASE UNCHANGED <<pc, ledFeature, wheel, lightVars>>
    BY <1>1 DEF Sent, LightsFollow, lightVars
  <1>2. CASE WheelOn \/ WheelOff
    BY <1>2 DEF WheelOn, WheelOff, Sent, LightsFollow
  <1>3. CASE Wake \/ Features
    <2>1. pc \in {"start", "pinging", "settling", "asking", "waiting"} /\ UNCHANGED lightVars
      BY <1>3 DEF Wake, StartWaking, Ping, PingEnd, Settled, Features, Ask, Answered, Timeout
    <2>2. want' = NoLevel /\ last' = NoLevel
      BY <2>1 DEF Sent, lightVars
    <2>3. NoLevel' = NoLevel
      BY DEF NoLevel
    <2> QED BY <2>2, <2>3 DEF Sent, LightsFollow
  <1>4. CASE RevLights
    <2>1. /\ pc = "serving" /\ UNCHANGED <<pc, wheel, ledFeature>> /\ if0Out # <<>>
          /\ want' = Level(Head(if0Out))
          /\ IF ledFeature = 0 \/ last = Level(Head(if0Out))
             THEN UNCHANGED <<lights, last, failed>>
             ELSE /\ last' = Level(Head(if0Out))
                  /\ \E taken \in {TRUE, ~failed'} :
                       lights' = IF taken /\ ledFeature = wheel THEN last' ELSE lights
      BY <1>4, Zenon DEF RevLights, wheelVars, ledVars
    <2> DEFINE level == Level(Head(if0Out))
    <2>2. level # NoLevel
      <3>1. Head(if0Out) \in SUBSET Leds
        <4>1. if0Out \in Seq(SUBSET Leds)
          BY Parts DEF Queues
        <4> QED BY <2>1, <4>1, Taken
      <3> QED BY <3>1, Constants
    <2> HIDE DEF level
    <2>3. wheel # 0
      BY <2>1 DEF Owing
    <2>4. Sent'
      BY <2>1 DEF Sent, level
    <2>5. LightsFollow'
      <3>1. CASE ledFeature = 0
        BY <2>1, <2>3, <3>1 DEF LightsFollow
      <3>2. CASE ledFeature # 0 /\ last = level
        BY <2>1, <2>2, <3>2 DEF LightsFollow, Sent, level
      <3>3. CASE ledFeature # 0 /\ last # level
        BY <2>1, <3>3 DEF LightsFollow, level
      <3> QED BY <3>1, <3>2, <3>3
    <2> QED BY <2>4, <2>5
  <1>5. CASE WheelAnswers \/ WheelNotifies \/ RepeatControl \/ Console \/ UNCHANGED vars
    <2>1. UNCHANGED <<pc, ledFeature, wheel, lightVars>>
      BY <1>5, Zenon DEF WheelAnswers, WheelNotifies, RepeatControl, Console, ConsoleAsks,
         ConsoleLights, ConsoleTakes, vars, wheelVars, ledVars
    <2> QED BY <1>1, <2>1
  <1> QED
    BY <1>2, <1>3, <1>4, <1>5, Zenon DEF Next, Wheel

-----------------------------------------------------------------------------
(* The questions of the bridge *)

LEMMA AskedOneStep ==
  ASSUME TypeOK, Waking, AskedOne, [Next]_vars
  PROVE  AskedOne'
  <1>1. /\ pc = "asking" /\ ~givenUp => owed = <<>>
        /\ pc = "waiting" /\ ~givenUp =>
             \/ owed = <<[by |-> "bridge", what |-> ask]>> /\ answer = Empty
             \/ owed = <<>> /\ (answer = Empty \/ answer \in Answers(ask))
    BY DEF AskedOne
  <1>2. Empty' = Empty
    BY DEF Empty
  <1>3. CASE UNCHANGED <<pc, owed, ask, answer, wheel, givenUp>>
    BY <1>1, <1>2, <1>3 DEF AskedOne, Answers, Other, NoAnswer
  <1>4. CASE pc' \notin {"asking", "waiting"}
    BY <1>4 DEF AskedOne
  <1>5. CASE WheelOn \/ WheelOff \/ StartWaking \/ PingEnd
    BY <1>4, <1>5 DEF WheelOn, WheelOff, StartWaking, PingEnd
  <1>6. CASE Ping \/ RepeatControl \/ RevLights
    <2>1. pc' \in {"pinging", "serving"}
      BY <1>6, Zenon DEF Ping, RepeatControl, RevLights
    <2> QED BY <1>4, <2>1
  <1>7. CASE Settled
    BY <1>7 DEF Settled, GiveUp, AskedOne
  <1>8. CASE WheelAnswers
    <2>1. /\ owed # <<>> /\ owed' = Tail(owed) /\ UNCHANGED <<pc, ask, wheel, givenUp>>
          /\ \/ UNCHANGED routeVars
             \/ \E a \in Answers(Head(owed).what) : Route(Head(owed).by, a)
      BY <1>8 DEF WheelAnswers, wheelVars, askVars
    <2>2. CASE pc = "waiting" /\ ~givenUp
      <3>1. owed = <<[by |-> "bridge", what |-> ask]>> /\ answer = Empty
        BY <1>1, <2>1, <2>2
      <3>2. owed' = <<>> /\ Head(owed).what = ask /\ Head(owed).by = "bridge"
        BY <2>1, <3>1
      <3>3. answer' = Empty \/ answer' \in Answers(ask)
        BY <2>1, <3>1, <3>2 DEF routeVars, Route
      <3>4. Answers(ask)' = Answers(ask)
        BY <2>1 DEF Answers, Other, NoAnswer
      <3> QED BY <1>2, <2>1, <2>2, <3>2, <3>3, <3>4 DEF AskedOne
    <2>3. CASE pc # "waiting" \/ givenUp
      BY <1>1, <2>1, <2>3 DEF AskedOne
    <2> QED BY <2>2, <2>3
  <1>9. CASE WheelNotifies
    <2>1. UNCHANGED <<pc, owed, ask, answer, wheel, givenUp>>
      BY <1>9 DEF WheelNotifies, Route, wheelVars, askVars
    <2> QED BY <1>3, <2>1
  <1>10. CASE Features
    <2>1. CASE pc' = "waiting"
      <3>1. /\ pc = "asking" /\ answer' = Empty
            /\ owed' = Append(owed, [by |-> "bridge", what |-> ask]) /\ UNCHANGED <<ask, givenUp>>
        BY <1>10, <2>1, Zenon DEF Features, Ask, Answered, Timeout, Proceed, Asking, askVars
      <3>2. ~givenUp => owed' = <<[by |-> "bridge", what |-> ask']>>
        BY <1>1, <3>1
      <3> QED BY <1>2, <2>1, <3>1, <3>2 DEF AskedOne
    <2>2. CASE pc' = "asking"
      <3>1. ~givenUp' => owed' = <<>>
        <4>1. CASE Ask
          BY <2>2, <4>1 DEF Ask, GiveUp
        <4>2. CASE Answered
          BY <1>1, <4>2 DEF Answered, wheelVars
        <4>3. CASE Timeout
          BY <4>3 DEF Timeout, GiveUp
        <4> QED BY <1>10, <4>1, <4>2, <4>3 DEF Features
      <3> QED BY <2>2, <3>1 DEF AskedOne
    <2> QED BY <1>4, <2>1, <2>2
  <1>11. CASE Console \/ UNCHANGED vars
    BY <1>3, <1>11 DEF Console, ConsoleAsks, ConsoleLights, ConsoleTakes, vars, wheelVars, askVars,
       routeVars
  <1> QED
    BY <1>5, <1>6, <1>7, <1>8, <1>9, <1>10, <1>11, Zenon DEF Next, Wheel, Wake

LEMMA LedFeatureStep ==
  ASSUME TypeOK, AskedOne, [Next]_vars
  PROVE  ledFeature' # ledFeature => ledFeature' = wheel \/ givenUp
  <1>1. CASE Ask \/ Timeout
    <2>1. UNCHANGED ledFeature \/ Proceed(NoAnswer)
      BY <1>1, Zenon DEF Ask, Timeout, ledVars
    <2> QED BY <2>1 DEF Proceed
  <1>2. CASE Answered /\ ~givenUp
    <2>1. answer \in Answers(ask) /\ Proceed(answer.value)
      BY <1>2 DEF Answered, AskedOne
    <2>2. \/ UNCHANGED ledFeature
          \/ ask = "led" /\ answer.value \notin {NoAnswer, 0} /\ ledFeature' = answer.value
      BY <2>1 DEF Proceed
    <2> QED BY <2>1, <2>2 DEF Answers
  <1>3. CASE Wheel \/ Wake \/ RepeatControl \/ RevLights \/ Console \/ UNCHANGED vars
    <2>1. UNCHANGED ledFeature
      BY <1>3, Zenon DEF Wheel, WheelOn, WheelOff, WheelAnswers, WheelNotifies, Wake, StartWaking,
         Ping, PingEnd, Settled, RepeatControl, RevLights, Console, ConsoleAsks, ConsoleLights,
         ConsoleTakes, vars, ledVars
    <2> QED BY <2>1
  <1> QED
    BY <1>1, <1>2, <1>3, Zenon DEF Next, Features

-----------------------------------------------------------------------------
(* The theorems *)

LEMMA Beginning == Init => IInv
  <1> SUFFICES ASSUME Init PROVE IInv
    OBVIOUS
  <1>1. /\ <<>> \in Seq(Request) /\ <<>> \in Seq(SUBSET Leds)
        /\ <<>> \in Seq({"bridge", "host", "all"}) /\ Len(<<>>) = 0
    BY EmptySeq
  <1>2. Queues
    BY <1>1, Constants DEF Init, Queues
  <1>3. Routing /\ Tasks
    <2>1. 0 \in 0..NoAnswer /\ 0 \in 0..Other /\ 0 \in Nat
      BY Constants
    <2>2. Empty \in Message
      BY <2>1 DEF Empty, Message
    <2> QED BY <2>1, <2>2 DEF Init, Routing, Tasks, Asked
  <1>4. Rest
    <2>1. /\ 0 \in 0..NoLevel /\ NoLevel \in 0..NoLevel /\ 0 \in 0..MaxWheels
          /\ 0 \in 0..MaxPings /\ 0 \in 0..QueueLen
      BY Constants
    <2> QED BY <2>1 DEF Init, Rest
  <1>5. Owing /\ Waking /\ Sent /\ LightsFollow /\ AskedOne
    BY Constants DEF Init, Owing, Waking, Sent, LightsFollow, AskedOne
  <1>6. RightSide
    BY <1>1, LenProperties DEF Init, RightSide
  <1> QED
    BY <1>2, <1>3, <1>4, <1>5, <1>6, Parts DEF IInv

LEMMA AlwaysIInv == Spec => []IInv
  <1>1. Init => IInv
    BY Beginning
  <1>2. IInv /\ [Next]_vars => IInv'
    <2> SUFFICES ASSUME IInv, [Next]_vars PROVE IInv'
      OBVIOUS
    <2>1. TypeOK /\ Owing /\ Waking /\ RightSide /\ Sent /\ LightsFollow /\ AskedOne
      BY DEF IInv
    <2> QED
      BY <2>1, TypeStep, OwingStep, WakingStep, RightSideStep, LightsStep, AskedOneStep DEF IInv
  <1> QED
    BY <1>1, <1>2, PTL DEF Spec

(***************************************************************************)
(* Every variable keeps to its type: no queue takes more than its capacity *)
(* and no byte is kept for the LEDs that no wheel could have sent.         *)
(***************************************************************************)
THEOREM TypeCorrect == Spec => []TypeOK
  BY AlwaysIInv, PTL DEF IInv

(***************************************************************************)
(* The wheel's answers to the bridge never go to the console, and none for *)
(* the console is taken for the bridge's, however late they come and       *)
(* wherever the proxy of a wheel was dropped.                              *)
(***************************************************************************)
THEOREM AnswersToTheRightSide == Spec => []RightSide
  BY AlwaysIInv, PTL DEF IInv

(***************************************************************************)
(* The rev lights of a wheel whose feature is known show what the console  *)
(* wanted last, unless the last command failed.                            *)
(***************************************************************************)
THEOREM LightsAsWanted == Spec => []LightsFollow
  BY AlwaysIInv, PTL DEF IInv

(***************************************************************************)
(* The index kept for the LEDs is only ever set to what the wheel attached *)
(* gave when it was asked for it, whatever earlier wheels and the pings    *)
(* left behind, unless a request to this wheel was given up before.        *)
(***************************************************************************)
THEOREM IndexWasAskedFor == Spec => IndexKept
  <1>1. IInv /\ [Next]_vars => [ledFeature' # ledFeature => ledFeature' = wheel \/ givenUp]_vars
    <2>1. ASSUME IInv, [Next]_vars
          PROVE  ledFeature' # ledFeature => ledFeature' = wheel \/ givenUp
      BY <2>1, LedFeatureStep DEF IInv
    <2> QED BY <2>1
  <1> QED
    BY <1>1, AlwaysIInv, PTL DEF Spec, IndexKept
=============================================================================
