-------------------------- MODULE WheelLink_proofs --------------------------
(***************************************************************************)
(* Theorems about WheelLink, for every value of its constants.             *)
(***************************************************************************)
EXTENDS WheelLink, SequenceTheorems, TLAPS

-----------------------------------------------------------------------------
(* Lemmas about the queues *)

\* Retagging the packets of a queue keeps it a queue of the same length.
LEMMA AgedQueue ==
  ASSUME NEW q \in Seq(Tag), NEW tag \in Tag
  PROVE  /\ Aged(q, tag) \in Seq(Tag)
         /\ Len(Aged(q, tag)) = Len(q)
  <1> DEFINE n == Len(q)
  <1>1. n \in Nat /\ DOMAIN q = 1..n
    BY LenProperties
  <1>2. Aged(q, tag) \in [1..n -> Tag]
    BY <1>1 DEF Aged
  <1>3. Aged(q, tag) \in Seq(Tag)
    BY <1>1, <1>2, SeqDef
  <1>4. DOMAIN Aged(q, tag) = 1..Len(Aged(q, tag)) /\ Len(Aged(q, tag)) \in Nat
    BY <1>3, LenProperties
  <1> QED
    BY <1>1, <1>2, <1>3, <1>4

\* wheel_link keeps WHEEL_LINK within its capacity.
LEMMA LinkSendType ==
  ASSUME TypeOK, LinkAssumption, NEW report \in BOOLEAN, LinkSend(report)
  PROVE  /\ link' \in Seq(BOOLEAN) /\ Len(link') <= LinkCap
         /\ reported' \in BOOLEAN /\ lost' \in BOOLEAN
  <1>1. CASE Len(link) < LinkCap
    <2>1. /\ Append(link, report) \in Seq(BOOLEAN)
          /\ Len(Append(link, report)) = Len(link) + 1
      <3>1. link \in Seq(BOOLEAN)
        BY DEF TypeOK
      <3> QED BY <3>1, AppendProperties
    <2>2. Len(link) \in Nat
      BY LenProperties DEF TypeOK
    <2>3. link' = Append(link, report) /\ lost' = lost /\ reported' = report
      BY <1>1, Zenon DEF LinkSend
    <2>4. Len(link') <= LinkCap
      <3>1. Len(link') = Len(link) + 1
        BY <2>1, <2>3, Zenon
      <3> QED BY <1>1, <2>2, <3>1 DEF LinkAssumption
    <2> QED BY <2>1, <2>3, <2>4, Zenon DEF TypeOK
  <1>2. CASE ~(Len(link) < LinkCap)
    BY <1>2, Zenon DEF TypeOK, LinkSend
  <1> QED
    BY <1>1, <1>2

\* Taking a report shortens WHEEL_LINK.
LEMMA LinkTail ==
  ASSUME TypeOK, LinkAssumption, link # <<>>
  PROVE  /\ Head(link) \in BOOLEAN
         /\ Tail(link) \in Seq(BOOLEAN) /\ Len(Tail(link)) <= LinkCap
  <1>1. /\ Head(link) \in BOOLEAN /\ Tail(link) \in Seq(BOOLEAN)
        /\ Len(Tail(link)) = Len(link) - 1 /\ Len(link) \in Nat
    BY HeadTailProperties, LenProperties, Zenon DEF TypeOK
  <1>2. Len(Tail(link)) <= LinkCap
    BY <1>1 DEF TypeOK, LinkAssumption
  <1> QED
    BY <1>1, <1>2, Zenon

-----------------------------------------------------------------------------
(* Types *)

LEMMA TypeInit == ASSUME LinkAssumption PROVE Init => TypeOK
  <1>1. /\ <<>> \in Seq(BOOLEAN) /\ <<>> \in Seq(Tag) /\ Len(<<>>) = 0
    BY EmptySeq
  <1>2. 0 \in Nat /\ 0 \in 0..MinDetach /\ 0 <= LinkCap /\ 0 <= QueueLen
    BY DEF LinkAssumption
  <1> QED
    BY <1>1, <1>2, Zenon DEF Init, TypeOK, Tag

LEMMA TypeStep == ASSUME LinkAssumption PROVE TypeOK /\ [Next]_vars => TypeOK'
  <1> SUFFICES ASSUME TypeOK, [Next]_vars PROVE TypeOK'
    OBVIOUS
  <1> USE LinkAssumption DEF LinkAssumption
  <1>1. CASE ProxyStart
    <2>1. Aged(ffbOut, "gone") \in Seq(Tag) /\ Len(Aged(ffbOut, "gone")) <= QueueLen
      BY AgedQueue DEF TypeOK, Tag
    <2> QED BY <1>1, <2>1 DEF ProxyStart, TypeOK, devVars, linkVars
  <1>2. CASE WheelAwake
    BY <1>2, LinkSendType DEF WheelAwake, TypeOK, devVars
  <1>3. CASE ProxyDrop
    BY <1>3, LinkSendType DEF ProxyDrop, TypeOK, devVars, Tag
  <1>4. CASE FfbTake
    BY <1>4 DEF FfbTake, TypeOK, devVars, linkVars
  <1>5. CASE FfbSent
    BY <1>5 DEF FfbSent, TypeOK, devVars, linkVars, Tag
  <1>6. CASE FfbStop
    BY <1>6 DEF FfbStop, TypeOK, devVars, linkVars, Tag
  <1>7. CASE FfbStallDropped
    BY <1>7 DEF FfbStallDropped, TypeOK, devVars, linkVars, Tag
  <1>8. CASE FfbStallRecover
    BY <1>8, LinkSendType DEF FfbStallRecover, TypeOK, devVars, Tag
  <1>9. CASE RecoverDone
    BY <1>9, LinkSendType DEF RecoverDone, TypeOK, devVars
  <1>10. CASE ClearHaltBegin
    BY <1>10 DEF ClearHaltBegin, TypeOK, devVars, linkVars
  <1>11. CASE ClearHaltEnd
    BY <1>11 DEF ClearHaltEnd, TypeOK, devVars, linkVars
  <1>12. CASE ConsoleSend
    BY <1>12 DEF ConsoleSend, TypeOK, proxyVars, devVars, linkVars, Tag
  <1>13. CASE Boot
    <2>1. /\ link' \in Seq(BOOLEAN) /\ Len(link') <= LinkCap
      BY <1>13, LinkTail, Zenon DEF Boot
    <2>2. dev' \in {"boot", "following"}
      BY <1>13 DEF Boot
    <2>3. /\ UNCHANGED proxyVars
          /\ UNCHANGED <<attached, sleep, reported, lost, ffbOut, setup, halt, cool, early>>
      BY <1>13, Zenon DEF Boot
    <2> QED BY <2>1, <2>2, <2>3 DEF TypeOK, proxyVars
  <1>14. CASE FollowSame
    BY <1>14, LinkTail DEF FollowSame, TypeOK, proxyVars, devVars
  <1>15. CASE FollowOff
    <2>1. Aged(ffbOut, "left") \in Seq(Tag) /\ Len(Aged(ffbOut, "left")) <= QueueLen
      BY AgedQueue DEF TypeOK, Tag
    <2>2. /\ link' \in Seq(BOOLEAN) /\ Len(link') <= LinkCap
      BY <1>15, LinkTail, Zenon DEF FollowOff
    <2>3. /\ ffbOut' \in Seq(Tag) /\ Len(ffbOut') <= QueueLen
      BY <1>15, <2>1, Zenon DEF FollowOff
    <2>4. MinDetach \in 0..MinDetach
      OBVIOUS
    <2> QED BY <1>15, <2>2, <2>3, <2>4, Zenon DEF FollowOff, TypeOK, proxyVars
  <1>16. CASE FollowOn
    <2>1. <<>> \in Seq(Tag) /\ Len(<<>>) = 0
      BY EmptySeq
    <2>2. /\ link' \in Seq(BOOLEAN) /\ Len(link') <= LinkCap
      BY <1>16, LinkTail, Zenon DEF FollowOn
    <2>3. /\ ffbOut' \in Seq(Tag) /\ Len(ffbOut') <= QueueLen
      <3>1. 0 <= QueueLen
        OBVIOUS
      <3>2. ffbOut' = <<>>
        BY <1>16, Zenon DEF FollowOn
      <3> QED BY <2>1, <3>1, <3>2, Zenon
    <2> QED BY <1>16, <2>2, <2>3, Zenon DEF FollowOn, TypeOK, proxyVars
  <1>17. CASE Detached
    BY <1>17 DEF Detached, TypeOK, proxyVars, linkVars
  <1>18. CASE Tick
    BY <1>18 DEF Tick, Less, TypeOK, proxyVars, linkVars
  <1>19. CASE UNCHANGED vars
    BY <1>19 DEF vars, TypeOK, proxyVars, devVars, linkVars
  <1> QED
    BY <1>1, <1>2, <1>3, <1>4, <1>5, <1>6, <1>7, <1>8, <1>9, <1>10, <1>11,
       <1>12, <1>13, <1>14, <1>15, <1>16, <1>17, <1>18, <1>19
    DEF Next, ProxyStep, Follow

(***************************************************************************)
(* Every variable keeps its type; both queues keep within their            *)
(* capacities, whatever the tasks do.                                      *)
(***************************************************************************)
THEOREM TypeCorrect == Spec => []TypeOK
  BY TypeInit, TypeStep, LinkAssumption, PTL DEF Spec

-----------------------------------------------------------------------------
(* The phases of the tasks *)

(***************************************************************************)
(* What the position of a task says of its variables; and a recovery runs  *)
(* with a wheel that is awake, or it began early.                          *)
(***************************************************************************)
Phases ==
  /\ dev = "boot" => attached
  /\ dev = "detaching" => ~attached
  /\ ep0 = "none" => ffb = "none"

EarlyInv ==
  /\ ffb = "recovering" => ep0 # "none" /\ (Awake \/ early)
  /\ early => ep0 # "none" /\ (Awake => ffb = "recovering")

LEMMA PhasesStep == Phases /\ [Next]_vars => Phases'
  <1> SUFFICES ASSUME Phases, [Next]_vars PROVE Phases'
    OBVIOUS
  <1> USE DEF Phases
  <1>1. CASE Boot
    <2>1. dev = "boot" /\ dev' \in {"following", "boot"} /\ UNCHANGED <<attached, ep0, ffb>>
      BY <1>1 DEF Boot, proxyVars
    <2> QED BY <2>1
  <1>2. CASE FollowSame \/ FollowOn
    <2>1. /\ dev = "following" /\ dev' = dev /\ UNCHANGED <<ep0, ffb>>
      BY <1>2, Zenon DEF FollowSame, FollowOn, devVars, proxyVars
    <2> QED BY <2>1
  <1>3. CASE FollowOff
    <2>1. ~attached' /\ dev' = "detaching" /\ UNCHANGED <<ep0, ffb>>
      BY <1>3, Zenon DEF FollowOff, proxyVars
    <2> QED BY <2>1
  <1>4. CASE Detached
    <2>1. dev' = "following" /\ UNCHANGED <<ep0, ffb>>
      BY <1>4, Zenon DEF Detached, proxyVars
    <2> QED BY <2>1
  <1>5. CASE ProxyStart
    <2>1. ep0' = "waking" /\ UNCHANGED <<dev, attached>>
      BY <1>5, Zenon DEF ProxyStart, devVars
    <2> QED BY <2>1
  <1>6. CASE ProxyDrop
    <2>1. ffb' = "none" /\ UNCHANGED <<dev, attached>>
      BY <1>6, Zenon DEF ProxyDrop, devVars
    <2> QED BY <2>1
  <1>7. CASE WheelAwake \/ ClearHaltBegin \/ ClearHaltEnd
    <2>1. ep0' \in {"serving", "clearing"} /\ UNCHANGED <<dev, attached>>
      BY <1>7 DEF WheelAwake, ClearHaltBegin, ClearHaltEnd, devVars
    <2> QED BY <2>1
  <1>8. CASE FfbTake \/ FfbSent \/ FfbStop \/ FfbStallDropped \/ FfbStallRecover \/ RecoverDone
    <2>1. ffb \in {"waiting", "sending", "recovering"} /\ UNCHANGED <<dev, attached, ep0>>
      BY <1>8, Zenon DEF FfbTake, FfbSent, FfbStop, FfbStallDropped, FfbStallRecover,
         RecoverDone, devVars
    <2> QED BY <2>1
  <1>9. CASE UNCHANGED <<dev, attached, ep0, ffb>>
    BY <1>9
  <1>10. ConsoleSend \/ Tick \/ UNCHANGED vars => UNCHANGED <<dev, attached, ep0, ffb>>
    BY Zenon DEF ConsoleSend, Tick, vars, devVars, proxyVars
  <1> QED
    BY <1>1, <1>2, <1>3, <1>4, <1>5, <1>6, <1>7, <1>8, <1>9, <1>10, Zenon
    DEF Next, ProxyStep, Follow

LEMMA PhasesCorrect == Spec => []Phases
  <1>1. Init => Phases
    BY Zenon DEF Init, Phases
  <1> QED
    BY <1>1, PhasesStep, PTL DEF Spec

-----------------------------------------------------------------------------
(* Fresh queues *)

FreshInv == Pullup \/ dev = "boot" => \A i \in DOMAIN ffbOut : ffbOut[i] # "left"

LEMMA FreshStep ==
  ASSUME LinkAssumption
  PROVE  TypeOK /\ FreshInv /\ [Next]_vars => FreshInv'
  <1> SUFFICES ASSUME TypeOK, FreshInv, [Next]_vars PROVE FreshInv'
    OBVIOUS
  <1>1. CASE ProxyStart
    <2>1. \A i \in DOMAIN ffbOut' : ffbOut'[i] = "gone"
      BY <1>1, AgedQueue DEF ProxyStart, Aged, TypeOK, Tag
    <2> QED BY <2>1 DEF FreshInv
  <1>2. CASE FfbTake
    <2>1. ffbOut # <<>> /\ ffbOut' = Tail(ffbOut) /\ UNCHANGED <<dev, attached>>
      BY <1>2, Zenon DEF FfbTake, devVars
    <2>2. /\ Tail(ffbOut) \in Seq(Tag) /\ Len(Tail(ffbOut)) = Len(ffbOut) - 1
          /\ \A i \in 1..Len(Tail(ffbOut)) : Tail(ffbOut)[i] = ffbOut[i + 1]
      BY <2>1, HeadTailProperties DEF TypeOK
    <2>3. /\ DOMAIN ffbOut = 1..Len(ffbOut) /\ Len(ffbOut) \in Nat
          /\ DOMAIN Tail(ffbOut) = 1..Len(Tail(ffbOut))
      BY <2>2, LenProperties DEF TypeOK
    <2>4. \A i \in DOMAIN Tail(ffbOut) :
            i + 1 \in DOMAIN ffbOut /\ Tail(ffbOut)[i] = ffbOut[i + 1]
      BY <2>2, <2>3
    <2> QED BY <2>1, <2>4, Zenon DEF FreshInv, Pullup
  <1>3. CASE ConsoleSend
    <2>1. ffbOut' = Append(ffbOut, "cur") /\ UNCHANGED <<dev, attached>> /\ Pullup
      BY <1>3, Zenon DEF ConsoleSend, devVars
    <2>2. /\ Len(ffbOut') = Len(ffbOut) + 1 /\ ffbOut' \in Seq(Tag)
          /\ \A i \in 1..Len(ffbOut) : ffbOut'[i] = ffbOut[i]
          /\ ffbOut'[Len(ffbOut) + 1] = "cur"
      BY <2>1, AppendProperties DEF TypeOK, Tag
    <2>3. /\ DOMAIN ffbOut = 1..Len(ffbOut) /\ Len(ffbOut) \in Nat
      BY LenProperties DEF TypeOK
    <2>5. DOMAIN ffbOut' = 1..Len(ffbOut')
      BY <2>2, LenProperties
    <2>4. \A i \in DOMAIN ffbOut' : ffbOut'[i] = "cur" \/ (i \in DOMAIN ffbOut /\ ffbOut'[i] = ffbOut[i])
      BY <2>2, <2>3, <2>5
    <2>6. \A i \in DOMAIN ffbOut : ffbOut[i] # "left"
      BY <2>1, Zenon DEF FreshInv
    <2>7. \A i \in DOMAIN ffbOut' : ffbOut'[i] # "left"
      BY <2>4, <2>6
    <2> QED BY <2>7, Zenon DEF FreshInv
  <1>4. CASE Boot
    BY <1>4, Zenon DEF Boot, FreshInv, Pullup
  <1>5. CASE FollowOff
    BY <1>5, Zenon DEF FollowOff, FreshInv, Pullup
  <1>6. CASE FollowOn
    <2>1. ffbOut' = <<>>
      BY <1>6, Zenon DEF FollowOn
    <2>2. \A i \in DOMAIN ffbOut' : FALSE
      BY <2>1
    <2> QED BY <2>2, Zenon DEF FreshInv
  <1>7. CASE Detached
    BY <1>7, Zenon DEF Detached, FreshInv, Pullup
  <1>8. CASE UNCHANGED <<dev, attached, ffbOut>>
    BY <1>8, Zenon DEF FreshInv, Pullup
  <1>9. \/ UNCHANGED <<dev, attached, ffbOut>>
        \/ ProxyStart \/ FfbTake \/ ConsoleSend \/ Boot \/ FollowOff \/ FollowOn \/ Detached
    BY Zenon DEF Next, ProxyStep, Follow, vars, devVars, proxyVars,
       ProxyDrop, WheelAwake, FfbSent, FfbStop, FfbStallDropped, FollowSame,
       FfbStallRecover, RecoverDone, ClearHaltBegin, ClearHaltEnd, Tick
  <1> QED
    BY <1>1, <1>2, <1>3, <1>4, <1>5, <1>6, <1>7, <1>8, <1>9, Zenon

(***************************************************************************)
(* While the console sees the device, no packet waiting for the wheel was  *)
(* sent over an earlier connection.                                        *)
(***************************************************************************)
THEOREM AlwaysFresh == Spec => []QueuesFresh
  <1>1. Init => FreshInv
    BY DEF Init, FreshInv
  <1>2. FreshInv => QueuesFresh
    BY Zenon DEF FreshInv, QueuesFresh
  <1> QED
    BY <1>1, <1>2, FreshStep, TypeCorrect, LinkAssumption, PTL DEF Spec

-----------------------------------------------------------------------------
(* The device follows the wheel *)

\* Where the device will be once every report has been taken.
Announced == IF link = <<>> THEN Pullup ELSE link[Len(link)]

TrackInv == lost \/ ((Present => Announced) /\ (Announced => Present \/ early))

\* A report that is not dropped decides where the device will be.
LEMMA LastOfAppend ==
  ASSUME NEW S, NEW s \in Seq(S), NEW e \in S
  PROVE  /\ Append(s, e) # <<>>
         /\ Append(s, e)[Len(Append(s, e))] = e
  BY AppendProperties

LEMMA SendAnnounces ==
  ASSUME TypeOK, NEW report \in BOOLEAN, LinkSend(report)
  PROVE  lost' \/ Announced' = report
  <1>1. CASE Len(link) < LinkCap
    <2>1. link' = Append(link, report)
      BY <1>1, Zenon DEF LinkSend
    <2>2. /\ Append(link, report) # <<>>
          /\ Append(link, report)[Len(Append(link, report))] = report
      <3>1. link \in Seq(BOOLEAN)
        BY Zenon DEF TypeOK
      <3> QED BY <3>1, LastOfAppend
    <2>3. link' # <<>> /\ link'[Len(link')] = report
      BY <2>1, <2>2, Zenon
    <2> QED BY <2>3, Zenon DEF Announced
  <1>2. CASE ~(Len(link) < LinkCap)
    BY <1>2, Zenon DEF LinkSend
  <1> QED
    BY <1>1, <1>2, Zenon

\* The last element of a sequence is still the last once the first is taken.
LEMMA LastOfTail ==
  ASSUME NEW S, NEW s \in Seq(S), s # <<>>
  PROVE  /\ Tail(s) = <<>> => s[Len(s)] = Head(s)
         /\ Tail(s) # <<>> => Tail(s)[Len(Tail(s))] = s[Len(s)]
  <1>1. /\ Tail(s) \in Seq(S) /\ Len(Tail(s)) = Len(s) - 1
        /\ \A i \in 1..Len(Tail(s)) : Tail(s)[i] = s[i + 1]
    BY HeadTailProperties
  <1>2. Len(s) \in Nat /\ Head(s) = s[1]
    BY LenProperties
  <1>3. Tail(s) = <<>> => Len(s) = 1
    BY <1>1, <1>2, EmptySeq
  <1>4. Tail(s) # <<>> => Len(Tail(s)) \in Nat \ {0}
    BY <1>1, EmptySeq
  <1> QED
    BY <1>1, <1>2, <1>3, <1>4

\* Taking a report and doing what it says does not change that.
LEMMA TakeAnnounces ==
  ASSUME TypeOK, link # <<>>, link' = Tail(link), Pullup' <=> Head(link)
  PROVE  Announced' <=> Announced
  <1>1. /\ Tail(link) = <<>> => link[Len(link)] = Head(link)
        /\ Tail(link) # <<>> => Tail(link)[Len(Tail(link))] = link[Len(link)]
    <2>1. link \in Seq(BOOLEAN)
      BY Zenon DEF TypeOK
    <2> QED BY <2>1, LastOfTail
  <1>2. CASE Tail(link) = <<>>
    BY <1>1, <1>2, Zenon DEF Announced
  <1>3. CASE Tail(link) # <<>>
    BY <1>1, <1>3, Zenon DEF Announced
  <1> QED
    BY <1>2, <1>3, Zenon

LEMMA TrackStep ==
  /\ TypeOK /\ Phases /\ EarlyInv /\ TrackInv /\ [Next]_vars => EarlyInv' /\ TrackInv'
  <1> SUFFICES ASSUME TypeOK, Phases, EarlyInv, TrackInv, [Next]_vars
               PROVE  EarlyInv' /\ TrackInv'
    OBVIOUS
  <1> USE DEF EarlyInv, TrackInv, Present, Awake
  <1>a. TRUE \in BOOLEAN /\ FALSE \in BOOLEAN
    OBVIOUS
  <1>b. ASSUME link # <<>>, link' = Tail(link), Pullup' <=> Head(link),
               UNCHANGED <<ep0, ffb, lost, early>>
        PROVE  EarlyInv' /\ TrackInv'
    BY <1>b, TakeAnnounces, Zenon
  <1>c. ASSUME UNCHANGED <<link, lost, dev, attached>>
        PROVE  Announced' = Announced /\ lost' = lost
    BY <1>c, Zenon DEF Announced, Pullup
  <1>1. CASE ProxyStart
    <2>1. Announced' = Announced /\ lost' = lost
      BY <1>1, <1>c, Zenon DEF ProxyStart, linkVars, devVars
    <2>2. /\ ep0 = "none" /\ ep0' = "waking" /\ ffb' \in {"waiting", "stopped"}
          /\ early' = early
      BY <1>1, Zenon DEF ProxyStart
    <2> QED BY <2>1, <2>2
  <1>2. CASE WheelAwake
    <2>1. lost' \/ Announced' = TRUE
      BY <1>2, <1>a, SendAnnounces, Zenon DEF WheelAwake
    <2>2. /\ ep0 = "waking" /\ ep0' = "serving" /\ ffb' = ffb
          /\ early' = (early /\ ffb = "recovering")
      BY <1>2, Zenon DEF WheelAwake
    <2> QED BY <2>1, <2>2
  <1>3. CASE ProxyDrop
    <2>1. lost' \/ Announced' = FALSE
      BY <1>3, <1>a, SendAnnounces, Zenon DEF ProxyDrop
    <2>2. ep0' = "none" /\ ffb' = "none" /\ early' = FALSE
      BY <1>3, Zenon DEF ProxyDrop
    <2> QED BY <2>1, <2>2
  <1>4. CASE FfbTake \/ FfbSent \/ FfbStop \/ FfbStallDropped
    <2>1. UNCHANGED <<link, lost, dev, attached>>
      BY <1>4, Zenon DEF FfbTake, FfbSent, FfbStop, FfbStallDropped, linkVars, devVars
    <2>2. /\ ep0' = ep0 /\ early' = early /\ ffb \in {"waiting", "sending"}
          /\ ffb' \in {"waiting", "sending", "stopped"}
      BY <1>4, Zenon DEF FfbTake, FfbSent, FfbStop, FfbStallDropped
    <2> QED BY <1>c, <2>1, <2>2
  <1>5. CASE FfbStallRecover
    <2>1. lost' \/ Announced' = FALSE
      BY <1>5, <1>a, SendAnnounces, Zenon DEF FfbStallRecover
    <2>2. /\ ep0' = ep0 /\ ffb = "sending" /\ ffb' = "recovering"
          /\ early' = (early \/ ~(ep0 \in {"serving", "clearing"}))
      BY <1>5, Zenon DEF FfbStallRecover
    <2>3. ep0 # "none"
      BY <2>2, Zenon DEF Phases
    <2> QED BY <2>1, <2>2, <2>3
  <1>6. CASE RecoverDone
    <2>1. lost' \/ Announced' = TRUE
      BY <1>6, <1>a, SendAnnounces, Zenon DEF RecoverDone
    <2>2. /\ ep0' = ep0 /\ ffb = "recovering" /\ ffb' = "waiting"
          /\ early' = (early /\ ~(ep0 \in {"serving", "clearing"}))
      BY <1>6, Zenon DEF RecoverDone
    <2> QED BY <2>1, <2>2
  <1>7. CASE ClearHaltBegin \/ ClearHaltEnd
    <2>1. UNCHANGED <<link, lost, dev, attached>>
      BY <1>7, Zenon DEF ClearHaltBegin, ClearHaltEnd, linkVars, devVars
    <2>2. ffb' = ffb /\ early' = early /\ {ep0, ep0'} \subseteq {"serving", "clearing"}
      BY <1>7 DEF ClearHaltBegin, ClearHaltEnd
    <2> QED BY <1>c, <2>1, <2>2
  <1>8. CASE Boot
    <2>1. /\ link # <<>> /\ link' = Tail(link) /\ UNCHANGED <<ep0, ffb, lost, early>>
          /\ Pullup' <=> Head(link)
      BY <1>8 DEF Boot, Phases, Pullup, proxyVars
    <2> QED BY <1>b, <2>1, Zenon
  <1>9. CASE FollowSame \/ FollowOff \/ FollowOn
    <2>1. /\ link # <<>> /\ link' = Tail(link) /\ UNCHANGED <<ep0, ffb, lost, early>>
      BY <1>9, Zenon DEF FollowSame, FollowOff, FollowOn, proxyVars
    <2>2. dev = "following" /\ dev' \in {"following", "detaching"}
      BY <1>9 DEF FollowSame, FollowOff, FollowOn, devVars
    <2>3. attached' <=> Head(link)
      <3>1. FollowSame => (attached' <=> Head(link))
        <4>1. FollowSame => attached' = attached /\ Head(link) = attached
          BY Zenon DEF FollowSame, devVars
        <4>2. attached = TRUE \/ attached = FALSE
          BY Zenon DEF TypeOK
        <4>3. CASE attached = TRUE
          BY <4>1, <4>3, Zenon
        <4>4. CASE attached = FALSE
          BY <4>1, <4>4, Zenon
        <4> QED BY <4>2, <4>3, <4>4, Zenon
      <3>2. FollowOff => ~attached' /\ ~Head(link)
        BY Zenon DEF FollowOff
      <3>3. FollowOn => attached' /\ Head(link)
        BY Zenon DEF FollowOn
      <3> QED BY <1>9, <3>1, <3>2, <3>3, Zenon
    <2>4. Pullup' <=> Head(link)
      BY <2>2, <2>3 DEF Pullup
    <2> QED BY <1>b, <2>1, <2>4, Zenon
  <1>10. CASE Detached
    <2>1. /\ UNCHANGED <<ep0, ffb, lost, early, link, attached>>
          /\ dev = "detaching" /\ dev' = "following"
      BY <1>10, Zenon DEF Detached, proxyVars, linkVars
    <2>2. Pullup' <=> Pullup
      BY <2>1 DEF Pullup
    <2> QED BY <2>1, <2>2, Zenon DEF Announced
  <1>11. CASE UNCHANGED <<ep0, ffb, lost, early, link, dev, attached>>
    <2>1. Announced' = Announced
      BY <1>11, Zenon DEF Announced, Pullup
    <2> QED BY <1>11, <2>1, Zenon
  <1>12. CASE ConsoleSend \/ Tick
    BY <1>11, <1>12, Zenon DEF ConsoleSend, Tick, proxyVars, devVars, linkVars
  <1>13. CASE UNCHANGED vars
    BY <1>11, <1>13, Zenon DEF vars, proxyVars, devVars, linkVars
  <1> QED
    BY <1>1, <1>2, <1>3, <1>4, <1>5, <1>6, <1>7, <1>8, <1>9, <1>10, <1>12, <1>13, Zenon
    DEF Next, ProxyStep, Follow

(***************************************************************************)
(* As long as WHEEL_LINK never was full when a report was made, the device *)
(* side, once it has taken every report, has the device on the console's   *)
(* bus when a wheel is attached, awake and not being recovered, and        *)
(* otherwise only after a recovery that began before the wheel was awake,  *)
(* whenever the wheel STALLs.                                              *)
(***************************************************************************)
THEOREM FollowsWheel == Spec => [](lost \/ LinkTracksWheel)
  <1>1. Init => EarlyInv /\ TrackInv
    BY DEF Init, EarlyInv, TrackInv, Announced, Pullup, Present, Awake
  <1>2. EarlyInv /\ TrackInv => lost \/ LinkTracksWheel
    BY Zenon DEF EarlyInv, TrackInv, Announced, Present, LinkTracksWheel
  <1> QED
    BY <1>1, <1>2, TrackStep, TypeCorrect, PhasesCorrect, PTL DEF Spec

-----------------------------------------------------------------------------
(* Room in WHEEL_LINK *)

(***************************************************************************)
(* What the intervals must be for the device side to keep up: the queue    *)
(* has its four places; from the end of one proxy to the start of the next *)
(* the device can stay off the bus once, and to the next wheel's being     *)
(* awake twice; between two recoveries, once; and a recovery is over       *)
(* before the next is due.                                                 *)
(***************************************************************************)
Intervals ==
  /\ LinkCap >= 4
  /\ MinDetach < ReplugTime
  /\ MinDetach + MinDetach <= ReplugTime + WakeTime
  /\ MinDetach < RecoveryInterval
  /\ HaltTimeout < RecoveryInterval

\* How long the device sleeps for the i-th report of a queue that it begins
\* to take while on the bus or off it, ...
SleepFor(on, q, i) ==
  IF i \in 1..Len(q) /\ ~q[i] /\ (IF i = 1 THEN on ELSE q[i - 1]) THEN MinDetach ELSE 0

SleepForLast(on, q) == SleepFor(on, q, Len(q))

\* ... and for all of a queue that is no longer than four.
Sleeps(on, q) ==
  SleepFor(on, q, 1) + SleepFor(on, q, 2) + SleepFor(on, q, 3) + SleepFor(on, q, 4)

\* How long until the device side has taken every report.
Due == sleep + Sleeps(Pullup, link)

\* How many more reports this proxy can make before a recovery is over or due
\* again, but for the one that it is gone: it is awake, a recovery under way
\* is over, and one that is due begins and is over.
ToCome == (IF ep0 = "waking" THEN 1 ELSE 0) + (IF ffb = "recovering" THEN 1 ELSE 0)
          + (IF cool = 0 THEN 2 ELSE 0)

\* How many reports wait, and the sleep for the last of them.
Waiting == Len(link)
LastDue == SleepForLast(Pullup, link)

(***************************************************************************)
(* No report was dropped, there is room for those to come, and what is     *)
(* left to do is over before more can be added: before the next proxy, the *)
(* next wheel's being awake and the next recovery.                         *)
(***************************************************************************)
RoomInv ==
  /\ ~lost
  /\ Waiting <= 4
  /\ dev # "detaching" => sleep = 0
  /\ ffb = "recovering" => halt < cool
  /\ ep0 = "none" =>
       /\ link # <<>> => Due + ReplugTime <= setup + MinDetach + LastDue
       /\ Due = 0 \/ Due + ReplugTime <= setup + MinDetach + MinDetach
  /\ ep0 # "none" =>
       /\ Waiting + ToCome <= 3
       /\ Due <= MinDetach
       /\ cool > 0 => Due < cool
  /\ ep0 = "waking" /\ cool = 0 => Due <= setup
  /\ Awake /\ cool = 0 => Due = 0

LEMMA SleepForType ==
  ASSUME LinkAssumption, NEW on, NEW q, NEW i
  PROVE  SleepFor(on, q, i) \in {0, MinDetach} /\ SleepFor(on, q, i) \in Nat
  BY DEF SleepFor, LinkAssumption

LEMMA SleepsType ==
  ASSUME LinkAssumption, NEW on, NEW q
  PROVE  Sleeps(on, q) \in Nat
  BY SleepForType DEF Sleeps

LEMMA EmptySleeps ==
  ASSUME LinkAssumption, NEW on
  PROVE  Sleeps(on, <<>>) = 0
  <1>1. 1..Len(<<>>) = {}
    OBVIOUS
  <1>2. \A i : SleepFor(on, <<>>, i) = 0
    BY <1>1, Zenon DEF SleepFor
  <1> QED
    BY <1>2 DEF Sleeps

\* The sleep for the last report is part of all of it.
LEMMA LastSleep ==
  ASSUME LinkAssumption, NEW on, NEW q \in Seq(BOOLEAN), q # <<>>, Len(q) <= 4
  PROVE  SleepForLast(on, q) <= Sleeps(on, q)
  <1> DEFINE n == Len(q)
  <1>1. n \in Nat /\ n # 0 /\ n <= 4
    BY LenProperties, EmptySeq
  <1>2. \A i \in {1, 2, 3, 4} : SleepFor(on, q, i) \in Nat
    BY SleepForType
  <1>3. SleepForLast(on, q) = SleepFor(on, q, n)
    BY DEF SleepForLast
  <1> HIDE DEF n
  <1>4. n \in {1, 2, 3, 4}
    BY <1>1
  <1> QED
    BY <1>2, <1>3, <1>4 DEF Sleeps

\* A report costs a sleep when it takes the device off the bus.
LEMMA SleepsAppend ==
  ASSUME LinkAssumption, NEW on \in BOOLEAN, NEW q \in Seq(BOOLEAN), Len(q) < 4,
         NEW e \in BOOLEAN,
         NEW h, h = IF (IF q = <<>> THEN on ELSE q[Len(q)]) /\ ~e THEN MinDetach ELSE 0
  PROVE  /\ Sleeps(on, Append(q, e)) = Sleeps(on, q) + h
         /\ SleepForLast(on, Append(q, e)) = h
  <1> DEFINE a == Append(q, e)
  <1> DEFINE n == Len(q)
  <1>0. n \in Nat /\ n < 4 /\ (q = <<>> <=> n = 0)
    BY LenProperties, EmptySeq
  <1>1. /\ Len(a) = n + 1
        /\ \A i \in 1..n : a[i] = q[i]
        /\ a[n + 1] = e
    BY AppendProperties
  <1>2. h \in {0, MinDetach}
    OBVIOUS
  <1>e. h = IF (IF n = 0 THEN on ELSE q[n]) /\ ~e THEN MinDetach ELSE 0
    BY <1>0
  <1> HIDE DEF a, n
  <1>3. SleepFor(on, a, n + 1) = h
    <2>1. CASE n = 0
      <3>1. 1 \in 1..Len(a) /\ a[1] = e
        BY <1>1, <2>1
      <3> QED BY <1>e, <2>1, <3>1 DEF SleepFor
    <2>2. CASE n # 0
      <3>1. n + 1 \in 1..Len(a) /\ n + 1 # 1 /\ (n + 1) - 1 = n /\ n \in 1..n
        BY <1>0, <1>1, <2>2
      <3>2. a[n + 1] = e /\ a[(n + 1) - 1] = q[n]
        BY <1>1, <3>1
      <3> QED BY <1>e, <2>2, <3>1, <3>2 DEF SleepFor
    <2> QED BY <2>1, <2>2
  <1>4. ASSUME NEW i \in Nat \ {0}, i # n + 1 PROVE SleepFor(on, a, i) = SleepFor(on, q, i)
    <2>1. i \in 1..Len(a) <=> i \in 1..Len(q)
      BY <1>0, <1>1, <1>4 DEF n
    <2>2. i \in 1..Len(q) => a[i] = q[i]
      BY <1>1 DEF n
    <2>3. i \in 1..Len(q) /\ i # 1 => a[i - 1] = q[i - 1]
      <3>1. i \in 1..n /\ i # 1 => i - 1 \in 1..n
        BY <1>0
      <3> QED BY <1>1, <3>1 DEF n
    <2> QED BY <2>1, <2>2, <2>3, Zenon DEF SleepFor
  <1>5. n \in {0, 1, 2, 3}
    BY <1>0
  <1>6. SleepFor(on, q, n + 1) = 0
    <2>1. n + 1 \notin 1..n
      BY <1>0
    <2> QED BY <2>1 DEF SleepFor, n
  <1>7. \A i \in {1, 2, 3, 4} : SleepFor(on, a, i) \in Nat /\ SleepFor(on, q, i) \in Nat
    BY SleepForType
  <1>8. h \in Nat
    BY <1>2 DEF LinkAssumption
  <1>9. Sleeps(on, a) = Sleeps(on, q) + h
    <2>1. CASE n = 0
      <3>1. \A i \in {2, 3, 4} : SleepFor(on, a, i) = SleepFor(on, q, i)
        BY <1>4, <2>1
      <3> QED BY <1>3, <1>6, <1>7, <1>8, <2>1, <3>1 DEF Sleeps
    <2>2. CASE n = 1
      <3>1. \A i \in {1, 3, 4} : SleepFor(on, a, i) = SleepFor(on, q, i)
        BY <1>4, <2>2
      <3> QED BY <1>3, <1>6, <1>7, <1>8, <2>2, <3>1 DEF Sleeps
    <2>3. CASE n = 2
      <3>1. \A i \in {1, 2, 4} : SleepFor(on, a, i) = SleepFor(on, q, i)
        BY <1>4, <2>3
      <3> QED BY <1>3, <1>6, <1>7, <1>8, <2>3, <3>1 DEF Sleeps
    <2>4. CASE n = 3
      <3>1. \A i \in {1, 2, 3} : SleepFor(on, a, i) = SleepFor(on, q, i)
        BY <1>4, <2>4
      <3> QED BY <1>3, <1>6, <1>7, <1>8, <2>4, <3>1 DEF Sleeps
    <2> QED BY <1>5, <2>1, <2>2, <2>3, <2>4
  <1>10. SleepForLast(on, a) = h
    BY <1>1, <1>3, Zenon DEF SleepForLast
  <1> QED
    BY <1>9, <1>10 DEF a

\* Taking a report pays its sleep.
LEMMA SleepsTail ==
  ASSUME LinkAssumption, NEW on \in BOOLEAN, NEW q \in Seq(BOOLEAN), q # <<>>, Len(q) <= 4,
         NEW first \in BOOLEAN, first = Head(q),
         NEW h, h = IF on /\ ~first THEN MinDetach ELSE 0
  PROVE  /\ Sleeps(on, q) = h + Sleeps(first, Tail(q))
         /\ Tail(q) # <<>> => SleepForLast(first, Tail(q)) = SleepForLast(on, q)
  <1> DEFINE t == Tail(q)
  <1> DEFINE n == Len(t)
  <1>1. /\ n \in Nat /\ Len(q) = n + 1 /\ n < 4
        /\ \A i \in 1..n : t[i] = q[i + 1]
        /\ Head(q) = q[1]
    BY HeadTailProperties, LenProperties
  <1>2. t # <<>> => n # 0
    BY HeadTailProperties, EmptySeq
  <1>f. first = q[1] /\ Len(t) = n
    BY <1>1, Zenon
  <1> HIDE DEF t, n
  <1>3. SleepFor(on, q, 1) = h
    <2>1. 1 \in 1..(n + 1)
      BY <1>1
    <2> QED BY <1>1, <1>f, <2>1, Zenon DEF SleepFor
  <1>4. ASSUME NEW i \in Nat \ {0} PROVE SleepFor(first, t, i) = SleepFor(on, q, i + 1)
    <2>1. (i \in 1..Len(t) <=> i + 1 \in 1..Len(q)) /\ i + 1 # 1 /\ (i + 1) - 1 = i
      BY <1>1, <1>f
    <2>2. i \in 1..Len(t) => t[i] = q[i + 1]
      BY <1>1, <1>f
    <2>3. i \in 1..Len(t) => (IF i = 1 THEN first ELSE t[i - 1]) = q[i]
      <3>1. i \in 1..n /\ i # 1 => i - 1 \in 1..n /\ (i - 1) + 1 = i
        BY <1>1
      <3> QED BY <1>1, <1>f, <3>1
    <2> QED BY <2>1, <2>2, <2>3, Zenon DEF SleepFor
  <1>5. SleepFor(first, t, 4) = 0
    <2>1. n \in Nat /\ n < 4
      BY <1>1, Zenon
    <2>2. 4 \notin 1..n
      BY <2>1
    <2> QED BY <1>f, <2>2, Zenon DEF SleepFor
  <1>6. \A i \in {1, 2, 3, 4} : SleepFor(first, t, i) \in Nat /\ SleepFor(on, q, i) \in Nat
    BY SleepForType
  <1>7. t # <<>> => SleepForLast(first, t) = SleepForLast(on, q)
    BY <1>1, <1>2, <1>4, <1>f DEF SleepForLast
  <1>8. /\ SleepFor(first, t, 1) = SleepFor(on, q, 2)
        /\ SleepFor(first, t, 2) = SleepFor(on, q, 3)
        /\ SleepFor(first, t, 3) = SleepFor(on, q, 4)
    BY <1>4
  <1>9. h \in Nat
    BY DEF LinkAssumption
  <1>10. Sleeps(on, q) = h + Sleeps(first, t)
    BY <1>3, <1>5, <1>6, <1>8, <1>9 DEF Sleeps
  <1> QED
    BY <1>7, <1>10 DEF t

\* There is room for a report about a wheel that is there.
LEMMA ReportFits ==
  ASSUME LinkAssumption, Intervals, TypeOK, RoomInv, Waiting < 4,
         NEW report \in BOOLEAN, LinkSend(report), UNCHANGED <<dev, attached, sleep>>,
         NEW h, h = IF Announced /\ ~report THEN MinDetach ELSE 0
  PROVE  /\ ~lost' /\ Waiting' = Waiting + 1 /\ Waiting \in Nat
         /\ Due' = Due + h /\ LastDue' = h
  <1>1. /\ sleep \in Nat /\ ~lost /\ link \in Seq(BOOLEAN) /\ Len(link) \in Nat
        /\ Len(link) < 4
    BY LenProperties DEF RoomInv, TypeOK, Waiting
  <1>2. Len(link) < LinkCap
    BY <1>1 DEF Intervals, LinkAssumption, Waiting
  <1>3. link' = Append(link, report) /\ lost' = lost
    BY <1>2, Zenon DEF LinkSend
  <1>4. Pullup \in BOOLEAN /\ Pullup' = Pullup
    BY DEF Pullup, TypeOK
  <1>5. h = IF (IF link = <<>> THEN Pullup ELSE link[Len(link)]) /\ ~report
            THEN MinDetach ELSE 0
    BY Zenon DEF Announced
  <1>6. /\ Sleeps(Pullup, Append(link, report)) = Sleeps(Pullup, link) + h
        /\ SleepForLast(Pullup, Append(link, report)) = h
    BY <1>1, <1>4, <1>5, SleepsAppend, Zenon
  <1>7. Len(Append(link, report)) = Len(link) + 1
    BY <1>1, AppendProperties
  <1>8. Sleeps(Pullup, link) \in Nat /\ h \in Nat
    BY SleepsType DEF LinkAssumption
  <1>9. Due' = Due + h
    <2>1. Due' = sleep + (Sleeps(Pullup, link) + h)
      BY <1>3, <1>4, <1>6, Zenon DEF Due
    <2> HIDE DEF Due
    <2>2. Due = sleep + Sleeps(Pullup, link)
      BY DEF Due
    <2> QED BY <1>1, <1>8, <2>1, <2>2
  <1> QED
    BY <1>1, <1>3, <1>4, <1>6, <1>7, <1>9, Zenon DEF Waiting, LastDue

\* That the wheel is back never costs a sleep.
LEMMA BackFits ==
  ASSUME LinkAssumption, Intervals, TypeOK, RoomInv, Waiting < 4,
         LinkSend(TRUE), UNCHANGED <<dev, attached, sleep>>
  PROVE  /\ ~lost' /\ Waiting' = Waiting + 1 /\ Waiting \in Nat /\ Due' = Due
  <1>1. 0 = IF Announced /\ ~TRUE THEN MinDetach ELSE 0
    BY Zenon
  <1>2. /\ ~lost' /\ Waiting' = Waiting + 1 /\ Waiting \in Nat
        /\ Due' = Due + 0
    BY <1>1, ReportFits, TRUE \in BOOLEAN, Zenon
  <1>3. Due \in Nat
    BY SleepsType DEF Due, TypeOK
  <1> QED
    BY <1>2, <1>3

\* The device side takes a report, or sleeps it off.
LEMMA FollowKeeps ==
  ASSUME LinkAssumption, TypeOK, Phases, RoomInv, Follow
  PROVE  /\ UNCHANGED <<ep0, ffb, lost, setup, halt, cool>>
         /\ Due' = Due /\ Waiting' <= Waiting /\ Waiting' \in Nat
         /\ link' # <<>> => link # <<>> /\ LastDue' = LastDue
         /\ dev' # "detaching" => sleep' = 0
  <1>1. link \in Seq(BOOLEAN) /\ Len(link) \in Nat /\ sleep \in Nat /\ Pullup \in BOOLEAN
    BY LenProperties DEF TypeOK, Pullup
  <1>2. UNCHANGED <<ep0, ffb, lost, setup, halt, cool>>
    BY Zenon DEF Follow, Boot, FollowSame, FollowOff, FollowOn, Detached, proxyVars, linkVars
  <1>3. ASSUME link # <<>>, link' = Tail(link), Pullup' = Head(link), dev # "detaching",
               NEW h, h = IF Pullup /\ ~Pullup' THEN MinDetach ELSE 0, sleep' = h,
               dev' # "detaching" => sleep' = 0
        PROVE  /\ Due' = Due /\ Waiting' <= Waiting /\ Waiting' \in Nat
               /\ link' # <<>> => LastDue' = LastDue
    <2>1. /\ Head(link) \in BOOLEAN /\ Tail(link) \in Seq(BOOLEAN)
          /\ Len(Tail(link)) = Len(link) - 1 /\ Len(Tail(link)) \in Nat
      BY <1>1, <1>3, HeadTailProperties, LenProperties
    <2>2. Pullup' \in BOOLEAN /\ h \in Nat /\ sleep = 0 /\ Len(link) <= 4
      BY <1>3, <2>1 DEF LinkAssumption, RoomInv, Waiting
    <2>3. /\ Sleeps(Pullup, link) = h + Sleeps(Pullup', Tail(link))
          /\ Tail(link) # <<>> => SleepForLast(Pullup', Tail(link)) = SleepForLast(Pullup, link)
      BY <1>1, <1>3, <2>2, SleepsTail, Zenon
    <2>4. Sleeps(Pullup', Tail(link)) \in Nat
      BY SleepsType
    <2>5. Due = 0 + (h + Sleeps(Pullup', Tail(link))) /\ Due' = h + Sleeps(Pullup', Tail(link))
      BY <1>3, <2>2, <2>3, Zenon DEF Due, Waiting, LastDue
    <2>6. Due' = Due
      BY <2>2, <2>4, <2>5
    <2>7. Len(link') <= Len(link) /\ Len(link') \in Nat
      <3> DEFINE n == Len(link)
      <3>1. n \in Nat /\ Len(Tail(link)) = n - 1 /\ Len(link') = Len(Tail(link))
        BY <1>1, <1>3, <2>1, Zenon
      <3> HIDE DEF n
      <3>2. Len(link') <= n
        BY <3>1
      <3> QED BY <2>1, <3>1, <3>2, Zenon DEF n
    <2> QED BY <1>3, <2>3, <2>6, <2>7, Zenon DEF Waiting, LastDue
  <1>4. CASE Boot
    <2>1. /\ link # <<>> /\ link' = Tail(link) /\ dev = "boot" /\ attached
          /\ dev' = (IF Head(link) THEN "following" ELSE "boot")
          /\ attached' = attached /\ sleep' = sleep
      BY <1>4 DEF Boot, Phases
    <2>2. Head(link) \in BOOLEAN
      BY <1>1, <2>1, HeadTailProperties
    <2>3. Pullup = FALSE /\ Pullup' = Head(link) /\ dev # "detaching" /\ dev' # "detaching"
      BY <2>1, <2>2 DEF Pullup, TypeOK
    <2>4. sleep' = 0
      BY <2>1, <2>3, Zenon DEF RoomInv
    <2>5. 0 = IF Pullup /\ ~Pullup' THEN MinDetach ELSE 0
      BY <2>3, Zenon
    <2> QED BY <1>2, <1>3, <2>1, <2>3, <2>4, <2>5, Zenon
  <1>5. CASE FollowSame \/ FollowOn
    <2>1. /\ link # <<>> /\ link' = Tail(link) /\ dev = "following" /\ dev' = dev
          /\ sleep' = sleep
      BY <1>5, Zenon DEF FollowSame, FollowOn, devVars
    <2>2. attached' = Head(link) /\ (attached => Head(link)) /\ attached' \in BOOLEAN
      <3>1. FollowSame => attached' = attached /\ Head(link) = attached
        BY Zenon DEF FollowSame, devVars
      <3>2. FollowOn => attached' = TRUE /\ Head(link) /\ ~attached
        BY Zenon DEF FollowOn
      <3>3. Head(link) \in BOOLEAN
        BY <1>1, <2>1, HeadTailProperties
      <3>4. attached \in BOOLEAN
        BY DEF TypeOK
      <3>5. Head(link) = TRUE \/ Head(link) = FALSE
        BY <3>3, Zenon
      <3> QED BY <1>5, <3>1, <3>2, <3>3, <3>5, Zenon
    <2>3. Pullup = attached /\ Pullup' = attached'
      <3>1. dev # "boot" /\ dev' # "boot" /\ attached \in BOOLEAN
        BY <2>1 DEF TypeOK
      <3> QED BY <2>2, <3>1 DEF Pullup
    <2>4. sleep' = 0 /\ dev # "detaching" /\ dev' # "detaching"
      BY <2>1 DEF RoomInv
    <2>5. 0 = IF Pullup /\ ~Pullup' THEN MinDetach ELSE 0
      BY <2>2, <2>3, Zenon
    <2> QED BY <1>2, <1>3, <2>1, <2>2, <2>3, <2>4, <2>5, Zenon
  <1>6. CASE FollowOff
    <2>1. /\ link # <<>> /\ link' = Tail(link) /\ dev = "following" /\ dev' = "detaching"
          /\ sleep' = MinDetach /\ attached' = FALSE /\ ~Head(link) /\ attached
      BY <1>6, Zenon DEF FollowOff
    <2>2. Head(link) = FALSE
      <3>1. Head(link) \in BOOLEAN
        BY <1>1, <2>1, HeadTailProperties
      <3> QED BY <2>1, <3>1, Zenon
    <2>3. Pullup = TRUE /\ Pullup' = FALSE /\ dev # "detaching"
      BY <2>1 DEF Pullup, TypeOK
    <2>4. MinDetach = IF Pullup /\ ~Pullup' THEN MinDetach ELSE 0
      BY <2>3, Zenon
    <2> QED BY <1>2, <1>3, <2>1, <2>2, <2>3, <2>4, Zenon
  <1>7. CASE Detached
    <2>1. /\ sleep = 0 /\ UNCHANGED <<link, sleep, attached>> /\ dev = "detaching"
          /\ dev' = "following"
      BY <1>7, Zenon DEF Detached, linkVars
    <2>2. Pullup' = Pullup
      BY <2>1 DEF Pullup
    <2>3. Len(link') <= Len(link)
      BY <1>1, <2>1
    <2> QED BY <1>1, <1>2, <2>1, <2>2, <2>3, Zenon DEF Due, Waiting, LastDue
  <1> QED
    BY <1>4, <1>5, <1>6, <1>7, Zenon DEF Follow

\* ... as does a tick, which shortens what there is to do.
LEMMA TickKeeps ==
  ASSUME LinkAssumption, TypeOK, Phases, RoomInv, Tick
  PROVE  /\ UNCHANGED <<ep0, ffb, lost, link>> /\ Pullup' = Pullup
         /\ setup' = Less(setup) /\ cool' = Less(cool) /\ halt' = Less(halt)
         /\ Due' = Less(Due) /\ (Due = 0 => link = <<>>) /\ Due \in Nat
         /\ ffb = "recovering" => halt # 0
         /\ dev' # "detaching" => sleep' = 0
  <1>1. /\ ~Urgent /\ UNCHANGED <<ep0, ffb, lost, link, dev, attached>>
        /\ setup' = Less(setup) /\ cool' = Less(cool) /\ halt' = Less(halt)
        /\ sleep' = Less(sleep)
    BY Zenon DEF Tick, proxyVars, linkVars
  <1>2. Pullup' = Pullup
    BY <1>1 DEF Pullup
  <1>3. ffb = "recovering" => halt # 0
    BY <1>1, Zenon DEF Urgent
  <1>4. sleep \in Nat /\ Sleeps(Pullup, link) \in Nat
    BY SleepsType DEF TypeOK
  <1>5. dev' # "detaching" => sleep' = 0
    BY <1>1 DEF RoomInv, Less
  <1>6. (sleep = 0 => link = <<>>) /\ (link = <<>> => Sleeps(Pullup, link) = 0)
    BY <1>1, EmptySleeps, Zenon DEF Urgent
  <1>7. Due' = sleep' + Sleeps(Pullup, link) /\ Due = sleep + Sleeps(Pullup, link)
    BY <1>1, <1>2, Zenon DEF Due
  <1>8. Due' = Less(Due) /\ (Due = 0 => link = <<>>) /\ Due \in Nat
    BY <1>1, <1>4, <1>6, <1>7 DEF Less
  <1> QED
    BY <1>1, <1>2, <1>3, <1>5, <1>8, Zenon

\* A sum within three stays so when its parts get smaller.
LEMMA SumShrinks ==
  ASSUME NEW m \in Nat, NEW n \in Nat, NEW i \in Nat, NEW j \in Nat,
         i <= m, j <= n, m + n <= 3
  PROVE  i + j <= 3
  OBVIOUS

\* No step uses up the room that is needed.
LEMMA RoomStep ==
  ASSUME LinkAssumption, Intervals
  PROVE  TypeOK /\ Phases /\ EarlyInv /\ RoomInv /\ [Next]_vars => RoomInv'
  <1> SUFFICES ASSUME TypeOK, Phases, EarlyInv, RoomInv, [Next]_vars
               PROVE  RoomInv'
    OBVIOUS
  <1> USE DEF LinkAssumption, Awake
  <1>t. /\ setup \in Nat /\ cool \in Nat /\ halt \in Nat /\ Due \in Nat /\ Waiting \in Nat
        /\ MinDetach \in Nat \ {0} /\ ReplugTime \in Nat /\ WakeTime \in Nat
        /\ ep0 \in {"none", "waking", "serving", "clearing"}
    BY SleepsType, LenProperties DEF TypeOK, Due, Waiting
  <1>l. /\ link # <<>> => LastDue <= Due
        /\ LastDue \in {0, MinDetach}
        /\ link = <<>> <=> Waiting = 0
    <2>1. link # <<>> => LastDue <= Sleeps(Pullup, link)
      BY LastSleep, Zenon DEF LastDue, RoomInv, TypeOK, Waiting
    <2>2. LastDue \in {0, MinDetach}
      BY SleepForType DEF LastDue, SleepForLast
    <2>3. link = <<>> <=> Waiting = 0
      BY EmptySeq DEF Waiting, TypeOK
    <2>4. Sleeps(Pullup, link) \in Nat /\ sleep \in Nat
      BY SleepsType DEF TypeOK
    <2> QED BY <2>1, <2>2, <2>3, <2>4 DEF Due
  <1>r. /\ ep0 # "none" =>
             Waiting + ToCome <= 3 /\ Due <= MinDetach /\ (cool > 0 => Due < cool)
        /\ ep0 = "none" =>
             /\ link # <<>> => Due + ReplugTime <= setup + MinDetach + LastDue
             /\ Due = 0 \/ Due + ReplugTime <= setup + MinDetach + MinDetach
        /\ ep0 = "waking" /\ cool = 0 => Due <= setup
        /\ Awake /\ cool = 0 => Due = 0
    BY Zenon DEF RoomInv
  <1>1. CASE ProxyStart
    <2>1. /\ ep0 = "none" /\ setup = 0 /\ ep0' = "waking" /\ setup' = WakeTime
          /\ ffb' \in {"waiting", "stopped"} /\ cool' = 0
          /\ UNCHANGED <<link, lost, dev, attached, sleep>>
      BY <1>1, Zenon DEF ProxyStart, devVars, linkVars
    <2>2. Due' = Due /\ Waiting' = Waiting
      BY <2>1, Zenon DEF Due, Waiting, Pullup
    <2>3. Waiting = 0
      BY <1>t, <1>l, <2>1 DEF RoomInv, Intervals
    <2>4. Due <= WakeTime /\ Due <= MinDetach
      BY <1>t, <2>1 DEF RoomInv, Intervals
    <2>5. ToCome' = 3
      BY <2>1 DEF ToCome
    <2> QED BY <2>1, <2>2, <2>3, <2>4, <2>5 DEF RoomInv
  <1>2. CASE WheelAwake
    <2>1. /\ ep0 = "waking" /\ setup = 0 /\ ep0' = "serving"
          /\ UNCHANGED <<dev, attached, sleep, cool, halt, ffb>>
      BY <1>2, Zenon DEF WheelAwake, devVars
    <2>5. LinkSend(TRUE)
      BY <1>2, Zenon DEF WheelAwake
    <2>2. ToCome' \in Nat /\ ToCome \in Nat /\ ToCome' = ToCome - 1
      BY <2>1 DEF ToCome
    <2>3. Waiting < 4
      BY <1>t, <1>r, <2>1, <2>2
    <2>4. ~lost' /\ Waiting' = Waiting + 1 /\ Due' = Due
      BY <2>1, <2>3, <2>5, BackFits, Zenon
    <2>6. /\ Waiting' + ToCome' <= 3 /\ Waiting' <= 4 /\ Due' <= MinDetach
          /\ cool > 0 => Due' < cool
          /\ cool = 0 => Due' = 0
      BY <1>t, <1>r, <2>1, <2>2, <2>4
    <2> QED BY <2>1, <2>4, <2>6, Zenon DEF RoomInv
  <1>3. CASE ProxyDrop
    <2>1. /\ ep0 # "none" /\ ep0' = "none" /\ ffb' = "none" /\ setup' = ReplugTime
          /\ LinkSend(FALSE) /\ UNCHANGED <<dev, attached, sleep>>
      BY <1>3, Zenon DEF ProxyDrop, devVars
    <2>2. ToCome \in Nat
      BY DEF ToCome
    <2>3. Waiting < 4 /\ Waiting + 1 <= 4 /\ Due <= MinDetach
      BY <1>t, <2>1, <2>2 DEF RoomInv
    <2> DEFINE h == IF Announced /\ ~FALSE THEN MinDetach ELSE 0
    <2>4. ~lost' /\ Waiting' = Waiting + 1 /\ Due' = Due + h /\ LastDue' = h
      BY <2>1, <2>3, ReportFits, FALSE \in BOOLEAN, Zenon
    <2>5. h \in {0, MinDetach}
      BY Zenon
    <2> HIDE DEF h
    <2> QED BY <1>t, <2>1, <2>3, <2>4, <2>5 DEF RoomInv
  <1>4. CASE FfbTake \/ FfbSent \/ FfbStop \/ FfbStallDropped
    <2>1. UNCHANGED <<link, lost, dev, attached, sleep, setup, cool, halt, ep0>>
      BY <1>4, Zenon DEF FfbTake, FfbSent, FfbStop, FfbStallDropped, linkVars, devVars
    <2>2. ffb # "recovering" /\ ffb' # "recovering"
      BY <1>4 DEF FfbTake, FfbSent, FfbStop, FfbStallDropped
    <2>3. UNCHANGED <<Due, Waiting, LastDue, ToCome>>
      BY <2>1, <2>2, Zenon DEF Due, Waiting, LastDue, ToCome, Pullup
    <2> QED BY <2>1, <2>2, <2>3, Zenon DEF RoomInv
  <1>5. CASE FfbStallRecover
    <2>1. /\ ffb = "sending" /\ ffb' = "recovering" /\ cool = 0 /\ cool' = RecoveryInterval
          /\ halt' = HaltTimeout /\ LinkSend(FALSE)
          /\ UNCHANGED <<dev, attached, sleep, setup, ep0>>
      BY <1>5, Zenon DEF FfbStallRecover, devVars
    <2>2. ep0 # "none"
      BY <2>1 DEF Phases
    <2>3. /\ ToCome = (IF ep0 = "waking" THEN 3 ELSE 2)
          /\ ToCome' = (IF ep0 = "waking" THEN 2 ELSE 1)
      BY <2>1 DEF ToCome, Intervals
    <2>4. /\ Waiting <= (IF ep0 = "waking" THEN 0 ELSE 1)
          /\ Waiting < 4
      BY <1>t, <2>2, <2>3 DEF RoomInv
    <2> DEFINE h == IF Announced /\ ~FALSE THEN MinDetach ELSE 0
    <2>5. ~lost' /\ Waiting' = Waiting + 1 /\ Due' = Due + h
      BY <2>1, <2>4, ReportFits, FALSE \in BOOLEAN, Zenon
    <2>6. h = MinDetach => Due = 0
      <3>1. CASE ep0 = "waking"
        <4>1. link = <<>>
          BY <1>t, <1>l, <2>4, <3>1
        <4>2. h = MinDetach => Pullup
          BY <1>t, <4>1 DEF Announced
        <4>3. Pullup => Due = 0
          BY <4>1, EmptySleeps DEF Due, Phases, Pullup, RoomInv
        <4> QED BY <4>2, <4>3, Zenon
      <3>2. CASE ep0 # "waking"
        BY <1>t, <2>1, <2>2, <3>2 DEF RoomInv
      <3> QED BY <3>1, <3>2, Zenon
    <2>7. h \in {0, MinDetach}
      BY Zenon
    <2> HIDE DEF h
    <2>8. Due' <= MinDetach
      BY <1>t, <2>2, <2>5, <2>6, <2>7 DEF RoomInv
    <2> QED BY <1>t, <2>1, <2>2, <2>3, <2>4, <2>5, <2>8 DEF RoomInv, Intervals
  <1>6. CASE RecoverDone
    <2>1. /\ ffb = "recovering" /\ ffb' = "waiting"
          /\ UNCHANGED <<dev, attached, sleep, setup, cool, ep0>>
      BY <1>6, Zenon DEF RecoverDone, devVars
    <2>5. LinkSend(TRUE)
      BY <1>6, Zenon DEF RecoverDone
    <2>2. ToCome' \in Nat /\ ToCome \in Nat /\ ToCome' = ToCome - 1
      BY <2>1 DEF ToCome
    <2>3. ep0 # "none"
      BY <2>1, Zenon DEF EarlyInv
    <2>6. Waiting < 4
      BY <1>t, <1>r, <2>2, <2>3
    <2>4. ~lost' /\ Waiting' = Waiting + 1 /\ Due' = Due
      BY <2>1, <2>5, <2>6, BackFits, Zenon
    <2>7. Waiting' + ToCome' <= 3 /\ Waiting' <= 4
      BY <1>t, <1>r, <2>2, <2>3, <2>4
    <2>8. ffb' # "recovering"
      BY <2>1
    <2> QED BY <1>r, <2>1, <2>3, <2>4, <2>7, <2>8, Zenon DEF RoomInv
  <1>7. CASE ClearHaltBegin \/ ClearHaltEnd
    <2>1. UNCHANGED <<link, lost, dev, attached, sleep, setup, cool, halt, ffb>>
      BY <1>7, Zenon DEF ClearHaltBegin, ClearHaltEnd, linkVars, devVars
    <2>2. ep0 \in {"serving", "clearing"} /\ ep0' \in {"serving", "clearing"}
      BY <1>7 DEF ClearHaltBegin, ClearHaltEnd
    <2>3. UNCHANGED <<Due, Waiting, LastDue>>
      BY <2>1, Zenon DEF Due, Waiting, LastDue, Pullup
    <2>4. ToCome' = ToCome
      BY <2>1, <2>2 DEF ToCome
    <2> QED BY <2>1, <2>2, <2>3, <2>4 DEF RoomInv
  <1>8. CASE Follow
    <2>1. /\ UNCHANGED <<ep0, ffb, lost, setup, halt, cool>>
          /\ Due' = Due /\ Waiting' <= Waiting /\ Waiting' \in Nat
          /\ link' # <<>> => link # <<>> /\ LastDue' = LastDue
          /\ dev' # "detaching" => sleep' = 0
      BY <1>8, FollowKeeps
    <2>2. ToCome' <= ToCome /\ ToCome \in Nat /\ ToCome' \in Nat
      BY <2>1 DEF ToCome
    <2>3. Waiting' <= 4 /\ (ep0 # "none" => Waiting' + ToCome' <= 3)
      <3>1. Waiting <= 4
        BY Zenon DEF RoomInv
      <3>2. Waiting' <= Waiting /\ Waiting' \in Nat
        BY <2>1, Zenon
      <3>3. Waiting' <= 4
        BY <1>t, <3>1, <3>2
      <3>4. Waiting + ToCome <= 3 => Waiting' + ToCome' <= 3
        BY <1>t, <2>2, <3>2, SumShrinks, Zenon
      <3> QED BY <1>r, <3>3, <3>4, Zenon
    <2> QED BY <1>r, <2>1, <2>2, <2>3, Zenon DEF RoomInv
  <1>9. CASE Tick
    <2>1. /\ UNCHANGED <<ep0, ffb, lost, link>> /\ Pullup' = Pullup
          /\ setup' = Less(setup) /\ cool' = Less(cool) /\ halt' = Less(halt)
          /\ Due' = Less(Due) /\ (Due = 0 => link = <<>>)
          /\ ffb = "recovering" => halt # 0
          /\ dev' # "detaching" => sleep' = 0
      BY <1>9, TickKeeps
    <2>2. UNCHANGED <<Waiting, LastDue>>
      BY <2>1, Zenon DEF Waiting, LastDue
    <2>3. /\ ep0 = "none" /\ link # <<>> =>
               Due' + ReplugTime <= setup' + MinDetach + LastDue'
          /\ ep0 = "none" =>
               Due' = 0 \/ Due' + ReplugTime <= setup' + MinDetach + MinDetach
      BY <1>t, <1>l, <1>r, <2>1, <2>2 DEF Less
    <2>4. Waiting' <= 4 /\ ~lost'
      BY <2>1, <2>2, Zenon DEF RoomInv
    <2>5. ffb = "recovering" => halt < cool
      BY Zenon DEF RoomInv
    <2>6. CASE cool = 1
      <3>1. ep0 # "none" => Due = 0 /\ Waiting = 0
        BY <1>t, <1>l, <1>r, <2>1, <2>6
      <3>2. ffb # "recovering" /\ ffb' # "recovering" /\ cool' = 0
        BY <1>t, <2>1, <2>5, <2>6 DEF Less
      <3>3. ToCome' \in Nat /\ ToCome' <= 3
        BY <2>1, <3>2 DEF ToCome
      <3>4. ep0 # "none" => Waiting' + ToCome' <= 3
        <4>1. 0 \in Nat /\ 3 \in Nat /\ 0 <= 0 /\ 0 + 3 <= 3
          OBVIOUS
        <4>2. ep0 # "none" => Waiting' = 0
          BY <2>2, <3>1, Zenon
        <4> QED BY <3>3, <4>1, <4>2, SumShrinks, Zenon
      <3>5. ep0 # "none" => Due' = 0
        BY <2>1, <3>1 DEF Less
      <3>6. setup' \in Nat /\ ~(cool' > 0) /\ 0 <= setup' /\ 0 <= MinDetach
        BY <1>t, <2>1, <3>2 DEF Less
      <3>7. Awake => ep0 # "none"
        OBVIOUS
      <3> QED BY <2>1, <2>3, <2>4, <3>2, <3>4, <3>5, <3>6, <3>7, Zenon DEF RoomInv
    <2>7. CASE cool # 1
      <3>1. (cool = 0 <=> cool' = 0) /\ (cool > 0 => cool' = cool - 1) /\ (cool' > 0 => cool > 0)
        BY <1>t, <2>1, <2>7 DEF Less
      <3>2. ToCome' <= ToCome /\ ToCome \in Nat /\ ToCome' \in Nat
        BY <2>1, <3>1 DEF ToCome
      <3>3. ffb' = "recovering" => halt' < cool'
        BY <1>t, <2>1, <2>5, <3>1 DEF Less
      <3>4. ep0 # "none" => Waiting' + ToCome' <= 3
        <4>1. Waiting' <= Waiting /\ Waiting' \in Nat
          BY <1>t, <2>2
        <4>2. Waiting + ToCome <= 3 => Waiting' + ToCome' <= 3
          BY <1>t, <3>2, <4>1, SumShrinks, Zenon
        <4>3. ep0' = ep0
          BY <2>1, Zenon
        <4> QED BY <1>r, <4>2, <4>3, Zenon
      <3>5. ep0 # "none" => Due' <= MinDetach /\ (cool' > 0 => Due' < cool')
        BY <1>t, <1>r, <2>1, <3>1 DEF Less
      <3>6. /\ ep0 = "waking" /\ cool' = 0 => Due' <= setup'
            /\ Awake /\ cool' = 0 => Due' = 0
        BY <1>t, <1>r, <2>1, <3>1 DEF Less
      <3> QED BY <2>1, <2>3, <2>4, <3>3, <3>4, <3>5, <3>6, Zenon DEF RoomInv
    <2> QED BY <2>6, <2>7
  <1>10. CASE ConsoleSend \/ UNCHANGED vars
    <2>1. UNCHANGED <<link, lost, dev, attached, sleep, setup, cool, halt, ep0, ffb>>
      BY <1>10, Zenon DEF ConsoleSend, vars, proxyVars, linkVars, devVars
    <2>2. UNCHANGED <<Due, Waiting, LastDue, ToCome>>
      BY <2>1, Zenon DEF Due, Waiting, LastDue, ToCome, Pullup
    <2> QED BY <2>1, <2>2, Zenon DEF RoomInv
  <1> QED
    BY <1>1, <1>2, <1>3, <1>4, <1>5, <1>6, <1>7, <1>8, <1>9, <1>10, Zenon
    DEF Next, ProxyStep

(***************************************************************************)
(* With such intervals WHEEL_LINK always has room, so that wheel_link      *)
(* may ignore what try_send returns: whenever wheels come, STALL and go.   *)
(***************************************************************************)
THEOREM NoReportLost ==
  ASSUME Intervals
  PROVE  Spec => []~lost
  <1>1. Init => EarlyInv /\ TrackInv /\ RoomInv
    <2> SUFFICES ASSUME Init PROVE EarlyInv /\ TrackInv /\ RoomInv
      OBVIOUS
    <2>1. link = <<>> /\ sleep = 0 /\ ep0 = "none" /\ ~lost /\ ffb = "none" /\ ~early
      BY Zenon DEF Init
    <2>2. Due = 0 /\ Waiting = 0
      BY <2>1, EmptySleeps, LinkAssumption DEF Due, Waiting
    <2>3. EarlyInv /\ TrackInv
      BY <2>1 DEF Init, EarlyInv, TrackInv, Announced, Pullup, Present, Awake
    <2> QED BY <2>1, <2>2, <2>3 DEF RoomInv, Awake
  <1>2. RoomInv => ~lost
    BY DEF RoomInv
  <1>3. TypeOK /\ Phases /\ EarlyInv /\ RoomInv /\ [Next]_vars => RoomInv'
    BY RoomStep, LinkAssumption
  <1> QED
    BY <1>1, <1>2, <1>3, TrackStep, TypeCorrect, PhasesCorrect, PTL DEF Spec

(***************************************************************************)
(* So with such intervals the device, once every report has been taken, is *)
(* where LinkTracksWheel wants it, whenever the wheel STALLs.              *)
(***************************************************************************)
THEOREM AlwaysTracks ==
  ASSUME Intervals
  PROVE  Spec => []LinkTracksWheel
  BY NoReportLost, FollowsWheel, PTL

-----------------------------------------------------------------------------
(* What the console sees *)

(***************************************************************************)
(* The device stays off the bus for at least MinDetach whenever it leaves: *)
(* WheelLink implements ConsolePort.                                       *)
(***************************************************************************)
THEOREM PortImplemented == Spec => ConsoleSeesUnplug
  <1>1. Init => Port!Init
    BY DEF Init, Port!Init, Pullup
  <1>2. TypeOK /\ Phases /\ [Next]_vars => [Port!Next]_(Port!vars)
    <2> SUFFICES ASSUME TypeOK, Phases, [Next]_vars PROVE [Port!Next]_(Port!vars)
      OBVIOUS
    <2>1. CASE FollowOff
      <3>1. Pullup /\ ~Pullup' /\ dev' = "detaching" /\ sleep' = MinDetach
        BY <2>1 DEF FollowOff, Pullup
      <3>2. MinDetach - MinDetach = 0
        BY LinkAssumption DEF LinkAssumption
      <3> QED BY <3>1, <3>2 DEF Port!Next, Port!Unplug
    <2>2. CASE FollowOn
      <3>1. ~Pullup /\ Pullup' /\ dev = "following"
        BY <2>2 DEF FollowOn, Pullup
      <3> QED BY <3>1 DEF Port!Next, Port!Plug
    <2>3. CASE Boot
      <3>1. Pullup = FALSE /\ dev = "boot" /\ attached /\ attached' = attached
        BY <2>3 DEF Boot, Pullup, Phases
      <3>2. CASE Head(link)
        <4>1. dev' = "following"
          BY <2>3, <3>2, Zenon DEF Boot
        <4>2. Pullup'
          BY <3>1, <4>1 DEF Pullup
        <4> QED BY <3>1, <4>2 DEF Port!Next, Port!Plug
      <3>3. CASE ~Head(link)
        <4>1. dev' = "boot" /\ Pullup' = FALSE
          BY <2>3, <3>3 DEF Boot, Pullup
        <4> QED BY <3>1, <4>1 DEF Port!vars
      <3> QED BY <3>2, <3>3, Zenon
    <2>4. CASE Detached
      <3>1. /\ Pullup = FALSE /\ Pullup' = FALSE
            /\ dev = "detaching" /\ sleep = 0 /\ dev' = "following"
        BY <2>4 DEF Detached, Pullup, Phases
      <3>2. MinDetach - 0 = MinDetach
        BY LinkAssumption DEF LinkAssumption
      <3> QED BY <3>1, <3>2 DEF Port!vars
    <2>5. CASE Tick
      <3>1. UNCHANGED <<dev, attached>> /\ sleep' = Less(sleep)
        BY <2>5, Zenon DEF Tick
      <3>2. CASE dev = "detaching" /\ sleep # 0
        <4>1. Pullup = FALSE /\ Pullup' = FALSE /\ dev' = "detaching"
          BY <3>1, <3>2 DEF Phases, Pullup
        <4>2. /\ sleep' = sleep - 1 /\ MinDetach - sleep < MinDetach
              /\ MinDetach - sleep' = MinDetach - sleep + 1
          BY <3>1, <3>2, LinkAssumption DEF Less, TypeOK, LinkAssumption
        <4> QED BY <3>2, <4>1, <4>2 DEF Port!Next, Port!Tick
      <3>3. CASE ~(dev = "detaching" /\ sleep # 0)
        BY <3>1, <3>3 DEF Less, Port!vars, Pullup
      <3> QED BY <3>2, <3>3, Zenon
    <2>6. CASE UNCHANGED <<dev, attached, sleep>>
      BY <2>6 DEF Port!vars, Pullup
    <2>7. \/ UNCHANGED <<dev, attached, sleep>>
          \/ FollowOff \/ FollowOn \/ Boot \/ Detached \/ Tick
      BY Zenon DEF Next, ProxyStep, Follow, vars, devVars, proxyVars, ProxyStart,
         ProxyDrop, WheelAwake, FfbTake, FfbSent, FfbStop, FfbStallDropped, FollowSame,
         FfbStallRecover, RecoverDone, ClearHaltBegin, ClearHaltEnd, ConsoleSend
    <2> QED
      BY <2>1, <2>2, <2>3, <2>4, <2>5, <2>6, <2>7, Zenon
  <1> QED
    BY <1>1, <1>2, TypeCorrect, PhasesCorrect, PTL DEF Spec, ConsoleSeesUnplug, Port!Spec
=============================================================================
