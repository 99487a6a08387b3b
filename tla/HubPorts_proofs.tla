--------------------------- MODULE HubPorts_proofs ---------------------------
(***************************************************************************)
(* Theorems about HubPorts, for every value of the constants.              *)
(*                                                                         *)
(* What an address belongs to is passed from hand to hand: from the events *)
(* loop (info) over a child's slot to the child.  A child has at most one  *)
(* of the two, which is its Item.                                          *)
(***************************************************************************)
EXTENDS HubPorts, TLAPS

Items == Info \cup {None}
Item == [c \in Children |-> IF child[c] # None THEN child[c] ELSE slot[c].info]

-----------------------------------------------------------------------------
(* The invariant *)

\* TypeOK, as far as it holds by the types alone.
Types ==
  /\ plugged \in 0..MaxDevices
  /\ dev \in [Ports -> 0..MaxDevices] /\ devAddr \in [Ports -> 0..MaxAddr]
  /\ changed \subseteq Ports /\ hasty \in {"no", "yes"}
  /\ pc \in {"listen", "enumerate", "handover", "backoff"}
  /\ port \in 0..MAX_PORTS /\ free \in 0..CHILDREN
  /\ attempt \in 0..ENUM_ATTEMPTS
  /\ info \in Items
  /\ portChild \in [Ports -> 0..CHILDREN] /\ busy \subseteq Children
  /\ slot \in [Children -> Event]
  /\ child \in [Children -> Items] /\ serving \subseteq Children
  /\ addresses \subseteq Addresses /\ leaked \subseteq Addresses

\* A child's turn: free, handed a device, having it, told that it is gone.
Idle(c) == c \notin busy /\ slot[c] = Empty /\ child[c] = None
Coming(c) == c \in busy /\ slot[c].event = "attached" /\ slot[c].info \in Info /\ child[c] = None
Having(c) == c \in busy /\ slot[c] = Empty /\ child[c] \in Info
Leaving(c) == c \notin busy /\ slot[c] = Detached /\ child[c] \in Info

Phase(c) == Idle(c) \/ Coming(c) \/ Having(c) \/ Leaving(c)
Phases == \A c \in Children : Phase(c)

\* While the loop is away from its polls nobody is signalled, so that the child
\* it has picked stays free.
Loop ==
  /\ pc \in {"enumerate", "handover"} => Settled /\ port \in Ports /\ free \in Children \ busy
  /\ pc = "handover" => info \in Info /\ info.port = port
  /\ pc # "handover" => info = None

\* A port names the child that has, or is being handed, a device of this port.
Named ==
  \A p \in Ports : portChild[p] \in Children => portChild[p] \in busy /\ Item[portChild[p]].port = p

\* No address is held twice,
Apart ==
  /\ \A c, d \in Children : c # d /\ Item[c] # None => Item[c].addr # Item[d].addr
  /\ \A c \in Children : Item[c] # None => Item[c].addr \notin leaked /\ Item[c].addr # info.addr
  /\ info.addr \notin leaked

\* and those in use are those that are held or leaked.
InUse ==
  \A a \in Addresses :
    a \in addresses <=> a \in leaked \/ a = info.addr \/ \E c \in Children : Item[c].addr = a

\* Whoever answers to an address is what it is held for, and there.
Answers ==
  \A p \in Ports :
    /\ dev[p] = 0 => devAddr[p] = 0
    /\ devAddr[p] # 0 =>
         \/ devAddr[p] \in leaked
         \/ devAddr[p] = info.addr /\ info.port = p
         \/ \E c \in Children :
              slot[c] # Detached /\ Item[c].addr = devAddr[p] /\ Item[c].port = p

\* Unless devices are replugged too fast, a change that was not reported on a
\* port that names a child, or is being enumerated, is a removal.
There(p, d) == (dev[p] = d /\ p \notin changed) \/ (dev[p] = 0 /\ p \in changed)

Unhurried ==
  hasty = "no" =>
    /\ \A c \in busy : portChild[Item[c].port] = c
    /\ \A p \in Ports : portChild[p] \in Children => There(p, Item[portChild[p]].dev)
    /\ pc \in {"enumerate", "handover"} =>
         portChild[port] = NoChild /\ (dev[port] = 0 <=> port \in changed)
    /\ pc = "handover" => There(port, info.dev)

IInv ==
  /\ Types /\ Phases /\ Loop /\ Named /\ Apart /\ InUse /\ Answers /\ AddressesDistinct
  /\ Unhurried

-----------------------------------------------------------------------------
(* Types *)

LEMMA Ranges ==
  ASSUME HubAssumption
  PROVE  /\ NoChild \notin Children /\ NoPort \notin Ports /\ 0 \notin Addresses
         /\ Children \subseteq 0..CHILDREN /\ Ports \subseteq 0..MAX_PORTS
         /\ NoChild \in 0..CHILDREN /\ NoPort \in 0..MAX_PORTS
         /\ Addresses \subseteq 0..MaxAddr /\ 0 \in 0..MaxAddr
         /\ 1..MaxDevices \subseteq 0..MaxDevices
  BY DEF HubAssumption, Addresses, Ports, NoPort, Children, NoChild

LEMMA InfoFields ==
  ASSUME NEW i \in Info
  PROVE  i.addr \in Addresses /\ i.port \in Ports /\ i.dev \in 1..MaxDevices
  BY DEF Info

LEMMA NoneFields ==
  ASSUME HubAssumption
  PROVE  None \notin Info /\ None.addr = 0 /\ None.dev = 0 /\ None.port = NoPort
  <1>1. None.addr = 0 /\ None.dev = 0 /\ None.port = NoPort
    BY DEF None
  <1> QED
    BY <1>1, InfoFields, Ranges

LEMMA AttachedFields ==
  ASSUME NEW i
  PROVE  Attached(i).event = "attached" /\ Attached(i).info = i
  BY DEF Attached

LEMMA EventFields ==
  /\ Empty.event = "none" /\ Empty.info = None
  /\ Detached.event = "detached" /\ Detached.info = None
  BY DEF Empty, Detached

LEMMA EventValues ==
  /\ Empty \in Event /\ Detached \in Event
  /\ \A i \in Info : Attached(i) \in Event
  BY DEF Event

LEMMA SlotValues ==
  ASSUME NEW s \in Event
  PROVE  /\ s.info \in Items
         /\ s.event = "attached" => s.info \in Info /\ s = Attached(s.info)
         /\ s.event = "detached" => s = Detached
         /\ s.event = "none" => s = Empty
         /\ s.event \in {"none", "attached", "detached"}
         /\ s.event # "attached" => s.info = None
  <1>1. CASE s \in {Empty, Detached}
    BY <1>1, EventFields DEF Items
  <1>2. CASE \E i \in Info : s = Attached(i)
    BY <1>2, AttachedFields DEF Items
  <1> QED
    BY <1>1, <1>2 DEF Event

LEMMA TypesInit == ASSUME HubAssumption, Init PROVE Types
  <1>1. \A c \in Children : Empty \in Event /\ None \in Items
    BY EventValues DEF Items
  <1> QED
    BY <1>1, Ranges, SMT DEF Init, Types, HubAssumption, Items

LEMMA TypesStep == ASSUME HubAssumption, Types, Phases, Loop, [Next]_vars PROVE Types'
  <1> USE Ranges, EventValues DEF Types
  <1>1. ASSUME NEW p \in Ports, Plug(p) PROVE Types'
    BY <1>1, SMT DEF Plug, HubAssumption, eventVars, childVars, busVars
  <1>2. ASSUME NEW p \in Ports, Unplug(p) PROVE Types'
    BY <1>2, SMT DEF Unplug, eventVars, childVars, busVars
  <1>3. ASSUME NEW p \in Ports, Detected(p) PROVE Types'
    BY <1>3, SMT DEF Detected, HubAssumption, childVars, busVars
  <1>4. ASSUME NEW p \in Ports, Removed(p) PROVE Types'
    BY <1>4, SMT DEF Removed, Signal, childVars, busVars
  <1>5. CASE PollFails
    BY <1>5, SMT DEF PollFails, hubVars, childVars, busVars
  <1>6. CASE BackoffEnds
    BY <1>6, SMT DEF BackoffEnds, hubVars, childVars, busVars
  <1>7. CASE EnumerateOk
    <2>1. port \in Ports
      BY <1>7 DEF EnumerateOk, Loop
    <2>2. dev[port] \in 1..MaxDevices
      BY <2>1, <1>7, SMT DEF EnumerateOk
    <2>3. PICK a \in Addresses \ addresses :
            /\ addresses' = addresses \cup {a}
            /\ devAddr' = [devAddr EXCEPT ![port] = a]
            /\ info' = [dev |-> dev[port], port |-> port, addr |-> a]
      BY <1>7 DEF EnumerateOk
    <2>4. info' \in Items
      BY <2>1, <2>2, <2>3 DEF Info, Items
    <2>5. addresses' \subseteq Addresses /\ devAddr' \in [Ports -> 0..MaxAddr]
      BY <2>1, <2>3, SMT
    <2> QED
      BY <1>7, <2>4, <2>5, SMT DEF EnumerateOk, childVars
  <1>8. CASE EnumerateFails
    <2>1. port \in Ports
      BY <1>8 DEF EnumerateFails, Loop
    <2> QED
      BY <1>8, <2>1, SMT DEF EnumerateFails, Listen, HubAssumption, childVars, busVars
  <1>9. CASE Handover
    <2>1. free \in Children /\ Attached(info) \in Event /\ None \in Items
      BY <1>9, Zenon DEF Handover, Loop, Items
    <2>2. PICK value \in Event : value = Attached(info)
      BY <2>1
    <2>3. slot' \in [Children -> Event]
      BY <1>9, <2>1, <2>2, SMT DEF Handover, Signal
    <2>4. portChild' \in [Ports -> 0..CHILDREN] /\ busy' \subseteq Children
      <3>1. portChild' = [portChild EXCEPT ![port] = free] /\ busy' = busy \cup {free}
        BY <1>9 DEF Handover
      <3> QED
        BY <2>1, <3>1
    <2>5. /\ pc' = "listen" /\ port' = NoPort /\ free' = NoChild /\ attempt' = 0 /\ info' = None
          /\ UNCHANGED <<hubVars, childVars, busVars>>
      BY <1>9 DEF Handover, Listen
    <2> QED
      BY <2>1, <2>3, <2>4, <2>5, SMT DEF HubAssumption, hubVars, childVars, busVars
  <1>10. CASE HubIgnored
    <2>1. info.addr \in Addresses /\ None \in Items
      BY <1>10, InfoFields DEF HubIgnored, Loop, Items
    <2> QED
      BY <1>10, <2>1, SMT DEF HubIgnored, Listen, HubAssumption, hubVars, childVars
  <1>11. ASSUME NEW c \in Children, Take(c) PROVE Types'
    <2>1. slot[c].info \in Items
      BY SlotValues
    <2> QED
      BY <1>11, <2>1, SMT DEF Take, Signal, hubVars, eventVars, childVars, busVars
  <1>12. ASSUME NEW c \in Children, ServedOut(c) PROVE Types'
    BY <1>12, SMT DEF ServedOut, hubVars, eventVars, busVars
  <1>13. ASSUME NEW c \in Children, Release(c) PROVE Types'
    <2>1. None \in Items
      BY DEF Items
    <2> QED
      BY <1>13, <2>1, SMT DEF Release, Signal, hubVars, eventVars
  <1>14. CASE UNCHANGED vars
    BY <1>14, SMT DEF vars, hubVars, eventVars, childVars, busVars
  <1> QED
    BY <1>1, <1>2, <1>3, <1>4, <1>5, <1>6, <1>7, <1>8, <1>9, <1>10, <1>11, <1>12, <1>13, <1>14
    DEF Next, Events

-----------------------------------------------------------------------------
(* The children *)

LEMMA SamePhase ==
  ASSUME Phases, NEW c \in Children, slot'[c] = slot[c], child'[c] = child[c],
         c \in busy' <=> c \in busy
  PROVE  Phase(c)'
  BY DEF Phases, Phase, Idle, Coming, Having, Leaving

\* Once all children have taken their signals, each is idle or has a device.
LEMMA WhenSettled ==
  ASSUME Phases, Settled, NEW c \in Children
  PROVE  IF c \in busy THEN Having(c) ELSE Idle(c)
  BY EventFields DEF Phases, Phase, Settled, Idle, Coming, Having, Leaving

LEMMA PhasesInit == ASSUME HubAssumption, Init PROVE Phases /\ Loop
  BY SMT DEF Init, Phases, Phase, Idle, Loop

LEMMA PhasesStep ==
  ASSUME HubAssumption, Types, Phases, Loop, Named, [Next]_vars
  PROVE  Phases'
  <1> SUFFICES ASSUME NEW c \in Children
               PROVE  Phase(c)'
    BY DEF Phases
  <1> USE DEF Types
  <1>1. ASSUME NEW p \in Ports, Removed(p) PROVE Phase(c)'
    <2>1. CASE portChild[p] = c
      <3>1. c \in busy
        BY <2>1 DEF Named
      <3>2. Having(c)
        BY <1>1, <3>1, WhenSettled DEF Removed, Settled
      <3>3. c \notin busy' /\ slot'[c] = Detached /\ child'[c] = child[c]
        BY <1>1, <2>1, Ranges, SMT DEF Removed, Signal, childVars
      <3> QED
        BY <3>2, <3>3 DEF Having, Phase, Leaving
    <2>2. CASE portChild[p] # c
      <3>1. (c \in busy' <=> c \in busy) /\ slot'[c] = slot[c] /\ child'[c] = child[c]
        BY <1>1, <2>2, SMT DEF Removed, Signal, childVars
      <3> QED
        BY <3>1, SamePhase
    <2> QED
      BY <2>1, <2>2
  <1>2. CASE Handover
    <2>1. /\ busy' = busy \cup {free} /\ slot' = [slot EXCEPT ![free] = Attached(info)]
          /\ child' = child
      BY <1>2 DEF Handover, Signal, childVars
    <2>2. CASE free = c
      <3>1. Idle(c) /\ info \in Info
        BY <1>2, <2>2, WhenSettled DEF Handover, Loop
      <3>2. c \in busy' /\ slot'[c] = Attached(info) /\ child'[c] = None
        BY <2>1, <2>2, <3>1 DEF Idle
      <3> QED
        BY <3>1, <3>2, AttachedFields DEF Phase, Coming
    <2>3. CASE free # c
      BY <2>1, <2>3, SamePhase
    <2> QED
      BY <2>2, <2>3
  <1>3. ASSUME NEW d \in Children, Take(d) PROVE Phase(c)'
    <2>1. /\ slot' = [slot EXCEPT ![d] = Empty] /\ busy' = busy
          /\ child' = [child EXCEPT ![d] = child'[d]]
      BY <1>3, SMT DEF Take, Signal, eventVars, childVars
    <2>2. CASE c = d
      <3>1. Coming(c)
        BY <1>3, <2>2, EventFields, NoneFields
        DEF Take, Phases, Phase, Idle, Coming, Having, Leaving
      <3>2. child'[c] = slot[c].info /\ slot'[c] = Empty
        BY <1>3, <2>1, <2>2, <3>1 DEF Take, Coming
      <3> QED
        BY <2>1, <3>1, <3>2 DEF Phase, Coming, Having
    <2>3. CASE c # d
      BY <2>1, <2>3, SamePhase
    <2> QED
      BY <2>2, <2>3
  <1>4. ASSUME NEW d \in Children, Release(d) PROVE Phase(c)'
    <2>1. /\ slot' = [slot EXCEPT ![d] = Empty] /\ busy' = busy
          /\ child' = [child EXCEPT ![d] = None]
      BY <1>4 DEF Release, Signal, eventVars
    <2>2. CASE c = d
      <3>1. Leaving(c)
        BY <1>4, <2>2, EventFields
        DEF Release, Phases, Phase, Idle, Coming, Having, Leaving
      <3> QED
        BY <2>1, <2>2, <3>1 DEF Phase, Leaving, Idle
    <2>3. CASE c # d
      BY <2>1, <2>3, SamePhase
    <2> QED
      BY <2>2, <2>3
  <1>5. ASSUME slot' = slot, child' = child, busy' = busy PROVE Phase(c)'
    BY <1>5, SamePhase
  <1>6. ASSUME NEW p \in Ports, Plug(p) \/ Unplug(p) \/ Detected(p) PROVE Phase(c)'
    BY <1>5, <1>6 DEF Plug, Unplug, Detected, eventVars, childVars
  <1>7. ASSUME \/ PollFails \/ BackoffEnds \/ EnumerateOk \/ EnumerateFails \/ HubIgnored
               \/ UNCHANGED vars
        PROVE  Phase(c)'
    BY <1>5, <1>7 DEF PollFails, BackoffEnds, EnumerateOk, EnumerateFails, HubIgnored, vars,
                      eventVars, childVars
  <1>8. ASSUME NEW d \in Children, ServedOut(d) PROVE Phase(c)'
    BY <1>5, <1>8 DEF ServedOut, eventVars
  <1> QED
    BY <1>1, <1>2, <1>3, <1>4, <1>6, <1>7, <1>8 DEF Next, Events

LEMMA LoopStep ==
  ASSUME HubAssumption, Types, Phases, Loop, [Next]_vars
  PROVE  Loop'
  <1>1. ASSUME NEW p \in Ports, Detected(p) PROVE Loop'
    BY <1>1, SMT DEF Detected, Loop, Settled, childVars
  <1>2. CASE EnumerateOk
    <2>1. dev[port] \in 1..MaxDevices /\ port \in Ports
      BY <1>2 DEF EnumerateOk, Loop, Types
    <2>2. PICK a \in Addresses : info' = [dev |-> dev[port], port |-> port, addr |-> a]
      BY <1>2 DEF EnumerateOk
    <2>3. info' \in Info /\ info'.port = port
      BY <2>1, <2>2 DEF Info
    <2>4. pc = "enumerate" /\ pc' = "handover" /\ UNCHANGED <<port, free, busy, slot>>
      BY <1>2 DEF EnumerateOk
    <2> QED
      BY <2>3, <2>4 DEF Loop, Settled
  <1>3. ASSUME NEW c \in Children, Take(c) \/ Release(c) PROVE Loop'
    BY <1>3, EventFields DEF Take, Release, Loop, Settled, eventVars
  <1>4. ASSUME Listen, pc' # "handover", info' = None PROVE Loop'
    BY <1>4 DEF Listen, Loop
  <1>5. ASSUME UNCHANGED <<pc, port, free, info, busy, slot>> PROVE Loop'
    BY <1>5 DEF Loop, Settled
  <1>6. CASE EnumerateFails
    BY <1>4, <1>5, <1>6 DEF EnumerateFails, Loop, Listen
  <1>7. CASE Handover \/ HubIgnored
    BY <1>4, <1>7 DEF Handover, HubIgnored, Listen
  <1>8. ASSUME NEW p \in Ports, Plug(p) \/ Unplug(p) PROVE Loop'
    BY <1>5, <1>8 DEF Plug, Unplug, eventVars
  <1>9. ASSUME NEW p \in Ports, Removed(p) PROVE Loop'
    BY <1>9 DEF Removed, Loop
  <1>10. CASE PollFails \/ BackoffEnds
    BY <1>10 DEF PollFails, BackoffEnds, Loop
  <1>11. ASSUME NEW c \in Children, ServedOut(c) PROVE Loop'
    BY <1>5, <1>11 DEF ServedOut, eventVars
  <1>12. CASE UNCHANGED vars
    BY <1>5, <1>12 DEF vars, eventVars
  <1> QED
    BY <1>1, <1>2, <1>3, <1>6, <1>7, <1>8, <1>9, <1>10, <1>11, <1>12 DEF Next, Events

-----------------------------------------------------------------------------
(* What each child holds *)

LEMMA ItemValues ==
  ASSUME HubAssumption, Types, Phases, NEW c \in Children
  PROVE  /\ Item[c] \in Items
         /\ Idle(c) => Item[c] = None
         /\ Coming(c) => Item[c] = slot[c].info
         /\ Having(c) \/ Leaving(c) => Item[c] = child[c]
         /\ c \in busy => Item[c] \in Info
         /\ Item[c] # None => Item[c] \in Info /\ Item[c].addr \in Addresses
         /\ Item[c] = None => Item[c].addr = 0
  <1>1. Item[c] = IF child[c] # None THEN child[c] ELSE slot[c].info
    BY DEF Item
  <1>2. None \notin Info /\ None.addr = 0 /\ None \in Items
    BY NoneFields DEF Items
  <1>3. Idle(c) => Item[c] = None
    BY <1>1, EventFields DEF Idle
  <1>4. Coming(c) => Item[c] = slot[c].info /\ Item[c] \in Info
    BY <1>1 DEF Coming
  <1>5. Having(c) \/ Leaving(c) => Item[c] = child[c] /\ Item[c] \in Info
    BY <1>1, <1>2 DEF Having, Leaving
  <1>6. Idle(c) \/ Coming(c) \/ Having(c) \/ Leaving(c)
    BY DEF Phases, Phase
  <1>7. c \in busy => ~Idle(c)
    BY DEF Idle
  <1>8. Item[c] \in Info => Item[c].addr \in Addresses
    BY InfoFields
  <1> QED
    BY <1>2, <1>3, <1>4, <1>5, <1>6, <1>7, <1>8 DEF Items

\* A device is handed on,
LEMMA ItemHandover ==
  ASSUME HubAssumption, Types, Phases, Loop, Handover
  PROVE  /\ free \in Children \ busy /\ Item[free] = None /\ info \in Info /\ info.port = port
         /\ port \in Ports
         /\ Item' = [Item EXCEPT ![free] = info]
  <1>1. /\ free \in Children \ busy /\ info \in Info /\ info.port = port /\ port \in Ports
        /\ Settled
    BY DEF Handover, Loop
  <1>2. Idle(free)
    BY <1>1, WhenSettled
  <1>3. slot' = [slot EXCEPT ![free] = Attached(info)] /\ child' = child
    BY DEF Handover, Signal, childVars
  <1>4. slot'[free] = Attached(info) /\ child'[free] = None
    BY <1>1, <1>2, <1>3 DEF Types, Idle
  <1>5. \A c \in Children \ {free} : slot'[c] = slot[c] /\ child'[c] = child[c]
    BY <1>3 DEF Types
  <1>6. slot'[free].info = info
    BY <1>4, AttachedFields
  <1>7. Item' = [c \in Children |-> IF child'[c] # None THEN child'[c] ELSE slot'[c].info]
    BY DEF Item
  <1>8. ASSUME NEW c \in Children PROVE Item'[c] = IF c = free THEN info ELSE Item[c]
    BY <1>4, <1>5, <1>6, <1>7 DEF Item
  <1>9. Item' = [Item EXCEPT ![free] = info]
    BY <1>7, <1>8 DEF Item
  <1> QED
    BY <1>1, <1>2, <1>9, ItemValues

\* given up when it is gone,
LEMMA ItemRelease ==
  ASSUME HubAssumption, Types, Phases, NEW c \in Children, Release(c)
  PROVE  Leaving(c) /\ Item[c] = child[c] /\ Item[c] \in Info /\ Item' = [Item EXCEPT ![c] = None]
  <1>1. Leaving(c)
    BY EventFields DEF Release, Phases, Phase, Idle, Coming, Having, Leaving
  <1>2. slot' = [slot EXCEPT ![c] = Empty] /\ child' = [child EXCEPT ![c] = None]
    BY DEF Release, Signal
  <1>3. Item' = [d \in Children |-> IF child'[d] # None THEN child'[d] ELSE slot'[d].info]
    BY DEF Item
  <1>4. ASSUME NEW d \in Children PROVE Item'[d] = IF d = c THEN None ELSE Item[d]
    BY <1>2, <1>3, EventFields DEF Item, Types
  <1>5. Item' = [Item EXCEPT ![c] = None]
    BY <1>3, <1>4 DEF Item
  <1> QED
    BY <1>1, <1>5, ItemValues DEF Leaving

\* and kept in all other steps.
Keeps ==
  \/ \E p \in Ports : Plug(p) \/ Unplug(p) \/ Detected(p) \/ Removed(p)
  \/ PollFails \/ BackoffEnds \/ EnumerateOk \/ EnumerateFails \/ HubIgnored
  \/ \E c \in Children : Take(c) \/ ServedOut(c)
  \/ UNCHANGED vars

LEMMA AllSteps ==
  ASSUME [Next]_vars
  PROVE  Handover \/ (\E c \in Children : Release(c)) \/ Keeps
  BY DEF Next, Events, Keeps

LEMMA ItemKept ==
  ASSUME HubAssumption, Types, Phases, Loop, Named, Keeps
  PROVE  Item' = Item
  <1>1. ASSUME NEW c \in Children, child'[c] = child[c], slot'[c] = slot[c]
        PROVE  Item'[c] = Item[c]
    BY <1>1 DEF Item
  <1>2. ASSUME NEW c \in Children PROVE Item'[c] = Item[c]
    <2>1. CASE \E p \in Ports : Removed(p)
      <3>1. PICK p \in Ports : Removed(p)
        BY <2>1
      <3>2. child' = child
        BY <3>1 DEF Removed, childVars
      <3>3. CASE portChild[p] = c
        <4>1. Having(c)
          BY <3>1, <3>3, WhenSettled DEF Removed, Named, Settled
        <4> QED
          BY <3>2, <4>1, NoneFields DEF Having, Item
      <3>4. CASE portChild[p] # c
        <4>1. slot'[c] = slot[c]
          BY <3>1, <3>4, SMT DEF Removed, Signal, Types
        <4> QED
          BY <1>1, <3>2, <4>1
      <3> QED
        BY <3>3, <3>4
    <2>2. CASE \E d \in Children : Take(d)
      <3>1. PICK d \in Children : Take(d)
        BY <2>2
      <3>2. Coming(d)
        BY <3>1, EventFields, NoneFields DEF Take, Phases, Phase, Idle, Coming, Having, Leaving
      <3>3. child' = [child EXCEPT ![d] = slot[d].info] /\ slot' = [slot EXCEPT ![d] = Empty]
        BY <3>1, <3>2 DEF Take, Signal, Coming
      <3>4. CASE c = d
        BY <3>2, <3>3, <3>4, NoneFields DEF Coming, Item, Types
      <3>5. CASE c # d
        BY <1>1, <3>3, <3>5 DEF Types
      <3> QED
        BY <3>4, <3>5
    <2>3. ASSUME child' = child, slot' = slot PROVE Item'[c] = Item[c]
      BY <1>1, <2>3
    <2>4. ASSUME \/ \E p \in Ports : Plug(p) \/ Unplug(p) \/ Detected(p)
                 \/ PollFails \/ BackoffEnds \/ EnumerateOk \/ EnumerateFails \/ HubIgnored
                 \/ \E d \in Children : ServedOut(d)
                 \/ UNCHANGED vars
          PROVE  Item'[c] = Item[c]
      BY <2>3, <2>4 DEF Plug, Unplug, Detected, PollFails, BackoffEnds, EnumerateOk,
           EnumerateFails, HubIgnored, ServedOut, vars, childVars
    <2> QED
      BY <2>1, <2>2, <2>4 DEF Keeps
  <1> QED
    BY <1>2 DEF Item

LEMMA NamedStep ==
  ASSUME HubAssumption, Types, Phases, Loop, Named, [Next]_vars
  PROVE  Named'
  <1>1. CASE Handover
    <2>1. portChild' = [portChild EXCEPT ![port] = free] /\ busy' = busy \cup {free}
      BY <1>1 DEF Handover
    <2>2. /\ free \in Children \ busy /\ info.port = port /\ port \in Ports
          /\ Item' = [Item EXCEPT ![free] = info]
      BY <1>1, ItemHandover
    <2>3. Item'[free] = info
      BY <2>2 DEF Item
    <2>4. ASSUME NEW p \in Ports, portChild'[p] \in Children
          PROVE  portChild'[p] \in busy' /\ Item'[portChild'[p]].port = p
      <3>1. CASE p = port
        BY <2>1, <2>2, <2>3, <3>1 DEF Types
      <3>2. CASE p # port
        <4>1. portChild'[p] = portChild[p]
          BY <2>1, <3>2 DEF Types
        <4>2. portChild[p] \in busy /\ Item[portChild[p]].port = p /\ portChild[p] # free
          BY <2>2, <2>4, <4>1 DEF Named
        <4>3. Item'[portChild[p]] = Item[portChild[p]]
          BY <2>2, <2>4, <4>1, <4>2 DEF Item
        <4> QED
          BY <2>1, <4>1, <4>2, <4>3
      <3> QED
        BY <3>1, <3>2
    <2> QED
      BY <2>4 DEF Named
  <1>2. ASSUME NEW c \in Children, Release(c) PROVE Named'
    <2>1. c \notin busy /\ Item' = [Item EXCEPT ![c] = None] /\ UNCHANGED <<portChild, busy>>
      BY <1>2, ItemRelease DEF Leaving, Release, eventVars
    <2>2. \A d \in Children \ {c} : Item'[d] = Item[d]
      BY <2>1 DEF Item
    <2> QED
      BY <2>1, <2>2 DEF Named
  <1>3. ASSUME NEW p \in Ports, Removed(p) PROVE Named'
    <2>1. Item' = Item
      BY <1>3, ItemKept DEF Keeps
    <2>2. portChild' = [portChild EXCEPT ![p] = NoChild] /\ busy' = busy \ {portChild[p]}
      BY <1>3 DEF Removed
    <2>3. ASSUME NEW q \in Ports, portChild'[q] \in Children
          PROVE  portChild'[q] \in busy' /\ Item[portChild'[q]].port = q
      <3>1. q # p /\ portChild'[q] = portChild[q]
        BY <2>2, <2>3, Ranges DEF Types
      <3>2. portChild[q] \in busy /\ Item[portChild[q]].port = q
        BY <2>3, <3>1 DEF Named
      <3>3. portChild[q] # portChild[p]
        BY <2>3, <3>1, <3>2 DEF Named
      <3> QED
        BY <2>2, <3>1, <3>2, <3>3
    <2> QED
      BY <2>1, <2>3 DEF Named
  <1>4. CASE Keeps /\ \A p \in Ports : ~Removed(p)
    <2>1. Item' = Item
      BY <1>4, ItemKept
    <2>2. UNCHANGED <<portChild, busy>>
      BY <1>4 DEF Keeps, Plug, Unplug, Detected, PollFails, BackoffEnds, EnumerateOk,
           EnumerateFails, HubIgnored, Take, ServedOut, vars, eventVars
    <2> QED
      BY <2>1, <2>2 DEF Named
  <1> QED
    BY <1>1, <1>2, <1>3, <1>4, AllSteps

-----------------------------------------------------------------------------
(* Addresses *)

Addressed == Apart /\ InUse

LEMMA AddressedStep ==
  ASSUME HubAssumption, Types, Phases, Loop, Named, Addressed, [Next]_vars
  PROVE  Addressed'
  <1> USE DEF Addressed
  <1>0. \A c \in Children : (Item[c] = None => Item[c].addr = 0) /\ Item[c] \in Items
    BY ItemValues
  <1>1. CASE EnumerateOk
    <2>1. PICK a \in Addresses \ addresses :
            addresses' = addresses \cup {a} /\ info' = [dev |-> dev[port], port |-> port, addr |-> a]
      BY <1>1 DEF EnumerateOk
    <2>2. info'.addr = a /\ info.addr = 0 /\ leaked' = leaked
      BY <1>1, <2>1, NoneFields DEF EnumerateOk, Loop
    <2>3. Item' = Item
      BY <1>1, ItemKept DEF Keeps
    <2>4. a \notin leaked /\ \A c \in Children : Item[c].addr # a
      BY <2>1 DEF InUse
    <2>5. Apart'
      BY <2>2, <2>3, <2>4 DEF Apart
    <2>6. InUse'
      BY <2>1, <2>2, <2>3, Ranges DEF InUse
    <2> QED
      BY <2>5, <2>6
  <1>2. CASE Handover
    <2>1. /\ free \in Children \ busy /\ Item[free] = None /\ info \in Info
          /\ Item' = [Item EXCEPT ![free] = info]
      BY <1>2, ItemHandover
    <2>2. info' = None /\ None.addr = 0 /\ UNCHANGED <<addresses, leaked>>
      BY <1>2, NoneFields DEF Handover, busVars
    <2>3. \A c \in Children : Item'[c] = IF c = free THEN info ELSE Item[c]
      BY <2>1 DEF Item
    <2>4. \A c \in Children : Item[c] # None => Item[c].addr # 0
      BY ItemValues, Ranges
    <2>5. info.addr # 0 /\ 0 \notin leaked
      BY <2>1, InfoFields, Ranges DEF Types
    <2>6. Apart'
      BY <2>1, <2>2, <2>3, <2>4, <2>5, NoneFields DEF Apart
    <2>7. ASSUME NEW a \in Addresses
          PROVE  (\E c \in Children : Item'[c].addr = a)
                   <=> a = info.addr \/ \E c \in Children : Item[c].addr = a
      <3>1. a # 0 /\ Item[free].addr = 0
        BY <2>1, <2>2, Ranges
      <3> QED
        BY <2>1, <2>3, <3>1
    <2>8. InUse'
      BY <2>2, <2>7, Ranges DEF InUse
    <2> QED
      BY <2>6, <2>8
  <1>3. ASSUME NEW d \in Children, Release(d) PROVE Addressed'
    <2>1. Item[d] = child[d] /\ Item[d] \in Info /\ Item' = [Item EXCEPT ![d] = None]
      BY <1>3, ItemRelease
    <2>2. addresses' = addresses \ {Item[d].addr} /\ info' = info /\ leaked' = leaked
      BY <1>3, <2>1 DEF Release, eventVars
    <2>3. \A c \in Children : Item'[c] = IF c = d THEN None ELSE Item[c]
      BY <2>1 DEF Item
    <2>4. Item[d] # None /\ None.addr = 0
      BY <2>1, NoneFields
    <2>5. Apart'
      <3>1. \A c \in Children : Item[c] # None => Item[c].addr # 0
        BY ItemValues, Ranges
      <3> QED
        BY <2>2, <2>3, <2>4, <3>1 DEF Apart
    <2>6. /\ Item[d].addr \notin leaked /\ Item[d].addr # info.addr
          /\ \A c \in Children \ {d} : Item[c].addr # Item[d].addr
      BY <2>4 DEF Apart
    <2>7. ASSUME NEW a \in Addresses
          PROVE  a \in addresses' <=> a \in leaked \/ a = info.addr
                                        \/ \E c \in Children : Item'[c].addr = a
      <3>1. a # 0
        BY Ranges
      <3> QED
        BY <2>2, <2>3, <2>4, <2>6, <3>1 DEF InUse
    <2> QED
      BY <2>2, <2>5, <2>7 DEF InUse
  <1>4. CASE HubIgnored
    <2>1. Item' = Item
      BY <1>4, ItemKept DEF Keeps
    <2>2. /\ info' = None /\ None.addr = 0 /\ leaked' = leaked \cup {info.addr}
          /\ addresses' = addresses
      BY <1>4, NoneFields DEF HubIgnored
    <2>3. info.addr # 0 /\ 0 \notin leaked
      BY <1>4, InfoFields, Ranges DEF HubIgnored, Loop, Types
    <2>4. \A c \in Children : Item[c] # None => Item[c].addr # 0
      BY ItemValues, Ranges
    <2>5. Apart'
      BY <2>1, <2>2, <2>3, <2>4 DEF Apart
    <2>6. InUse'
      BY <2>1, <2>2, Ranges DEF InUse
    <2> QED
      BY <2>5, <2>6
  <1>5. CASE Keeps /\ ~EnumerateOk /\ ~HubIgnored
    <2>1. Item' = Item
      BY <1>5, ItemKept
    <2>2. UNCHANGED <<addresses, leaked, info>>
      BY <1>5 DEF Keeps, Plug, Unplug, Detected, Removed, PollFails, BackoffEnds,
           EnumerateFails, Take, ServedOut, vars, eventVars, busVars
    <2> QED
      BY <2>1, <2>2 DEF Apart, InUse
  <1> QED
    BY <1>1, <1>2, <1>3, <1>4, <1>5, AllSteps

\* What a device answers to is in use.
LEMMA AnswersInUse ==
  ASSUME HubAssumption, Types, Phases, InUse, Answers, NEW p \in Ports, devAddr[p] # 0
  PROVE  devAddr[p] \in addresses
  <1>1. devAddr[p] \in Addresses
    BY Ranges DEF Types, Addresses, HubAssumption
  <1> QED
    BY <1>1 DEF Answers, InUse

LEMMA AnswersStep ==
  ASSUME HubAssumption, Types, Phases, Loop, Named, Addressed, Answers, [Next]_vars
  PROVE  Answers'
  <1> DEFINE Owner(p) ==
        \/ devAddr[p] \in leaked
        \/ devAddr[p] = info.addr /\ info.port = p
        \/ \E c \in Children :
             slot[c] # Detached /\ Item[c].addr = devAddr[p] /\ Item[c].port = p
  <1>1. CASE EnumerateOk
    <2>1. PICK a \in Addresses :
            /\ devAddr' = [devAddr EXCEPT ![port] = a]
            /\ info' = [dev |-> dev[port], port |-> port, addr |-> a]
      BY <1>1 DEF EnumerateOk
    <2>2. /\ info'.addr = a /\ info'.port = port /\ info = None /\ dev' = dev
          /\ leaked' = leaked /\ slot' = slot /\ dev[port] # 0 /\ port \in Ports
      BY <1>1, <2>1 DEF EnumerateOk, Loop
    <2>3. Item' = Item
      BY <1>1, ItemKept DEF Keeps
    <2>4. ASSUME NEW p \in Ports PROVE (dev[p] = 0 => devAddr'[p] = 0) /\ (devAddr'[p] # 0 => Owner(p)')
      <3>1. CASE p = port
        BY <2>1, <2>2, <3>1 DEF Types
      <3>2. CASE p # port
        <4>1. devAddr'[p] = devAddr[p]
          BY <2>1, <3>2 DEF Types
        <4> QED
          BY <2>2, <2>3, <4>1, NoneFields DEF Answers
      <3> QED
        BY <3>1, <3>2
    <2> QED
      BY <2>2, <2>4 DEF Answers
  <1>2. CASE Handover
    <2>1. /\ free \in Children \ busy /\ Item[free] = None
          /\ Item' = [Item EXCEPT ![free] = info] /\ info \in Info
      BY <1>2, ItemHandover
    <2>2. UNCHANGED <<dev, devAddr, leaked>> /\ slot' = [slot EXCEPT ![free] = Attached(info)]
      BY <1>2 DEF Handover, Signal, hubVars, busVars
    <2>3. slot'[free] # Detached
      BY <2>1, <2>2, AttachedFields, EventFields DEF Types
    <2>4. \A c \in Children \ {free} : slot'[c] = slot[c] /\ Item'[c] = Item[c]
      BY <2>1, <2>2 DEF Types, Item
    <2>5. Item'[free] = info
      BY <2>1 DEF Item
    <2>6. ASSUME NEW p \in Ports, devAddr[p] # 0 PROVE Owner(p)'
      <3>1. CASE devAddr[p] = info.addr /\ info.port = p
        BY <2>1, <2>2, <2>3, <2>5, <3>1
      <3>2. CASE devAddr[p] \in leaked
        BY <2>2, <3>2
      <3>3. ASSUME NEW c \in Children, slot[c] # Detached, Item[c].addr = devAddr[p],
                   Item[c].port = p
            PROVE  Owner(p)'
        <4>1. c # free
          BY <2>1, <2>6, <3>3, NoneFields
        <4> QED
          BY <2>2, <2>4, <3>3, <4>1
      <3> QED
        BY <2>6, <3>1, <3>2, <3>3 DEF Answers
    <2> QED
      BY <2>2, <2>6 DEF Answers
  <1>3. ASSUME NEW d \in Children, Release(d) PROVE Answers'
    <2>1. Leaving(d) /\ Item' = [Item EXCEPT ![d] = None]
      BY <1>3, ItemRelease
    <2>2. UNCHANGED <<dev, devAddr, leaked, info>> /\ slot' = [slot EXCEPT ![d] = Empty]
      BY <1>3 DEF Release, Signal, hubVars, eventVars
    <2>3. \A c \in Children \ {d} : slot'[c] = slot[c] /\ Item'[c] = Item[c]
      BY <2>1, <2>2 DEF Types, Item
    <2>4. slot[d] = Detached
      BY <2>1 DEF Leaving
    <2> QED
      BY <2>2, <2>3, <2>4 DEF Answers
  <1>4. ASSUME NEW q \in Ports, Removed(q) PROVE Answers'
    <2>1. Item' = Item
      BY <1>4, ItemKept DEF Keeps
    <2>2. UNCHANGED <<dev, devAddr, leaked, info>> /\ dev[q] = 0
      BY <1>4 DEF Removed, busVars
    <2>3. \A c \in Children : c # portChild[q] => slot'[c] = slot[c]
      BY <1>4 DEF Removed, Signal, Types
    <2>4. ASSUME NEW p \in Ports, devAddr[p] # 0 PROVE Owner(p)'
      <3>1. p # q
        BY <2>2, <2>4 DEF Answers
      <3>2. ASSUME NEW c \in Children, slot[c] # Detached, Item[c].addr = devAddr[p],
                   Item[c].port = p
            PROVE  Owner(p)'
        <4>1. c # portChild[q]
          BY <3>1, <3>2 DEF Named
        <4> QED
          BY <2>1, <2>2, <2>3, <3>2, <4>1
      <3> QED
        BY <2>2, <2>4, <3>2 DEF Answers
    <2> QED
      BY <2>2, <2>4 DEF Answers
  <1>5. ASSUME NEW c \in Children, Take(c) PROVE Answers'
    <2>1. Item' = Item
      BY <1>5, ItemKept DEF Keeps
    <2>2. UNCHANGED <<dev, devAddr, leaked, info>> /\ slot' = [slot EXCEPT ![c] = Empty]
      BY <1>5 DEF Take, Signal, hubVars, eventVars, busVars
    <2>3. \A d \in Children : slot'[d] = slot[d] \/ slot'[d] # Detached
      BY <2>2, EventFields DEF Types
    <2> QED
      BY <2>1, <2>2, <2>3 DEF Answers
  <1>6. CASE HubIgnored
    <2>1. Item' = Item
      BY <1>6, ItemKept DEF Keeps
    <2>2. leaked' = leaked \cup {info.addr} /\ UNCHANGED <<dev, devAddr, slot>>
      BY <1>6 DEF HubIgnored, hubVars
    <2> QED
      BY <2>1, <2>2 DEF Answers
  <1>7. ASSUME \/ \E p \in Ports : Plug(p) \/ Unplug(p) \/ Detected(p)
               \/ PollFails \/ BackoffEnds \/ EnumerateFails
               \/ \E c \in Children : ServedOut(c)
               \/ UNCHANGED vars
        PROVE  Answers'
    <2>1. Item' = Item
      BY <1>7, ItemKept DEF Keeps
    <2>2. UNCHANGED <<leaked, info, slot>>
      BY <1>7 DEF Plug, Unplug, Detected, PollFails, BackoffEnds,
           EnumerateFails, ServedOut, vars, eventVars, busVars
    <2>3. ASSUME NEW p \in Ports
          PROVE  (devAddr'[p] = devAddr[p] \/ devAddr'[p] = 0) /\ (dev'[p] = 0 => devAddr'[p] = 0)
      <3>1. CASE EnumerateFails
        BY <3>1, SMT DEF EnumerateFails, Answers, Types, Loop
      <3>2. ASSUME NEW q \in Ports, Plug(q)
            PROVE  (devAddr'[p] = devAddr[p] \/ devAddr'[p] = 0) /\ (dev'[p] = 0 => devAddr'[p] = 0)
        BY <3>2, SMT DEF Plug, Answers, Types
      <3>3. ASSUME NEW q \in Ports, Unplug(q)
            PROVE  (devAddr'[p] = devAddr[p] \/ devAddr'[p] = 0) /\ (dev'[p] = 0 => devAddr'[p] = 0)
        BY <3>3, SMT DEF Unplug, Answers, Types
      <3>4. ASSUME UNCHANGED <<dev, devAddr>>
            PROVE  (devAddr'[p] = devAddr[p] \/ devAddr'[p] = 0) /\ (dev'[p] = 0 => devAddr'[p] = 0)
        BY <3>4 DEF Answers
      <3> QED
        BY <1>7, <3>1, <3>2, <3>3, <3>4 DEF Detected, PollFails, BackoffEnds,
           ServedOut, vars, hubVars
    <2> QED
      BY <2>1, <2>2, <2>3 DEF Answers
  <1> QED
    BY <1>1, <1>2, <1>3, <1>4, <1>5, <1>6, <1>7 DEF Next, Events

LEMMA DistinctStep ==
  ASSUME HubAssumption, Types, Phases, Loop, Addressed, Answers, AddressesDistinct, [Next]_vars
  PROVE  AddressesDistinct'
  <1>1. CASE EnumerateOk
    <2>1. PICK a \in Addresses \ addresses : devAddr' = [devAddr EXCEPT ![port] = a]
      BY <1>1 DEF EnumerateOk
    <2>2. \A p \in Ports : devAddr[p] # a
      BY <2>1, AnswersInUse, Ranges DEF Addressed
    <2>3. port \in Ports
      BY <1>1 DEF EnumerateOk, Loop
    <2> QED
      BY <2>1, <2>2, <2>3 DEF AddressesDistinct, Types
  <1>2. ASSUME \A p \in Ports : devAddr'[p] = devAddr[p] \/ devAddr'[p] = 0
        PROVE  AddressesDistinct'
    BY <1>2 DEF AddressesDistinct
  <1>3. CASE EnumerateFails
    BY <1>2, <1>3, SMT DEF EnumerateFails, Types, Loop
  <1>4. ASSUME NEW q \in Ports, Unplug(q) PROVE AddressesDistinct'
    BY <1>2, <1>4, SMT DEF Unplug, Types
  <1>5. ASSUME devAddr' = devAddr PROVE AddressesDistinct'
    BY <1>2, <1>5
  <1> QED
    BY <1>1, <1>3, <1>4, <1>5 DEF Next, Events, Plug, Detected, Removed, PollFails, BackoffEnds,
       Handover, HubIgnored, Take, ServedOut, Release, vars, hubVars

-----------------------------------------------------------------------------
(* Who has what, unless devices are replugged too fast *)

\* The same, when nothing was replugged too fast.
Served ==
  /\ \A c \in busy : portChild[Item[c].port] = c
  /\ \A p \in Ports : portChild[p] \in Children => There(p, Item[portChild[p]].dev)
Enumerated ==
  /\ pc \in {"enumerate", "handover"} =>
       portChild[port] = NoChild /\ (dev[port] = 0 <=> port \in changed)
  /\ pc = "handover" => There(port, info.dev)

LEMMA UnhurriedStep ==
  ASSUME HubAssumption, Types, Phases, Loop, Named, Unhurried, [Next]_vars
  PROVE  Unhurried'
  <1> SUFFICES ASSUME hasty' = "no" PROVE Served' /\ Enumerated'
    BY DEF Unhurried, Served, Enumerated
  <1>1. hasty = "no"
    BY DEF Types, Next, Events, Plug, Unplug, Detected, Removed, PollFails, BackoffEnds,
           EnumerateOk, EnumerateFails, Handover, HubIgnored, Take, ServedOut, Release, vars, hubVars
  <1>2. Served /\ Enumerated
    BY <1>1 DEF Unhurried, Served, Enumerated
  <1>3. \A c \in busy : Item[c] \in Info /\ Item[c].port \in Ports /\ Item[c].dev \in 1..MaxDevices
    BY ItemValues, InfoFields DEF Types
  <1>4. \A p \in Ports : portChild[p] \in Children => portChild[p] \in busy
    BY DEF Named
  <1>5. ASSUME UNCHANGED <<dev, changed, portChild, busy>>, \A c \in busy : Item'[c] = Item[c],
               pc' \notin {"enumerate", "handover"} \/ UNCHANGED <<pc, port, info>>
        PROVE  Served' /\ Enumerated'
    BY <1>2, <1>4, <1>5 DEF Served, Enumerated, There
  <1>6. ASSUME NEW p \in Ports, Plug(p) \/ Unplug(p)
        PROVE  Served' /\ Enumerated'
    <2>1. Item' = Item /\ UNCHANGED <<portChild, busy, pc, port, info>>
      BY <1>6, ItemKept DEF Keeps, Plug, Unplug, eventVars
    <2>2. ASSUME NEW q \in Ports, NEW d \in 1..MaxDevices, There(q, d)
          PROVE  There(q, d)'
      BY <1>6, <2>2, SMT DEF There, Plug, Unplug, Types
    <2>3. ASSUME NEW q \in Ports, dev[q] = 0 <=> q \in changed
          PROVE  dev'[q] = 0 <=> q \in changed'
      BY <1>6, <2>3, SMT DEF Plug, Unplug, Types
    <2>4. Served'
      BY <1>2, <1>3, <1>4, <2>1, <2>2 DEF Served
    <2>5. ASSUME pc \in {"enumerate", "handover"} PROVE port \in Ports
      BY <2>5 DEF Loop
    <2>6. ASSUME pc = "handover" PROVE info.dev \in 1..MaxDevices
      BY <2>6, InfoFields DEF Loop
    <2>7. Enumerated'
      BY <1>2, <2>1, <2>2, <2>3, <2>5, <2>6 DEF Enumerated
    <2> QED
      BY <2>4, <2>7
  <1>7. ASSUME NEW p \in Ports, Detected(p)
        PROVE  Served' /\ Enumerated'
    <2>1. Item' = Item
      BY <1>7, ItemKept DEF Keeps
    <2>2. /\ dev[p] # 0 /\ p \in changed /\ changed' = changed \ {p}
          /\ UNCHANGED <<dev, portChild, busy, info>>
          /\ pc = "listen" /\ (pc' = pc \/ (pc' = "enumerate" /\ port' = p))
      BY <1>7 DEF Detected
    <2>3. portChild[p] \notin Children
      BY <1>2, <2>2 DEF Served, There
    <2>4. portChild[p] = NoChild
      BY <2>3, SMT DEF Types, Children, NoChild, HubAssumption
    <2>5. Served'
      BY <1>2, <2>1, <2>2, <2>3 DEF Served, There
    <2>6. Enumerated'
      BY <2>2, <2>4 DEF Enumerated
    <2> QED
      BY <2>5, <2>6
  <1>8. ASSUME NEW p \in Ports, Removed(p)
        PROVE  Served' /\ Enumerated'
    <2>1. Item' = Item
      BY <1>8, ItemKept DEF Keeps
    <2>2. /\ changed' = changed \ {p} /\ portChild' = [portChild EXCEPT ![p] = NoChild]
          /\ busy' = busy \ {portChild[p]} /\ pc' = "listen" /\ dev' = dev
      BY <1>8 DEF Removed
    <2>3. portChild'[p] = NoChild /\ \A q \in Ports \ {p} : portChild'[q] = portChild[q]
      BY <2>2 DEF Types
    <2>4. \A c \in busy' : Item[c].port # p
      BY <1>2, <2>2 DEF Served
    <2>5. Served'
      BY <1>2, <1>3, <2>1, <2>2, <2>3, <2>4, Ranges DEF Served, There
    <2> QED
      BY <2>2, <2>5 DEF Enumerated
  <1>9. CASE EnumerateOk
    <2>1. Item' = Item
      BY <1>9, ItemKept DEF Keeps
    <2>2. /\ pc = "enumerate" /\ dev[port] # 0 /\ info'.dev = dev[port]
          /\ UNCHANGED <<dev, changed, portChild, busy, port>>
      BY <1>9 DEF EnumerateOk
    <2>3. Served'
      BY <1>2, <2>1, <2>2 DEF Served, There
    <2>4. Enumerated'
      BY <1>2, <2>2 DEF Enumerated, There
    <2> QED
      BY <2>3, <2>4
  <1>10. CASE Handover
    <2>1. /\ free \in Children \ busy /\ info.port = port /\ port \in Ports
          /\ Item' = [Item EXCEPT ![free] = info]
      BY <1>10, ItemHandover
    <2>2. /\ portChild' = [portChild EXCEPT ![port] = free] /\ busy' = busy \cup {free}
          /\ pc = "handover" /\ pc' = "listen" /\ UNCHANGED <<dev, changed>>
      BY <1>10 DEF Handover, Listen, hubVars
    <2>3. Item'[free] = info /\ \A c \in busy : Item'[c] = Item[c]
      BY <2>1 DEF Item, Types
    <2>4. portChild'[port] = free /\ \A p \in Ports \ {port} : portChild'[p] = portChild[p]
      BY <2>1, <2>2 DEF Types
    <2>5. portChild[port] = NoChild /\ There(port, info.dev)
      BY <1>2, <2>2 DEF Enumerated
    <2>6. ASSUME NEW c \in busy' PROVE portChild'[Item'[c].port] = c
      <3>1. CASE c = free
        BY <2>1, <2>3, <2>4, <3>1
      <3>2. CASE c \in busy
        <4>1. portChild[Item[c].port] = c /\ c \in Children
          BY <1>2, <3>2 DEF Served, Types
        <4>2. Item[c].port # port
          BY <2>5, <4>1, Ranges
        <4> QED
          BY <1>3, <2>3, <2>4, <3>2, <4>1, <4>2
      <3> QED
        BY <2>2, <3>1, <3>2
    <2>7. ASSUME NEW p \in Ports, portChild'[p] \in Children
          PROVE  There(p, Item[portChild[p]].dev)'
      <3>1. CASE p = port
        BY <2>2, <2>3, <2>4, <2>5, <3>1 DEF There
      <3>2. CASE p # port
        <4>1. portChild[p] \in busy /\ portChild'[p] = portChild[p]
          BY <1>4, <2>4, <2>7, <3>2
        <4> QED
          BY <1>2, <2>2, <2>3, <2>7, <4>1 DEF Served, There
      <3> QED
        BY <3>1, <3>2
    <2> QED
      BY <2>2, <2>6, <2>7 DEF Served, Enumerated
  <1>11. ASSUME NEW c \in Children, Release(c)
         PROVE  Served' /\ Enumerated'
    <2>1. c \notin busy /\ Item' = [Item EXCEPT ![c] = None]
      BY <1>11, ItemRelease DEF Leaving
    <2>2. \A d \in busy : Item'[d] = Item[d]
      BY <2>1 DEF Item, Types
    <2> QED
      BY <1>5, <1>11, <2>2 DEF Release, hubVars, eventVars
  <1>12. ASSUME \/ PollFails \/ BackoffEnds \/ EnumerateFails \/ HubIgnored
                \/ \E c \in Children : Take(c) \/ ServedOut(c)
                \/ UNCHANGED vars
         PROVE  Served' /\ Enumerated'
    <2>1. Item' = Item
      BY <1>12, ItemKept DEF Keeps
    <2> QED
      BY <1>5, <1>12, <2>1 DEF PollFails, BackoffEnds, EnumerateFails, HubIgnored, Listen, Take,
         ServedOut, vars, hubVars, eventVars
  <1> QED
    BY <1>6, <1>7, <1>8, <1>9, <1>10, <1>11, <1>12 DEF Next, Events

-----------------------------------------------------------------------------
(* The theorems *)

LEMMA InvInit == ASSUME HubAssumption, Init PROVE IInv
  <1>1. Types /\ Phases /\ Loop
    BY TypesInit, PhasesInit
  <1>2. \A c \in Children : Idle(c)
    BY DEF Init, Idle
  <1>3. \A c \in Children : Item[c] = None
    BY <1>1, <1>2, ItemValues
  <1>4. /\ \A p \in Ports : portChild[p] \notin Children /\ dev[p] = 0 /\ devAddr[p] = 0
        /\ info = None /\ None.addr = 0 /\ leaked = {} /\ addresses = {} /\ busy = {}
        /\ pc = "listen"
    BY Ranges, NoneFields DEF Init
  <1>5. Named /\ Apart /\ InUse /\ Answers /\ AddressesDistinct /\ Unhurried
    BY <1>3, <1>4, Ranges DEF Named, Apart, InUse, Answers, AddressesDistinct, Unhurried
  <1> QED
    BY <1>1, <1>5 DEF IInv

LEMMA InvStep == ASSUME HubAssumption, IInv, [Next]_vars PROVE IInv'
  <1> USE DEF IInv, Addressed
  <1> QED
    BY TypesStep, PhasesStep, LoopStep, NamedStep, AddressedStep, AnswersStep, DistinctStep,
       UnhurriedStep

LEMMA Invariant == Spec => []IInv
  <1>1. Init => IInv
    BY InvInit, HubAssumption
  <1>2. IInv /\ [Next]_vars => IInv'
    BY InvStep, HubAssumption
  <1> QED
    BY <1>1, <1>2, PTL DEF Spec

(***************************************************************************)
(* Every variable keeps to its type, and an address that went to a hub     *)
(* behind the hub stays in use.                                            *)
(***************************************************************************)
THEOREM TypeCorrect == Spec => []TypeOK
  <1>1. IInv => TypeOK
    <2> SUFFICES ASSUME IInv PROVE TypeOK
      OBVIOUS
    <2>1. leaked \subseteq addresses
      BY DEF IInv, Types, InUse
    <2> QED
      BY <2>1 DEF IInv, Types, TypeOK, Items
  <1> QED
    BY <1>1, Invariant, PTL

(***************************************************************************)
(* No two devices answer to the same address, however often enumerations   *)
(* fail, devices come and go and hubs are ignored.                         *)
(***************************************************************************)
THEOREM AlwaysDistinct == Spec => []AddressesDistinct
  <1>1. IInv => AddressesDistinct
    BY DEF IInv
  <1> QED
    BY <1>1, Invariant, PTL

(***************************************************************************)
(* The addresses in use are those of the children, of the device on its    *)
(* way to one, and of ignored hubs.                                        *)
(***************************************************************************)
THEOREM AlwaysKept == Spec => []AddressesKept
  <1>1. IInv => AddressesKept
    <2> SUFFICES ASSUME IInv PROVE AddressesKept
      OBVIOUS
    <2> USE HubAssumption DEF IInv
    <2>1. ASSUME NEW a \in Addresses
          PROVE  (\E c \in Children : Item[c].addr = a)
                   <=> \E c \in Children : child[c].addr = a \/ slot[c].info.addr = a
      <3>1. ASSUME NEW c \in Children
            PROVE  Item[c].addr = a <=> child[c].addr = a \/ slot[c].info.addr = a
        <4>1. a # 0 /\ None.addr = 0 /\ Empty.info = None /\ Detached.info = None
          BY Ranges, NoneFields, EventFields
        <4> QED
          BY <4>1, ItemValues DEF Phases, Phase, Idle, Coming, Having, Leaving
      <3> QED
        BY <3>1
    <2>2. \A a \in Addresses : a \in addresses <=> a \in (Held \ {0}) \cup leaked
      BY <2>1, Ranges DEF InUse, Held
    <2>3. Held \ {0} \subseteq Addresses
      <3>1. \A c \in Children : child[c] \in Items /\ slot[c].info \in Items
        BY SlotValues DEF Types
      <3>2. \A i \in Items : i.addr \in Addresses \cup {0}
        BY InfoFields, NoneFields DEF Items
      <3> QED
        BY <3>1, <3>2 DEF Held, Types
    <2> QED
      BY <2>2, <2>3 DEF AddressesKept, Types
  <1> QED
    BY <1>1, Invariant, PTL

(***************************************************************************)
(* Each busy child has the device on its port and the others have none,    *)
(* whenever all changes have been dealt with and nothing was replugged too *)
(* fast.                                                                   *)
(***************************************************************************)
THEOREM AlwaysServes == Spec => []ServesAttached
  <1>1. IInv => ServesAttached
    <2> SUFFICES ASSUME IInv, Quiet, hasty = "no", NEW c \in Children
                 PROVE  IF c \in busy
                        THEN /\ child[c] # None /\ dev[child[c].port] = child[c].dev
                             /\ portChild[child[c].port] = c
                        ELSE child[c] = None /\ \A p \in Ports : portChild[p] # c
      BY Zenon DEF ServesAttached
    <2> USE HubAssumption DEF IInv, Quiet
    <2>1. CASE c \in busy
      <3>1. Having(c) /\ Item[c] = child[c]
        BY <2>1, WhenSettled, ItemValues
      <3>2. portChild[child[c].port] = c /\ child[c].port \in Ports
        BY <2>1, <3>1, InfoFields DEF Unhurried, Having
      <3>3. dev[child[c].port] = child[c].dev
        BY <3>1, <3>2 DEF Unhurried, There
      <3> QED
        BY <2>1, <3>1, <3>2, <3>3, NoneFields DEF Having
    <2>2. CASE c \notin busy
      BY <2>2, WhenSettled DEF Idle, Named
    <2> QED
      BY <2>1, <2>2
  <1> QED
    BY <1>1, Invariant, PTL
=============================================================================
