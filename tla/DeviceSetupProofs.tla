------------------------- MODULE DeviceSetupProofs -------------------------
(* Proofs about DeviceSetup, for every set of events, types and ioctls,    *)
(* every whitelist and every number of requests.                           *)
EXTENDS DeviceSetup, TLAPS, WellFoundedInduction

\* What the slot remembers is allowed.
MetaAllowed == Enabled(meta.events) \subseteq Whitelist

\* What the client asked for is remembered, and nobody in the slot has asked
\* for nothing.
Remembered == IF client = NULL THEN requested = {}
                               ELSE requested \subseteq Enabled(meta.events)

IInv == /\ TypeOK /\ NamedDevice /\ MetaAllowed
        /\ Remembered /\ EnabledAllowed /\ RequestedEnabled

-----------------------------------------------------------------------------
(* Lists of events.                                                        *)

EventList == UNION {[1..n -> Event] : n \in 0..MaxEvents}

LEMMA EventLists ==
    ASSUME NEW events \in EventList
    PROVE  /\ events \in Seq(Event)
           /\ DOMAIN events = 1..Len(events)
           /\ Len(events) \in 0..MaxEvents
<1>1. PICK n \in 0..MaxEvents : events \in [1..n -> Event]
  BY DEF EventList
<1>2. n \in Nat
  BY <1>1, MaxEventsAssumption
<1>. QED BY <1>1, <1>2

LEMMA EmptyList == <<>> \in EventList /\ Enabled(<<>>) = {}
<1>1. 0 \in 0..MaxEvents
  BY MaxEventsAssumption
<1>2. <<>> \in [1..0 -> Event]
  OBVIOUS
<1>. QED BY <1>1, <1>2 DEF EventList, Enabled

LEMMA LongerList ==
    ASSUME NEW events \in EventList, NEW e \in Event, Len(events) < MaxEvents
    PROVE  /\ Append(events, e) \in EventList
           /\ Enabled(Append(events, e)) = Enabled(events) \cup {e}
<1> DEFINE n == Len(events)
<1>1. events \in Seq(Event) /\ n \in Nat /\ DOMAIN events = 1..n
  BY EventLists, MaxEventsAssumption
<1>2. n + 1 \in 0..MaxEvents
  BY <1>1, MaxEventsAssumption
<1>3. Append(events, e) \in [1..(n + 1) -> Event]
  <2>1. Append(events, e) \in Seq(Event) /\ Len(Append(events, e)) = n + 1
    BY <1>1
  <2>2. \A seq \in Seq(Event) : seq \in [1..Len(seq) -> Event]
    BY SMT
  <2>. HIDE DEF n
  <2>. QED BY <2>1, <2>2
<1>4. /\ DOMAIN Append(events, e) = DOMAIN events \cup {n + 1}
      /\ \A i \in DOMAIN events : Append(events, e)[i] = events[i]
      /\ Append(events, e)[n + 1] = e
  BY <1>1
<1>5. Append(events, e) \in EventList
  BY <1>2, <1>3 DEF EventList
<1>. QED BY <1>4, <1>5 DEF Enabled

LEMMA LeastOf ==
    ASSUME NEW S, S \subseteq Nat, S # {}
    PROVE  \E m \in S : \A n \in S : m <= n
<1> DEFINE Less == {p \in Nat \X Nat : p[1] < p[2]}
<1>1. IsWellFoundedOn(Less, Nat)
  BY NatLessThanWellFounded DEF OpToRel
<1>2. PICK m \in S : \A n \in S : ~(<<n, m>> \in Less)
  BY <1>1, WFMin
<1>3. ASSUME NEW n \in S PROVE m <= n
  <2>1. <<n, m>> \in Nat \X Nat /\ <<n, m>>[1] = n /\ <<n, m>>[2] = m
    OBVIOUS
  <2>2. ~(n < m)
    BY <2>1, <1>2
  <2>. QED BY <2>2
<1>. QED BY <1>3

LEMMA GreatestOf ==
    ASSUME NEW S, NEW n \in Nat, S \subseteq 1..n, S # {}
    PROVE  \E m \in S : \A k \in S : k <= m
<1> DEFINE D == {n - k : k \in S}
<1>1. D \subseteq Nat /\ D # {}
  <2>1. \A k \in S : n - k \in Nat
    OBVIOUS
  <2>. QED BY <2>1
<1>2. PICK d \in D : \A x \in D : d <= x
  BY <1>1, LeastOf
<1>3. PICK m \in S : d = n - m
  BY <1>2
<1>4. ASSUME NEW k \in S PROVE k <= m
  <2>1. n - k \in D
    OBVIOUS
  <2>2. n - m <= n - k
    BY <2>1, <1>2, <1>3
  <2>. QED BY <2>2
<1>. QED BY <1>4

\* The last type set is the type of an event before the i-th, or none.
LEMMA LastTypeIsBefore ==
    ASSUME NEW events \in EventList, NEW i \in DOMAIN events
    PROVE  \/ LastType(events, i) = "EV_MAX"
           \/ \E j \in 1..(i - 1) : LastType(events, i) = TypeOf[events[j]]
<1> DEFINE before == {j \in 1..(i - 1) : Known(events[j])}
<1>1. CASE before = {}
  BY <1>1 DEF LastType
<1>2. CASE before # {}
  <2> DEFINE last == CHOOSE j \in before : \A k \in before : k <= j
  <2>1. i \in Nat /\ i - 1 \in Nat
    BY EventLists
  <2>2. last \in before
    BY <2>1, <1>2, GreatestOf
  <2>3. LastType(events, i) = TypeOf[events[last]]
    BY <1>2 DEF LastType
  <2>. QED BY <2>2, <2>3
<1>. QED BY <1>1, <1>2

\* The bit of a known event's type is set: where the type comes first, the
\* last one set is another.
LEMMA BitsOfKnown ==
    ASSUME NEW events \in EventList, NEW e \in Enabled(events), Known(e)
    PROVE  TypeOf[e] \in TypeBits(events)
<1> DEFINE same == {i \in DOMAIN events : TypeOf[events[i]] = TypeOf[e]}
<1>1. DOMAIN events = 1..Len(events) /\ Len(events) \in Nat
  BY EventLists, MaxEventsAssumption
<1>2. same \subseteq Nat /\ same # {}
  BY <1>1 DEF Enabled
<1>3. PICK first \in same : \A i \in same : first <= i
  BY <1>2, LeastOf
<1>4. Known(events[first])
  BY <1>3 DEF Known
<1>5. LastType(events, first) # TypeOf[events[first]]
  <2>1. CASE LastType(events, first) = "EV_MAX"
    BY <2>1, <1>4, EnableMapAssumption DEF Known
  <2>2. ASSUME NEW j \in 1..(first - 1), LastType(events, first) = TypeOf[events[j]]
        PROVE  LastType(events, first) # TypeOf[events[first]]
    <3>1. j \in DOMAIN events /\ ~(first <= j)
      BY <1>1
    <3>2. j \notin same
      BY <3>1, <1>3
    <3>. QED BY <3>1, <3>2, <2>2
  <2>. QED BY <2>1, <2>2, LastTypeIsBefore
<1>. QED BY <1>4, <1>5 DEF TypeBits

-----------------------------------------------------------------------------
(* Meta and devices.                                                       *)

LEMMA MetaFields ==
    /\ Meta = [name : Name \cup {NULL}, events : EventList, absinfo : [Axis -> AbsInfo]]
    /\ EmptyMeta \in Meta
    /\ \A m \in Meta : /\ FreeEvents(m) \in Meta
                       /\ FreeEvents(m).name = m.name /\ FreeEvents(m).events = <<>>
BY EmptyList, NullAssumption DEF Meta, EventList, EmptyMeta, FreeEvents

\* A described axis is an event; the codes are requested or described.
LEMMA NewDeviceTyped ==
    ASSUME NEW m \in Meta, m.name # NULL, Enabled(m.events) \subseteq Whitelist
    PROVE  /\ NewDevice(m).name \in Name
           /\ NewDevice(m).codes \subseteq Event
           /\ NewDevice(m).bits \subseteq EnableMap \cup {"EV_SYN"}
           /\ NewDevice(m).axes \in [Axis -> AbsInfo]
           /\ \A e \in NewDevice(m).codes :
                 \/ e \in Whitelist /\ TypeOf[e] \in NewDevice(m).bits
                 \/ e \in Described(NewDevice(m).axes)
           /\ \A e \in Enabled(m.events) : Known(e) =>
                 e \in NewDevice(m).codes /\ TypeOf[e] \in NewDevice(m).bits
<1>1. m.events \in EventList /\ m.name \in Name /\ m.absinfo \in [Axis -> AbsInfo]
  BY MetaFields
<1>2. TypeBits(m.events) \subseteq EnableMap \cup {"EV_SYN"}
  BY DEF TypeBits, Known
<1>3. /\ NewDevice(m).name = m.name /\ NewDevice(m).bits = TypeBits(m.events)
      /\ NewDevice(m).axes = m.absinfo
      /\ NewDevice(m).codes
            = {e \in Enabled(m.events) : Known(e)} \cup AxesSetUp(m.absinfo)
  BY DEF NewDevice
<1>4. AxesSetUp(m.absinfo) \subseteq Described(m.absinfo)
  BY DEF AxesSetUp
<1>5. Described(m.absinfo) \subseteq Event
  BY AxisAssumption DEF Described
<1>6. \A e \in Enabled(m.events) : Known(e) => TypeOf[e] \in TypeBits(m.events)
  BY <1>1, BitsOfKnown
<1>. QED BY <1>1, <1>2, <1>3, <1>4, <1>5, <1>6, EventsAssumption

-----------------------------------------------------------------------------
(* Every step preserves IInv.  A step is one of four kinds: it leaves the  *)
(* device alone and the list as it is or forgotten; it remembers one more  *)
(* event; it creates a device from the list; or it cleans the slot.        *)

\* The device stays, and so does a name; the list keeps to its own.
KeepsDevice ==
    /\ ev_fd' = ev_fd /\ meta' \in Meta
    /\ meta.name # NULL => meta'.name # NULL
    /\ meta'.events \in {meta.events, <<>>}

\* The client asks for nothing now, or its list is as it was.
ClientServed ==
    \/ client' = NULL /\ requested' = {}
    \/ /\ client' = client /\ requested' = requested
       /\ meta'.events = meta.events
    \/ /\ client = NULL /\ client' \in Conn /\ requested' = requested

Statuses == {"RESERVED_UNCONN", "SETUP_REQUIRED", "SUCCESS"}

\* What is not said of the device is preserved by all of them.
LEMMA KeepingDevicePreserves ==
    ASSUME IInv, KeepsDevice, ClientServed, status' \in Statuses,
           client' = client /\ client' # NULL =>
                status' = status \/ status' = "SETUP_REQUIRED"
    PROVE  IInv'
<1>1. TypeOK'
  BY DEF IInv, TypeOK, KeepsDevice, ClientServed, Statuses
<1>2. NamedDevice'
  BY DEF IInv, NamedDevice, KeepsDevice
<1>3. MetaAllowed'
  BY EmptyList DEF IInv, MetaAllowed, KeepsDevice
<1>4. Remembered'
  BY DEF IInv, Remembered, ClientServed
<1>5. EnabledAllowed'
  BY DEF IInv, EnabledAllowed, KeepsDevice
<1>6. RequestedEnabled'
  <2>1. CASE client' = NULL
    BY <2>1 DEF RequestedEnabled
  <2>2. CASE client' # NULL /\ client' = client /\ requested' = requested
    BY <2>2 DEF IInv, RequestedEnabled, KeepsDevice
  <2>3. CASE client = NULL /\ requested' = requested
    BY <2>3 DEF IInv, Remembered, RequestedEnabled
  <2>. QED BY <2>1, <2>2, <2>3 DEF ClientServed
<1>. QED BY <1>1, <1>2, <1>3, <1>4, <1>5, <1>6 DEF IInv

\* The slot loses its device, its memory and, unless it was free, its client.
LEMMA CleaningPreserves ==
    ASSUME IInv, ev_fd' = NULL, meta' = EmptyMeta, status' \in Statuses,
           client' \in Conn \cup {NULL}, requested' = {}
    PROVE  IInv'
<1>1. TypeOK'
  BY MetaFields DEF TypeOK, Statuses
<1>2. NamedDevice' /\ EnabledAllowed' /\ RequestedEnabled' /\ Remembered'
  BY DEF NamedDevice, EnabledAllowed, RequestedEnabled, Remembered
<1>3. MetaAllowed'
  BY EmptyList DEF MetaAllowed, EmptyMeta
<1>. QED BY <1>1, <1>2, <1>3 DEF IInv

LEMMA HelloPreserves ==
    ASSUME IInv, NEW c \in Conn, Hello(c)
    PROVE  IInv'
<1>1. client = NULL /\ client' = c /\ requested' = {} /\ requested' = requested
  BY DEF Hello, IInv, Remembered
<1>2. status' \in Statuses
  BY DEF Hello, Ready, Statuses
<1>3. CASE UNCHANGED <<ev_fd, meta>>
  <2>1. KeepsDevice
    BY <1>3 DEF KeepsDevice, IInv, TypeOK
  <2>2. ClientServed /\ client' # client
    BY <1>1, NullAssumption DEF ClientServed
  <2>. QED BY <1>2, <2>1, <2>2, KeepingDevicePreserves
<1>4. CASE ev_fd' = NULL /\ meta' = EmptyMeta
  BY <1>1, <1>2, <1>4, CleaningPreserves
<1>. QED BY <1>3, <1>4 DEF Hello, CleanupDevice

LEMMA HelloLostPreserves ==
    ASSUME IInv, HelloLost
    PROVE  IInv'
<1>1. client' = NULL /\ client = NULL /\ requested' = {} /\ requested' = requested
  BY DEF HelloLost, IInv, Remembered
<1>2. status' = status /\ status \in Statuses
  BY DEF HelloLost, IInv, TypeOK, Statuses
<1>3. CASE UNCHANGED <<ev_fd, meta>>
  BY <1>1, <1>2, <1>3, KeepingDevicePreserves DEF KeepsDevice, ClientServed, IInv, TypeOK
<1>4. CASE ev_fd' = NULL /\ meta' = EmptyMeta
  BY <1>1, <1>2, <1>4, CleaningPreserves
<1>. QED BY <1>3, <1>4 DEF HelloLost, CleanupDevice

LEMMA ConfigurePreserves ==
    ASSUME IInv, NEW m \in Meta, Configure(m), m.events = meta.events,
           meta.name # NULL => m.name # NULL
    PROVE  IInv'
<1>1. KeepsDevice /\ ClientServed
  BY DEF Configure, KeepsDevice, ClientServed
<1>2. status' = status /\ status' \in Statuses
  BY DEF Configure, IInv, TypeOK, Statuses
<1>. QED BY <1>1, <1>2, KeepingDevicePreserves

LEMMA HandleAbsinfoPreserves ==
    ASSUME IInv, NEW a \in Axis, NEW info \in AbsInfo, HandleAbsinfo(a, info)
    PROVE  IInv'
<1> DEFINE m == [meta EXCEPT !.absinfo[a] = info]
<1>1. m \in Meta /\ m.events = meta.events /\ m.name = meta.name
  BY DEF IInv, TypeOK, Meta
<1>2. Configure(m)
  BY DEF HandleAbsinfo
<1>. QED BY <1>1, <1>2, ConfigurePreserves

LEMMA HandleDevicePreserves ==
    ASSUME IInv, NEW n \in Name, HandleDevice(n)
    PROVE  IInv'
<1> DEFINE m == [meta EXCEPT !.name = n]
<1>1. m \in Meta /\ m.events = meta.events /\ m.name # NULL
  BY NullAssumption DEF IInv, TypeOK, Meta
<1>2. Configure(m)
  BY DEF HandleDevice
<1>. QED BY <1>1, <1>2, ConfigurePreserves

\* The one step that lengthens the list: what it adds is what it lets through.
LEMMA HandleRequestEventPreserves ==
    ASSUME IInv, NEW e \in Event, HandleRequestEvent(e)
    PROVE  IInv'
<1>1. /\ client # NULL /\ status = "SETUP_REQUIRED"
      /\ client' = client /\ status' = status /\ ev_fd' = ev_fd
  BY DEF HandleRequestEvent, Setup
<1>2. CASE ~Allowed(e)
  <2>1. meta' = meta /\ requested' = requested
    BY <1>2 DEF HandleRequestEvent, Allowed
  <2>2. KeepsDevice /\ ClientServed /\ status' \in Statuses
    BY <1>1, <2>1 DEF KeepsDevice, ClientServed, Statuses, IInv, TypeOK
  <2>. QED BY <1>1, <2>2, KeepingDevicePreserves
<1>3. CASE Allowed(e)
  <2> DEFINE longer == Append(meta.events, e)
  <2>1. /\ meta \in Meta /\ meta.events \in EventList
        /\ meta' = [meta EXCEPT !.events = longer]
        /\ requested' = requested \cup {e} /\ e \in Whitelist
    BY <1>3, MetaFields DEF HandleRequestEvent, AppendEvent, Allowed, IInv, TypeOK
  <2>2. longer \in EventList /\ Enabled(longer) = Enabled(meta.events) \cup {e}
    BY <2>1, LongerList DEF HandleRequestEvent
  <2>3. meta' \in Meta /\ meta'.events = longer /\ meta'.name = meta.name
    <3>. HIDE DEF longer
    <3>. QED BY <2>1, <2>2, MetaFields
  <2>. HIDE DEF longer
  <2>4. TypeOK'
    BY <1>1, <2>1, <2>3 DEF IInv, TypeOK
  <2>5. NamedDevice' /\ EnabledAllowed' /\ RequestedEnabled'
    BY <1>1, <2>3 DEF IInv, NamedDevice, EnabledAllowed, RequestedEnabled
  <2>6. MetaAllowed'
    BY <2>1, <2>2, <2>3 DEF IInv, MetaAllowed
  <2>7. Remembered'
    BY <1>1, <2>1, <2>2, <2>3 DEF IInv, Remembered
  <2>. QED BY <2>4, <2>5, <2>6, <2>7 DEF IInv
<1>. QED BY <1>2, <1>3

\* The device made of what is remembered has what the client asked for.
LEMMA HandleSetupEndPreserves ==
    ASSUME IInv, HandleSetupEnd
    PROVE  IInv'
<1>1. /\ client # NULL /\ meta.name # NULL /\ meta' = meta /\ meta \in Meta
      /\ ev_fd' = NewDevice(meta) /\ status' = "SUCCESS"
      /\ \/ client' = client /\ requested' = requested
         \/ client' = NULL /\ requested' = {}
  BY DEF HandleSetupEnd, Announced, IInv, TypeOK
<1>2. MetaAllowed' /\ NamedDevice'
  BY <1>1 DEF IInv, MetaAllowed, NamedDevice
<1>3. /\ ev_fd'.name \in Name /\ ev_fd'.codes \subseteq Event
      /\ ev_fd'.bits \subseteq EnableMap \cup {"EV_SYN"}
      /\ ev_fd'.axes \in [Axis -> AbsInfo]
      /\ \A e \in ev_fd'.codes : \/ e \in Whitelist /\ TypeOf[e] \in ev_fd'.bits
                                 \/ e \in Described(ev_fd'.axes)
      /\ \A e \in Enabled(meta.events) : Known(e) =>
            e \in ev_fd'.codes /\ TypeOf[e] \in ev_fd'.bits
  BY <1>1, NewDeviceTyped DEF IInv, MetaAllowed
<1>4. TypeOK'
  BY <1>1, <1>3 DEF IInv, TypeOK
<1>5. EnabledAllowed'
  BY <1>3 DEF EnabledAllowed, Described
<1>6. Remembered'
  BY <1>1 DEF IInv, Remembered
<1>7. RequestedEnabled'
  BY <1>1, <1>3 DEF IInv, Remembered, RequestedEnabled
<1>. QED BY <1>2, <1>4, <1>5, <1>6, <1>7 DEF IInv

LEMMA HandleSetupRequiredPreserves ==
    ASSUME IInv, HandleSetupRequired
    PROVE  IInv'
<1>1. KeepsDevice /\ ClientServed
  BY DEF HandleSetupRequired, Announced, KeepsDevice, ClientServed, IInv, TypeOK
<1>2. status' = "SETUP_REQUIRED"
  BY DEF HandleSetupRequired, Announced
<1>. QED BY <1>1, <1>2, KeepingDevicePreserves DEF Statuses

\* The ends of a connection: the list goes or stays, the name stays.
LEMMA EndPreserves ==
    ASSUME IInv, HangUp \/ VisitFreeSlot \/ ProtocolError \/ EventsLost
    PROVE  IInv'
<1>1. client' = NULL /\ requested' = {} /\ ev_fd' = ev_fd
  BY DEF HangUp, VisitFreeSlot, ProtocolError, EventsLost, Closed, Dropped
<1>2. status' \in Statuses
  BY DEF HangUp, VisitFreeSlot, ProtocolError, EventsLost, Closed, Dropped,
         IInv, TypeOK, Statuses
<1>3. meta \in Meta /\ (meta' = meta \/ meta' = FreeEvents(meta))
  BY DEF HangUp, VisitFreeSlot, ProtocolError, EventsLost, IInv, TypeOK
<1>4. KeepsDevice
  BY <1>1, <1>3, MetaFields DEF KeepsDevice
<1>. QED BY <1>1, <1>2, <1>4, KeepingDevicePreserves DEF ClientServed

LEMMA QuitPreserves ==
    ASSUME IInv, Quit
    PROVE  IInv'
<1>1. client' = NULL /\ requested' = {} /\ status' \in Statuses
  BY DEF Quit, Closed, Statuses
<1>2. CASE ev_fd' = NULL /\ meta' = EmptyMeta
  BY <1>1, <1>2, CleaningPreserves
<1>3. CASE ev_fd' = ev_fd /\ meta' = FreeEvents(meta)
  <2>1. KeepsDevice
    BY <1>3, MetaFields DEF KeepsDevice, IInv, TypeOK
  <2>. QED BY <1>1, <2>1, KeepingDevicePreserves DEF ClientServed
<1>. QED BY <1>2, <1>3 DEF Quit

LEMMA RestartPreserves ==
    ASSUME IInv, Restart
    PROVE  IInv'
BY CleaningPreserves DEF Restart, Statuses

-----------------------------------------------------------------------------
(* The theorems.                                                           *)

LEMMA InitInductive == Init => IInv
<1>1. SUFFICES ASSUME Init PROVE IInv
  OBVIOUS
<1>2. TypeOK
  BY <1>1, MetaFields DEF Init, TypeOK
<1>3. MetaAllowed
  BY <1>1, EmptyList DEF Init, MetaAllowed, EmptyMeta
<1>. QED BY <1>1, <1>2, <1>3
     DEF Init, IInv, NamedDevice, Remembered, EnabledAllowed, RequestedEnabled

LEMMA NextInductive == IInv /\ [Next]_vars => IInv'
<1>1. SUFFICES ASSUME IInv, [Next]_vars PROVE IInv'
  OBVIOUS
<1>2. CASE UNCHANGED vars
  BY <1>1, <1>2 DEF vars, IInv, TypeOK, NamedDevice, MetaAllowed, Remembered,
                    EnabledAllowed, RequestedEnabled
<1>3. CASE \E c \in Conn : Hello(c)
  BY <1>1, <1>3, HelloPreserves
<1>4. CASE HelloLost
  BY <1>1, <1>4, HelloLostPreserves
<1>5. CASE \E a \in Axis, info \in AbsInfo : HandleAbsinfo(a, info)
  BY <1>1, <1>5, HandleAbsinfoPreserves
<1>6. CASE \E n \in Name : HandleDevice(n)
  BY <1>1, <1>6, HandleDevicePreserves
<1>7. CASE \E e \in Event : HandleRequestEvent(e)
  BY <1>1, <1>7, HandleRequestEventPreserves
<1>8. CASE HandleSetupRequired
  BY <1>1, <1>8, HandleSetupRequiredPreserves
<1>9. CASE HandleSetupEnd
  BY <1>1, <1>9, HandleSetupEndPreserves
<1>10. CASE Quit
  BY <1>1, <1>10, QuitPreserves
<1>11. CASE HangUp \/ VisitFreeSlot \/ ProtocolError \/ EventsLost
  BY <1>1, <1>11, EndPreserves
<1>12. CASE Restart
  BY <1>1, <1>12, RestartPreserves
<1>. QED BY <1>1, <1>2, <1>3, <1>4, <1>5, <1>6, <1>7, <1>8, <1>9, <1>10, <1>11,
            <1>12 DEF Next

\* All of it holds throughout, whatever the order of setups, refusals, lost
\* replies and reconnections.
THEOREM SetupInductive == Spec => []IInv
BY InitInductive, NextInductive, PTL DEF Spec

\* Every variable keeps its type; a device has a name and legal bits.
THEOREM SetupTypeCorrect == Spec => []TypeOK
<1>1. IInv => TypeOK
  BY DEF IInv
<1>. QED BY <1>1, SetupInductive, PTL

\* A slot with a device has a name in its meta (create_device() reads it).
THEOREM DevicesNamed == Spec => []NamedDevice
<1>1. IInv => NamedDevice
  BY DEF IInv
<1>. QED BY <1>1, SetupInductive, PTL

\* Every code of a device is allowed by the access lists and comes with the bit
\* of its type (enable_events()), or is an axis that was described, which no
\* list is asked about (UI_ABS_SETUP in create_device()).
THEOREM DevicesAllowed == Spec => []EnabledAllowed
<1>1. IInv => EnabledAllowed
  BY DEF IInv
<1>. QED BY <1>1, SetupInductive, PTL

\* A client that is set up can send all it asked for and was allowed, events of
\* types enable_map[] lacks excepted (handle_request_event(), create_device()).
THEOREM RequestsEnabled == Spec => []RequestedEnabled
<1>1. IInv => RequestedEnabled
  BY DEF IInv
<1>. QED BY <1>1, SetupInductive, PTL

-----------------------------------------------------------------------------
(* DeviceSetup implements SlotService, for a service of one slot.          *)

\* The mapping, as the service sees the slot.
owner  == [s \in {1} |-> client]
stage  == [s \in {1} |-> IF client = NULL THEN "idle"
                         ELSE IF status = "SUCCESS" THEN "live" ELSE "setup"]
device == [s \in {1} |-> ev_fd # NULL]

\* What a step of the service says, for its only slot.
LEMMA Stutters ==
    ASSUME client' = client, client # NULL => status' = status, (ev_fd' # NULL) = (ev_fd # NULL)
    PROVE  UNCHANGED Service!vars
  BY DEF Service!vars

LEMMA ReleaseServes ==
    ASSUME client # NULL, client' = NULL, ev_fd' = ev_fd
    PROVE  Service!Next
<1>1. owner' = [owner EXCEPT ![1] = NULL] /\ stage' = [stage EXCEPT ![1] = "idle"]
      /\ device' = device /\ owner[1] # NULL
  BY DEF owner, stage, device
<1>2. Service!Release(1)
  BY <1>1 DEF Service!Release, Service!Vacate, owner, stage, device
<1>. QED BY <1>2 DEF Service!Next

LEMMA QuitServes ==
    ASSUME client # NULL, client' = NULL, ev_fd' = NULL
    PROVE  Service!Next
<1>1. owner' = [owner EXCEPT ![1] = NULL] /\ stage' = [stage EXCEPT ![1] = "idle"]
      /\ device' = [device EXCEPT ![1] = FALSE] /\ owner[1] # NULL
  BY DEF owner, stage, device
<1>2. Service!Quit(1)
  BY <1>1 DEF Service!Quit, Service!Vacate, owner, stage, device
<1>. QED BY <1>2 DEF Service!Next

LEMMA ShutdownServes ==
    ASSUME client' = NULL, ev_fd' = NULL
    PROVE  Service!Next
  BY DEF Service!Next, Service!Shutdown, Service!Unused

\* An idle slot is given away, with its device or without.
LEMMA HelloServes ==
    ASSUME NEW c \in Conn, Hello(c)
    PROVE  Service!Next
<1>1. client = NULL /\ client' = c /\ c # NULL /\ status' = Ready(ev_fd')
      /\ (ev_fd' = ev_fd \/ (ev_fd # NULL /\ ev_fd' = NULL))
  BY NullAssumption DEF Hello, CleanupDevice
<1>2. /\ owner = [s \in {1} |-> NULL] /\ stage = [s \in {1} |-> "idle"]
      /\ owner' = [owner EXCEPT ![1] = c]
      /\ stage' = [stage EXCEPT ![1] = Service!ReadyStage(device'[1])]
  BY <1>1 DEF owner, stage, device, Ready, Service!ReadyStage
<1>3. 1 \in Service!Idle /\ \A t \in Service!Idle : t = 1
  BY <1>2 DEF Service!Idle, owner
<1>4. Service!Evict(1) \/ device' = device
  <2>1. CASE ev_fd' = ev_fd
    BY <2>1 DEF device
  <2>2. CASE ev_fd # NULL /\ ev_fd' = NULL
    <3>1. device[1] /\ device' = [device EXCEPT ![1] = FALSE]
      BY <2>2 DEF device
    <3>. QED BY <1>3, <3>1 DEF Service!Evict, device
  <2>. QED BY <1>1, <2>1, <2>2
<1>5. Service!Grant(1, c)
  BY <1>1, <1>2, <1>3, <1>4 DEF Service!Grant, owner, stage, device
<1>. QED BY <1>5 DEF Service!Next

LEMMA HelloLostServes ==
    ASSUME HelloLost
    PROVE  [Service!Next]_Service!vars
<1>1. client = NULL /\ client' = NULL
      /\ (ev_fd' = ev_fd \/ (ev_fd # NULL /\ ev_fd' = NULL))
  BY DEF HelloLost, CleanupDevice
<1>2. CASE ev_fd' = ev_fd
  BY <1>1, <1>2, Stutters
<1>3. CASE ev_fd # NULL /\ ev_fd' = NULL
  <2>1. device[1] /\ device' = [device EXCEPT ![1] = FALSE] /\ stage' = stage /\ owner' = owner
    BY <1>1, <1>3 DEF owner, stage, device
  <2>2. 1 \in Service!Idle /\ \A t \in Service!Idle : t = 1
    BY <1>1 DEF Service!Idle
  <2>3. Service!GrantLost(1)
    BY <2>1, <2>2 DEF Service!GrantLost, Service!Evict, owner, stage, device
  <2>. QED BY <2>3 DEF Service!Next
<1>. QED BY <1>1, <1>2, <1>3

\* SETUP_END makes a device: a live client, or one that was lost over the
\* reply, leaves it in the slot.
LEMMA SetupEndServes ==
    ASSUME IInv, HandleSetupEnd
    PROVE  Service!Next
<1>1. /\ client # NULL /\ status = "SETUP_REQUIRED" /\ status' = "SUCCESS"
      /\ client' = client \/ client' = NULL
  BY DEF HandleSetupEnd, Announced
<1>2. ev_fd' # NULL
  <2>1. ev_fd' = NewDevice(meta) /\ TypeOK /\ MetaAllowed /\ meta.name # NULL
    BY DEF HandleSetupEnd, IInv
  <2>2. /\ ev_fd'.name \in Name /\ ev_fd'.codes \subseteq Event
        /\ ev_fd'.bits \subseteq EnableMap \cup {"EV_SYN"}
        /\ ev_fd'.axes \in [Axis -> AbsInfo]
    BY <2>1, NewDeviceTyped DEF TypeOK, MetaAllowed
  <2>3. ev_fd' = [name |-> ev_fd'.name, bits |-> ev_fd'.bits,
                  codes |-> ev_fd'.codes, axes |-> ev_fd'.axes]
    BY <2>1 DEF NewDevice
  <2>. QED BY <2>2, <2>3, NullAssumption
<1>3. device' = [device EXCEPT ![1] = TRUE] /\ stage[1] = "setup"
  BY <1>1, <1>2 DEF device, stage
<1>4. CASE client' = client
  <2>1. owner' = owner /\ stage' = [stage EXCEPT ![1] = "live"]
    BY <1>1, <1>4 DEF owner, stage
  <2>2. Service!Configure(1)
    BY <1>3, <2>1 DEF Service!Configure, Service!Proceed, owner, stage, device
  <2>. QED BY <2>2 DEF Service!Next
<1>5. CASE client' = NULL
  <2>1. owner' = [owner EXCEPT ![1] = NULL] /\ stage' = [stage EXCEPT ![1] = "idle"]
        /\ owner[1] # NULL
    BY <1>1, <1>5 DEF owner, stage
  <2>2. Service!Configure(1)
    BY <1>3, <2>1 DEF Service!Configure, Service!Vacate, owner, stage, device
  <2>. QED BY <2>2 DEF Service!Next
<1>. QED BY <1>1, <1>4, <1>5

LEMMA SetupRequiredServes ==
    ASSUME HandleSetupRequired
    PROVE  Service!Next
<1>1. /\ client # NULL /\ status = "SUCCESS" /\ status' = "SETUP_REQUIRED" /\ ev_fd' = ev_fd
      /\ client' = client \/ client' = NULL
  BY DEF HandleSetupRequired, Announced
<1>2. CASE client' = client
  <2>1. owner' = owner /\ stage' = [stage EXCEPT ![1] = "setup"] /\ stage[1] = "live"
        /\ device' = device
    BY <1>1, <1>2 DEF owner, stage, device
  <2>2. Service!Reconfigure(1)
    BY <2>1 DEF Service!Reconfigure, Service!Proceed, owner, stage, device
  <2>. QED BY <2>2 DEF Service!Next
<1>. QED BY <1>1, <1>2, ReleaseServes

\* No path of the setup phase, and none that ends a connection, does anything
\* to the slot that the service does not allow (handle_setup_end(),
\* handle_quit(), client_close(), client_data()'s error path).
THEOREM ServiceOfSlot == Spec => ImplementsService
<1>1. Init => Service!Init
  BY DEF Init, Service!Init, Service!Unused
<1>2. IInv /\ [Next]_vars => [Service!Next]_Service!vars
  <2>1. SUFFICES ASSUME IInv, [Next]_vars PROVE [Service!Next]_Service!vars
    OBVIOUS
  <2>2. CASE UNCHANGED vars
    BY <2>2, Stutters DEF vars
  <2>3. CASE \/ \E a \in Axis, info \in AbsInfo : HandleAbsinfo(a, info)
             \/ \E n \in Name : HandleDevice(n)
             \/ \E e \in Event : HandleRequestEvent(e)
    BY <2>3, Stutters DEF HandleAbsinfo, HandleDevice, Configure, HandleRequestEvent
  <2>4. CASE VisitFreeSlot
    BY <2>4, Stutters DEF VisitFreeSlot, Closed
  <2>5. CASE HangUp \/ ProtocolError \/ EventsLost
    BY <2>5, ReleaseServes DEF HangUp, Closed, ProtocolError, EventsLost, Dropped
  <2>6. CASE Quit
    BY <2>6, ReleaseServes, QuitServes DEF Quit, Closed
  <2>7. CASE Restart
    BY <2>7, ShutdownServes DEF Restart
  <2>. QED
    BY <2>1, <2>2, <2>3, <2>4, <2>5, <2>6, <2>7, HelloServes, HelloLostServes,
       SetupEndServes, SetupRequiredServes DEF Next
<1>. QED
  BY <1>1, <1>2, SetupInductive, PTL DEF Spec, ImplementsService, Service!Spec
=============================================================================
