---------------------------------- MODULE Otp ----------------------------------
(***************************************************************************)
(* OTP: the producer and the consumer of the otp library, which adverts    *)
(* tell what to send, and RecvOTP, which routes the points that a turn of  *)
(* MainLoop has received.  SendOTP of the router is one of the producers,  *)
(* the others are consoles that behave alike.                              *)
(*                                                                         *)
(* A frame is a system and the number of a point in it; the point is a     *)
(* priority and the modules it has, with their values.                     *)
(***************************************************************************)
EXTENDS Naturals, Sequences, FiniteSets, SequencesExt, FiniteSetsExt, Functions

CONSTANTS
  OtpProducer,    \* CIDs of producers
  OtpConsumer,    \* CIDs of consumers, the router's among them
  OtpSystem,      \* system numbers
  OtpPoint,       \* point numbers
  Listening,      \* the systems that the router has input routes for
  ModuleType,
  OtpPriority,
  OtpModules,     \* the modules a point may have: functions from module types to values
  OtpTypes,       \* the sets of module types that consumers ask for
  MaxSets,        \* bound on the points that are set
  MaxOtpSocket    \* bound on the datagrams that wait to be read

OtpFrame == OtpSystem \X OtpPoint
OtpPointOf == [priority: OtpPriority, modules: OtpModules]

ASSUME OtpAssumption ==
  /\ OtpSystem \subseteq Nat /\ IsFiniteSet(OtpSystem) /\ Listening \subseteq OtpSystem
  /\ OtpPoint \subseteq Nat /\ OtpPriority \subseteq Nat
  /\ \A m \in OtpModules : m # <<>> /\ DOMAIN m \subseteq ModuleType
  /\ OtpTypes \subseteq SUBSET ModuleType
  /\ MaxSets \in Nat /\ MaxOtpSocket \in Nat

VARIABLES
  otpConsumers,  \* Producer::consumers_: per producer the module types of those it knows
  otpMods,       \* Producer::mods_
  otpPoints,     \* Producer::props_.data: per producer its points by frame
  otpSocket,     \* datagrams that the router's consumer has not read yet
  otpSystems,    \* Consumer::systems_: points by frame, with their owner
  otpRouted,     \* per frame the values of modules that were routed last
  otpHistory     \* [sets, repaired]: see OtpTypeOK

otpVars == <<otpConsumers, otpMods, otpPoints, otpSocket, otpSystems, otpRouted, otpHistory>>

OtpInit ==
  /\ otpConsumers = [p \in OtpProducer |-> <<>>]
  /\ otpMods = [p \in OtpProducer |-> {}]
  /\ otpPoints = [p \in OtpProducer |-> <<>>]
  /\ otpSocket = <<>>
  /\ otpSystems = <<>>
  /\ otpRouted = [f \in OtpFrame |-> <<>>]
  /\ otpHistory = [sets |-> 0, repaired |-> {}]

\* A function with one more value.
With(f, x, y) == [z \in DOMAIN f \cup {x} |-> IF z = x THEN y ELSE f[z]]

\* A function over another.
Overlaid(g, f) == [z \in DOMAIN g \cup DOMAIN f |-> IF z \in DOMAIN g THEN g[z] ELSE f[z]]

-----------------------------------------------------------------------------
(* The producer.                                                           *)

\* Mutant: only what the consumer adds.
ModuleTypesAdded(old, consumers) == old \cup UNION Range(consumers)

\* UpdateModulesTypes.
ModuleTypes(old, consumers) == UNION Range(consumers)

\* HandleAdvert, for the module types a consumer asks for.  A consumer that is known by them
\* already only has its time renewed.
HandleAdvert(p, c, types) ==
  LET known == c \in DOMAIN otpConsumers[p]
      old   == IF known THEN otpConsumers[p][c] ELSE {}
  IN  /\ ~known \/ old # types
      /\ otpConsumers' = [otpConsumers EXCEPT ![p] = With(@, c, types)]
      /\ otpMods' = IF old # types
                    THEN [otpMods EXCEPT ![p] = ModuleTypes(@, otpConsumers'[p])] ELSE otpMods
      /\ otpHistory' = [otpHistory EXCEPT !.repaired = @ \ ({p} \X OtpSystem)]
      /\ UNCHANGED <<otpPoints, otpSocket, otpSystems, otpRouted>>

\* TickConsumers: no advert of the consumer for kAdvertDataLossTimeout.
ExpireConsumer(p, c) ==
  /\ c \in DOMAIN otpConsumers[p]
  /\ otpConsumers' = [otpConsumers EXCEPT ![p] = Restrict(@, DOMAIN @ \ {c})]
  /\ otpMods' = IF otpConsumers[p][c] # {}
                THEN [otpMods EXCEPT ![p] = ModuleTypes(@, otpConsumers'[p])] ELSE otpMods
  /\ otpHistory' = [otpHistory EXCEPT !.repaired = @ \ ({p} \X OtpSystem)]
  /\ UNCHANGED <<otpPoints, otpSocket, otpSystems, otpRouted>>

\* applyFilter.
Filtered(point, mods) == [point EXCEPT !.modules = Restrict(@, DOMAIN @ \cap mods)]

\* SendPoints for one system: a datagram of its points that are left after the filter.
Datagram(p, s, points, mods) ==
  LET sent == [f \in {f \in DOMAIN points : f[1] = s} |-> Filtered(points[f], mods)]
      left == {f \in DOMAIN sent : sent[f].modules # <<>>}
  IN  [cid |-> p, system |-> s, points |-> Restrict(sent, left)]

\* The datagrams of all systems that have points left.
Datagrams(p, points) ==
  {d \in {Datagram(p, s, points, otpMods[p]) : s \in OtpSystem} : d.points # <<>>}

\* What a resend of a producer sends of a system.
Resent(p, s) == Datagram(p, s, otpPoints[p], otpMods[p])

\* They are sent in the order of the systems, and any of them may be lost; the router receives
\* the groups it has joined.
Sent(datagrams) ==
  \E got \in SUBSET {d \in datagrams : d.system \in Listening} :
    \E arrived \in [1..Cardinality(got) -> got] :
      /\ \A i, j \in DOMAIN arrived : i < j => arrived[i].system < arrived[j].system
      /\ otpSocket' = otpSocket \o arrived
      /\ Len(otpSocket') <= MaxOtpSocket

\* SetPoint, and the datagram of the point alone.
SetPoint(p, f, point) ==
  /\ otpHistory.sets < MaxSets
  /\ f \in DOMAIN otpPoints[p] => otpPoints[p][f] # point
  /\ otpPoints' = [otpPoints EXCEPT ![p] = With(@, f, point)]
  /\ Sent(Datagrams(p, With(<<>>, f, point)))
  /\ otpHistory' = [sets |-> otpHistory.sets + 1, repaired |-> otpHistory.repaired \ {<<p, f[1]>>}]
  /\ UNCHANGED <<otpConsumers, otpMods, otpSystems, otpRouted>>

\* TickResend, every kTransformRate.
TickResend(p) ==
  /\ otpMods[p] # {} /\ otpPoints[p] # <<>>
  /\ Sent(Datagrams(p, otpPoints[p]))
  /\ UNCHANGED <<otpConsumers, otpMods, otpPoints, otpSystems, otpRouted, otpHistory>>

-----------------------------------------------------------------------------
(* The consumer and RecvOTP.                                               *)

FirstFrame(points) == CHOOSE f \in DOMAIN points : \A g \in DOMAIN points : f[2] <= g[2]

\* FromDatagramTransform.  The loop that reads the modules of the first point takes the
\* points behind it for modules of another manufacturer, and skips past the end: by as many
\* bytes again as it has read, which is the end for the points of up to five positions.
FromDatagram(d) == [frame |-> FirstFrame(d.points), point |-> d.points[FirstFrame(d.points)]]

\* MergeTransform for a point of a group: the consumer's points, and what the callback gets,
\* which is the new point even where the existing one is kept.  `recv` is m_OTPRecv.
Merged(st, f, new) ==
  LET existing == st.systems[f]
      replaced == \/ f \notin DOMAIN st.systems
                  \/ /\ new.priority >= existing.priority \/ existing.expired
                     /\ [existing EXCEPT !.expired = FALSE] # new
  IN  [systems |-> IF replaced THEN With(st.systems, f, new) ELSE st.systems,
       recv    |-> With(st.recv, f, new)]

\* TickTransform: each datagram that waits is read.
Read(st, d) ==
  LET first == FromDatagram(d)
  IN  Merged(st, first.frame, [cid |-> d.cid, priority |-> first.point.priority,
                               modules |-> first.point.modules, expired |-> FALSE])

TickTransform(systems, datagrams) ==
  LET after[n \in 0..Len(datagrams)] ==
        IF n = 0 THEN [systems |-> systems, recv |-> <<>>] ELSE Read(after[n - 1], datagrams[n])
  IN  after[Len(datagrams)]

\* The packets of RecvOTP: one for every module of every point.
RoutedWith(old, recv) ==
  [f \in OtpFrame |-> IF f \in DOMAIN recv THEN Overlaid(recv[f].modules, old[f]) ELSE old[f]]

\* RecvOTP.  With incoming muted, what the tick received is dropped.
RecvOTP(mute) ==
  /\ otpSocket # <<>>
  /\ \E st \in {TickTransform(otpSystems, otpSocket)} :
       /\ otpSystems' = st.systems
       /\ otpRouted' = IF mute THEN otpRouted ELSE RoutedWith(otpRouted, st.recv)
       /\ LET whole == {ps \in OtpProducer \X OtpSystem :
                          /\ Last(otpSocket) = Resent(ps[1], ps[2])
                          /\ otpMods[ps[1]] # {}}
          IN  otpHistory' = [otpHistory EXCEPT !.repaired = IF mute THEN @ ELSE @ \cup whole]
  /\ otpSocket' = <<>>
  /\ UNCHANGED <<otpConsumers, otpMods, otpPoints>>

\* Point::isExpired: not stored anew for kTransformDataLossTimeout, whatever has come since.
ExpirePoint(f) ==
  /\ f \in DOMAIN otpSystems /\ ~otpSystems[f].expired
  /\ otpSystems' = [otpSystems EXCEPT ![f].expired = TRUE]
  /\ UNCHANGED <<otpConsumers, otpMods, otpPoints, otpSocket, otpRouted, otpHistory>>

OtpNext ==
  \/ \E p \in OtpProducer : \E c \in OtpConsumer : \E types \in OtpTypes : HandleAdvert(p, c, types)
  \/ \E p \in OtpProducer : \E c \in OtpConsumer : ExpireConsumer(p, c)
  \/ \E p \in OtpProducer : \E f \in OtpFrame : \E point \in OtpPointOf : SetPoint(p, f, point)
  \/ \E p \in OtpProducer : TickResend(p)
  \/ \E mute \in BOOLEAN : RecvOTP(mute)
  \/ \E f \in OtpFrame : ExpirePoint(f)

OtpSpec == OtpInit /\ [][OtpNext]_otpVars

-----------------------------------------------------------------------------
(* Properties.                                                             *)
OtpStored == [cid: OtpProducer, priority: OtpPriority, expired: BOOLEAN,
              modules: UNION {[types -> UNION {Range(m) : m \in OtpModules}] :
                                types \in (SUBSET ModuleType) \ {{}}}]

OtpTypeOK ==
  /\ \A p \in OtpProducer :
       /\ DOMAIN otpConsumers[p] \subseteq OtpConsumer /\ Range(otpConsumers[p]) \subseteq OtpTypes
       /\ otpMods[p] \subseteq ModuleType
       /\ DOMAIN otpPoints[p] \subseteq OtpFrame /\ Range(otpPoints[p]) \subseteq OtpPointOf
  /\ DOMAIN otpSystems \subseteq Listening \X OtpPoint /\ Range(otpSystems) \subseteq OtpStored
  /\ otpHistory.sets \in 0..MaxSets
  /\ otpHistory.repaired \subseteq OtpProducer \X OtpSystem

\* The module types that a producer sends are those of the consumers it knows, through all
\* their adverts, changes and expiries (HandleAdvert, TickConsumers, UpdateModulesTypes).
ModsFollow == \A p \in OtpProducer : otpMods[p] = UNION Range(otpConsumers[p])

\* The system is sent by one producer only, and the router got all its points in a resend
\* after the last change.
Repaired(p, s) ==
  /\ <<p, s>> \in otpHistory.repaired
  /\ \A q \in OtpProducer \ {p} : \A f \in DOMAIN otpPoints[q] : f[1] # s

IsRouted(f, point) ==
  \A t \in DOMAIN point.modules : t \in DOMAIN otpRouted[f] /\ otpRouted[f][t] = point.modules[t]

\* Whatever datagrams were lost, expired or muted before, a resend brings the first point of
\* a system up to date (TickResend, FromDatagramTransform, MergeTransform, RecvOTP).
FirstRepaired ==
  \A p \in OtpProducer : \A s \in Listening :
    Repaired(p, s) =>
      LET points == Resent(p, s).points
      IN  IsRouted(FirstFrame(points), points[FirstFrame(points)])

\* The resend brings all points of a system up to date: FromDatagramTransform says of its
\* loop that it reads all points.
AllRepaired ==
  \A p \in OtpProducer : \A s \in Listening :
    Repaired(p, s) =>
      LET points == Resent(p, s).points
      IN  \A f \in DOMAIN points : IsRouted(f, points[f])

\* What a consumer lost is repaired for the first point of a system, and what a producer sends
\* follows what the consumers ask for.
PointsFollow == FirstRepaired /\ ModsFollow

=============================================================================
