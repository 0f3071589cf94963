------------------------------ MODULE OtpRelay ------------------------------
(***************************************************************************)
(* What Otp leaves out: the bytes of the datagrams, and the way of a point *)
(* through routers.  RecvOTP makes a packet of every module of a point,    *)
(* SendOTP a point of every packet, and the next router reads what the     *)
(* first has sent, for the module types its adverts ask for.               *)
(*                                                                         *)
(* A datagram is the sequence of its bytes.  Numbers are smaller than      *)
(* 65536; timestamps, CIDs and names, which nothing here looks at, are 0.  *)
(***************************************************************************)
EXTENDS Otp

CONSTANTS
  RelayPoints,   \* sequences of [group, point, priority, modules], sorted as the producer has them
  RelayTypes,    \* the sets of module types that consumers ask for
  RelayOsc,      \* packets that are there from other inputs
  MaxRelay       \* bound on the routers

VARIABLES
  relayFirst,    \* what the console has set
  relayAdvert,   \* the advert of every consumer
  relaySocket,   \* the datagrams that the router has not read
  relayPackets,  \* the packets that RecvOTP made, not sent yet
  relaySeen,     \* all of them, of this router
  relayTicks,    \* the numbers of datagrams that ticks have read
  relaySet,      \* Producer::props_: the points of this router, by <<group, point>>
  relayNext,     \* the datagrams that this router has sent
  relayHops

relayVars == <<relayFirst, relayAdvert, relaySocket, relayPackets, relaySeen, relayTicks,
               relaySet, relayNext, relayHops>>

-----------------------------------------------------------------------------
(* Bytes.                                                                  *)
Bytes(n, size) ==
  [i \in 1..size |-> IF i = size THEN n % 256 ELSE IF i = size - 1 THEN n \div 256 ELSE 0]

\* The number of `size` bytes behind the first `at`.
Number(b, at, size) == FoldLeft(LAMBDA n, x : 256 * n + x, 0, SubSeq(b, at + 1, at + size))

\* A layer: its length, which does not count itself, and what is in it.
Measured(layer) == Bytes(Len(layer), 2) \o layer

Kinds == <<"pos", "posVelAccel", "rot", "rotVelAccel", "scale", "frame">>
KindNumber(kind) == CHOOSE k \in DOMAIN Kinds : Kinds[k] = kind

\* The sizes of the numbers of a module.
Widths(kind) ==
  CASE kind = "frame"                            -> <<1, 2, 4>>
    [] kind \in {"posVelAccel", "rotVelAccel"} -> <<4, 4, 4, 4, 4, 4>>
    [] OTHER                                     -> <<4, 4, 4>>

\* A position has its options before it.
Options(kind) == IF kind = "pos" THEN 1 ELSE 0

\* The offset of a number in a module.
Offset(kind, i) == Options(kind) + FoldLeft(+, 0, SubSeq(Widths(kind), 1, i - 1))
BodySize(kind) == Offset(kind, Len(Widths(kind)) + 1)

-----------------------------------------------------------------------------
(* Message::ToDatagram.                                                    *)
kHeader == <<79, 84, 80, 45, 69, 49, 46, 53, 57, 0, 0, 0>>
LayerSize == 79
kMessageTypeTransform == 1
kMessageTypeAdvert == 2

\* Footer, CID, folio, page, last page, options, reserved, name.
ToDatagram(type, layer) ==
  kHeader \o Bytes(type, 2) \o Measured(Bytes(0, 2 + 16 + 4 + 2 + 2 + 1 + 4 + 32) \o layer)

ToModule(kind, values) ==
  Bytes(0, 2) \o Measured(Bytes(KindNumber(kind), 2) \o Bytes(0, Options(kind)) \o
    FlattenSeq([i \in DOMAIN Widths(kind) |-> Bytes(values[i], Widths(kind)[i])]))

\* The modules of a point in the order of their types.
SortedKinds(modules) == SelectSeq(Kinds, LAMBDA k : k \in DOMAIN modules)

ToPoint(p) ==
  LET kinds == SortedKinds(p.modules)
  IN  Bytes(1, 2) \o Measured(Bytes(p.priority, 1) \o Bytes(p.group, 2) \o Bytes(p.point, 4) \o
        Bytes(0, 8 + 1 + 4) \o
        FlattenSeq([i \in DOMAIN kinds |-> ToModule(kinds[i], p.modules[kinds[i]])]))

ToDatagramTransform(points) ==
  ToDatagram(kMessageTypeTransform,
    Bytes(1, 2) \o Measured(Bytes(1, 1) \o Bytes(0, 8 + 1 + 4) \o
      FlattenSeq([i \in DOMAIN points |-> ToPoint(points[i])])))

\* Without a module type there is no advert.
ToDatagramAdvert(types) ==
  LET kinds == SelectSeq(Kinds, LAMBDA k : k \in types)
  IN  IF types = {} THEN <<>>
      ELSE ToDatagram(kMessageTypeAdvert,
             Bytes(1, 2) \o Measured(Bytes(0, 4) \o Bytes(1, 2) \o Measured(Bytes(0, 4) \o
               FlattenSeq([i \in DOMAIN kinds |-> Bytes(0, 2) \o Bytes(KindNumber(kinds[i]), 2)]))))

-----------------------------------------------------------------------------
(* Message::FromDatagram.                                                  *)
IsOtp(b, type) == Len(b) >= LayerSize /\ SubSeq(b, 1, 12) = kHeader /\ Number(b, 12, 2) = type

ValuesAt(b, at, kind) ==
  [i \in DOMAIN Widths(kind) |-> Number(b, at + Offset(kind, i), Widths(kind)[i])]

Failed == [ok |-> FALSE, modules |-> <<>>]

\* The loop for the modules of a point, which goes on to the end of the datagram: a layer that
\* is no module of ESTA is skipped by its length and by its position.
RECURSIVE ModulesFrom(_, _, _)
ModulesFrom(b, at, modules) ==
  IF at >= Len(b) THEN [ok |-> TRUE, modules |-> modules]
  ELSE IF at + 6 > Len(b) THEN Failed
  ELSE LET length == Number(b, at + 2, 2)
           type   == Number(b, at + 4, 2)
           body   == at + 6
       IN  IF Number(b, at, 2) # 0 \/ type \notin DOMAIN Kinds
           THEN ModulesFrom(b, body + (at + 4) + length, modules)
           ELSE IF body + BodySize(Kinds[type]) > Len(b) THEN Failed
           ELSE ModulesFrom(b, body + BodySize(Kinds[type]),
                            With(modules, Kinds[type], ValuesAt(b, body, Kinds[type])))

\* The points of a datagram: FromDatagramTransform.  The loop above leaves nothing for a second.
FromDatagramTransform(b) ==
  LET at   == LayerSize + 18
      read == ModulesFrom(b, at + 24, <<>>)
  IN  IF ~IsOtp(b, kMessageTypeTransform) \/ at + 24 > Len(b) THEN <<>>
      ELSE IF ~read.ok THEN <<>>
      ELSE << [group |-> Number(b, at + 5, 2), point |-> Number(b, at + 7, 4),
               priority |-> Number(b, at + 4, 1), modules |-> read.modules] >>

FromDatagramAdvert(b) ==
  IF ~IsOtp(b, kMessageTypeAdvert) THEN {}
  ELSE LET at == LayerSize + 16
       IN  {Kinds[Number(b, at + 4 * i + 2, 2)] : i \in 0..((Len(b) - at) \div 4 - 1)}

-----------------------------------------------------------------------------
(* The packets.                                                            *)

\* RecvOTP: one packet for every module.
PacketsOf(p) ==
  LET kinds == SortedKinds(p.modules)
  IN  [i \in DOMAIN kinds |-> [group |-> p.group, point |-> p.point, priority |-> p.priority,
                               kind |-> kinds[i], args |-> p.modules[kinds[i]]]]

\* The modules that SendOTP makes of a packet.  For a velocity it takes the arguments after
\* the third without a look at how many there are: what is behind them is read as `beyond`.
ModulesOf(packet, beyond) ==
  LET args == packet.args \o beyond
  IN  IF Len(packet.args) < 3 \/ packet.kind \notin ToSet(Kinds)
         \/ Len(args) < Len(Widths(packet.kind))
      THEN <<>> ELSE With(<<>>, packet.kind, SubSeq(args, 1, Len(Widths(packet.kind))))

-----------------------------------------------------------------------------
RelayInit ==
  /\ relayFirst \in RelayPoints
  /\ \E types \in RelayTypes : relayAdvert = ToDatagramAdvert(types)
  /\ relaySocket = <<ToDatagramTransform(relayFirst)>>
  /\ \E osc \in RelayOsc : relayPackets = osc
  /\ relaySeen = {} /\ relayTicks = {} /\ relaySet = <<>> /\ relayNext = <<>> /\ relayHops = 0

\* A tick of the consumer reads some datagrams, of which the last point of each frame is left,
\* and RecvOTP makes the packets.
RecvRelayed(n) ==
  LET points == FlattenSeq([i \in 1..n |-> FromDatagramTransform(relaySocket[i])])
      recv   == FoldLeft(LAMBDA r, p : With(r, <<p.group, p.point>>, p), <<>>, points)
      order  == SetToSortSeq(DOMAIN recv, LAMBDA f, g : f[1] < g[1] \/ (f[1] = g[1] /\ f[2] < g[2]))
  IN  /\ n \in DOMAIN relaySocket
      /\ relaySocket' = SubSeq(relaySocket, n + 1, Len(relaySocket))
      /\ \E packets \in {FlattenSeq([i \in DOMAIN order |-> PacketsOf(recv[order[i]])])} :
           /\ relayPackets' = relayPackets \o packets
           /\ relaySeen' = relaySeen \cup ToSet(packets)
      /\ relayTicks' = relayTicks \cup {n}
      /\ UNCHANGED <<relayFirst, relayAdvert, relaySet, relayNext, relayHops>>

\* SendOTP of the next packet: SetPoint, with the datagram of the point if it has changed and
\* if a consumer asks for its module.
SendOTP ==
  LET packet == Head(relayPackets)
      frame  == <<packet.group, packet.point>>
  IN  /\ relayPackets # <<>>
      /\ relayPackets' = Tail(relayPackets)
      /\ \E beyond \in {<<>>, <<0, 0, 0>>} :
           LET modules == ModulesOf(packet, beyond)
               point   == [group |-> packet.group, point |-> packet.point,
                           priority |-> packet.priority, modules |-> modules]
               left    == Filtered(point, FromDatagramAdvert(relayAdvert))
               changed == frame \notin DOMAIN relaySet \/ relaySet[frame] # point
           IN  IF modules = <<>> THEN UNCHANGED <<relaySet, relayNext>>
               ELSE /\ relaySet' = With(relaySet, frame, point)
                    /\ relayNext' = IF changed /\ left.modules # <<>>
                                    THEN Append(relayNext, ToDatagramTransform(<<left>>))
                                    ELSE relayNext
      /\ UNCHANGED <<relayFirst, relayAdvert, relaySocket, relaySeen, relayTicks, relayHops>>

\* The next router reads what this one has sent.
NextRouter ==
  /\ relaySocket = <<>> /\ relayPackets = <<>> /\ relayHops < MaxRelay
  /\ relaySocket' = relayNext
  /\ relaySeen' = {} /\ relaySet' = <<>> /\ relayNext' = <<>>
  /\ relayHops' = relayHops + 1
  /\ UNCHANGED <<relayFirst, relayAdvert, relayPackets, relayTicks>>

RelayNext ==
  \/ \E n \in DOMAIN relaySocket : RecvRelayed(n)
  \/ SendOTP
  \/ NextRouter

RelaySpec == RelayInit /\ [][RelayNext]_relayVars

-----------------------------------------------------------------------------
(* Properties.                                                             *)

\* What the bytes of the console's datagram are read as is what Otp says: the first point, with
\* all its modules as they were set, and no other (ToDatagramTransform, FromDatagramTransform,
\* RecvOTP).
ReadsFirstPoint ==
  relayHops = 0 /\ relaySocket = <<>> => relaySeen = ToSet(PacketsOf(relayFirst[1]))

\* The packets of the console's point that were asked for.
Wanted == SelectSeq(PacketsOf(relayFirst[1]), LAMBDA p : p.kind \in FromDatagramAdvert(relayAdvert))

OfFirst(packets) ==
  {p \in packets : p.group = relayFirst[1].group /\ p.point = relayFirst[1].point}

\* After any number of routers the packets of a point are those of the console, with its
\* priority and every number as it was, for the module types that are asked for (SendOTP,
\* SetPoint, HandleAdvert, RecvOTP).  They are all there if no tick reads two datagrams, since
\* every datagram has one module and the later one of a tick replaces the point; the last one
\* is there in any case.
RelaySurvives ==
  relayHops > 0 /\ relaySocket = <<>> =>
    /\ OfFirst(relaySeen) \subseteq ToSet(Wanted)
    /\ Wanted # <<>> => Last(Wanted) \in relaySeen
    /\ relayTicks \subseteq {1} => ToSet(Wanted) \subseteq relaySeen

\* An advert asks for what the consumer wants, and for nothing else (ToDatagramAdvert,
\* FromDatagramAdvert): this is what HandleAdvert of Otp is given.
AdvertSurvives == \E types \in RelayTypes : relayAdvert = ToDatagramAdvert(types)
                                            /\ FromDatagramAdvert(relayAdvert) = types
=============================================================================
