------------------------------ MODULE RouteTable ------------------------------
(***************************************************************************)
(* The routing table: RouterThread::BuildRoutes sorts the routes by input, *)
(* port, sender and OSC path, one route after the other, and               *)
(* ProcessRecvPacket with AddRoutingDestinations finds the destinations of *)
(* a packet by a few look-ups in it.                                       *)
(*                                                                         *)
(* The five tables by input protocol (routesByPort for UDP and TCP, and    *)
(* those of sACN, ArtNet, MIDI and OTP) and the maps nested in each are    *)
(* one function of a key.  A sender is a number, 0 when a route gives none *)
(* and for packets without one.  A packet that is not OSC, or has no path, *)
(* has the path NoPath, which is also that of a route without path.  The   *)
(* threads that send to a destination are left out.                        *)
(***************************************************************************)
EXTENDS Naturals, Sequences, FiniteSets

CONSTANTS
  RouteCount, \* number of routes
  Protocols,  \* some of "OSC", "PSN", "sACN", "ArtNet", "MIDI", "OTP"
  Ports,      \* ports, or universes
  Senders,    \* IP addresses as numbers
  Paths,      \* OSC paths
  Wildcards,  \* those with a '*'
  Covers,     \* per wildcard the paths it matches
  NoPath,
  None

ASSUME RouteAssumption ==
  /\ RouteCount \in Nat
  /\ Senders \subseteq Nat /\ 0 \in Senders
  /\ Wildcards \subseteq Paths
  /\ Covers \in [Wildcards -> SUBSET Paths]
  /\ NoPath \notin Paths

\* The table of a protocol: OSC and PSN share routesByPort.
TableOf(protocol) == IF protocol \in {"OSC", "PSN"} THEN "port" ELSE protocol
Tables == {TableOf(protocol) : protocol \in Protocols}

\* Router::sRoute, as far as BuildRoutes sorts by it.
TableRoute == [enable: BOOLEAN, protocol: Protocols, port: Ports, ip: Senders, path: Paths \cup {NoPath}]
RoutePacket == [table: Tables, port: Ports, ip: Senders, path: Paths \cup {NoPath}]
Key == [table: Tables, port: Ports, ip: Senders, wild: BOOLEAN, path: Paths \cup {NoPath}]

VARIABLES
  routes,   \* m_Routes
  muted,    \* the routes whose destination is muted
  position, \* the route BuildRoutes is at, RouteCount + 1 once the table is built
  index,    \* the tables: per key the routes, by number
  udpIn,    \* per port the EosUdpInThread that listens there, or None
  packet,   \* the packet processed last, or None
  sentTo    \* where it was sent: the entries of the tables

routeVars == <<routes, muted, position, index, udpIn, packet, sentTo>>

RouteInit ==
  /\ routes \in [1..RouteCount -> TableRoute]
  /\ muted \in SUBSET (1..RouteCount)
  /\ position = 1
  /\ index = [k \in Key |-> <<>>]
  /\ udpIn = [port \in Ports |-> None]
  /\ packet = None
  /\ sentTo = {}

-----------------------------------------------------------------------------
(* RouterThread::BuildRoutes.                                              *)

\* The first route of a port starts its thread, on its own address and for its own
\* protocol; the others are added to it, for their state to be shown.
Listening(r, n, threads) ==
  IF TableOf(r.protocol) # "port" THEN threads
  ELSE IF threads[r.port] = None
       THEN [threads EXCEPT ![r.port] = [ip |-> r.ip, protocol |-> r.protocol, ids |-> {n}]]
       ELSE [threads EXCEPT ![r.port].ids = @ \cup {n}]

KeyOf(r) == [table |-> TableOf(r.protocol), port |-> r.port, ip |-> r.ip, wild |-> r.path \in Wildcards,
             path |-> r.path]

\* Mutant: destinations are put in front.
AddRouteInFront ==
  /\ position \in 1..RouteCount /\ routes[position].enable
  /\ index' = [index EXCEPT ![KeyOf(routes[position])] = <<position>> \o @]
  /\ udpIn' = Listening(routes[position], position, udpIn)
  /\ position' = position + 1
  /\ UNCHANGED <<routes, muted, packet, sentTo>>

AddRoute ==
  /\ position \in 1..RouteCount /\ routes[position].enable
  /\ index' = [index EXCEPT ![KeyOf(routes[position])] = Append(@, position)]
  /\ udpIn' = Listening(routes[position], position, udpIn)
  /\ position' = position + 1
  /\ UNCHANGED <<routes, muted, packet, sentTo>>

SkipDisabled ==
  /\ position \in 1..RouteCount /\ ~routes[position].enable
  /\ position' = position + 1
  /\ UNCHANGED <<routes, muted, index, udpIn, packet, sentTo>>

-----------------------------------------------------------------------------
(* RouterThread::ProcessRecvPacket.                                        *)

\* Mutant: the routes for any sender are looked up also when these were the sender's.
PassesTwice(p) == {"sender", "any"}

\* Routes for the sender, and then those for any sender.
Passes(p) == IF p.ip = 0 THEN {"sender"} ELSE {"sender", "any"}

\* AddRoutingDestinations: the keys that are looked up, each once.
LookedUp(p, pass) ==
  LET key(wild, path) == [table |-> p.table, port |-> p.port,
                          ip |-> IF pass = "any" THEN 0 ELSE p.ip, wild |-> wild, path |-> path]
  IN  {key(FALSE, p.path), key(FALSE, NoPath)}
      \cup {key(TRUE, w) : w \in {v \in Wildcards : p.path \in Covers[v]}}

\* One entry of `sent` for each time a destination is reached.
Destinations(p) ==
  UNION {UNION {{[pass |-> pass, key |-> k, at |-> j] : j \in DOMAIN index[k]} :
                k \in LookedUp(p, pass)} : pass \in Passes(p)}

ProcessRecvPacket(p) ==
  /\ position = RouteCount + 1
  /\ packet' = p
  /\ sentTo' = {d \in Destinations(p) : index[d.key][d.at] \notin muted}
  /\ UNCHANGED <<routes, muted, position, index, udpIn>>

-----------------------------------------------------------------------------

RouteNext == AddRoute \/ SkipDisabled \/ \E p \in RoutePacket : ProcessRecvPacket(p)

RouteSpec == RouteInit /\ [][RouteNext]_routeVars

-----------------------------------------------------------------------------

Entry == [pass: {"sender", "any"}, key: Key, at: Nat]
UdpIn == [ip: Senders, protocol: Protocols, ids: SUBSET (1..RouteCount)]

RouteTypeOK ==
  /\ routes \in [1..RouteCount -> TableRoute]
  /\ muted \subseteq 1..RouteCount
  /\ position \in 1..(RouteCount + 1)
  /\ index \in [Key -> Seq(1..RouteCount)]
  /\ udpIn \in [Ports -> UdpIn \cup {None}]
  /\ packet \in RoutePacket \cup {None}
  /\ \A d \in sentTo : d \in Entry

\* What a route says of the packets it is for: its source matches, field by field.
IsFor(r, p) ==
  /\ r.enable
  /\ TableOf(r.protocol) = p.table /\ r.port = p.port
  /\ r.ip \in {0, p.ip}
  /\ \/ r.path = NoPath
     \/ r.path \in Wildcards /\ p.path \in Covers[r.path]
     \/ r.path \notin Wildcards /\ r.path = p.path

\* A packet goes once to the destination of every route it is for, unless that is
\* muted, and nowhere else, however the routes share ports, senders and paths.
RoutedExactlyOnce ==
  packet # None =>
    \A r \in 1..RouteCount :
      Cardinality({d \in sentTo : index[d.key][d.at] = r})
        = IF IsFor(routes[r], packet) /\ r \notin muted THEN 1 ELSE 0

\* Routes with the same source are served in the order in which they are listed.
ServedInOrder ==
  \A k \in Key : \A j, l \in DOMAIN index[k] : j < l => index[k][j] < index[k][l]
=============================================================================
