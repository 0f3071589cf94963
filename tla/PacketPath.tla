------------------------------ MODULE PacketPath ------------------------------
(***************************************************************************)
(* What the router promises of packets that are passed on over UDP, with   *)
(* its threads and queues left out: a packet may be lost on the way, but   *)
(* to each destination the packets of a port are sent once each at most,   *)
(* and in the order in which they were received.                           *)
(*                                                                         *)
(* Packets are numbered as they are received.                              *)
(***************************************************************************)
EXTENDS Naturals, Sequences, SequencesExt

CONSTANTS
  Port,   \* the ports that are received on
  Dst,    \* the destinations that are sent to
  To      \* the destinations of the packets of a port

VARIABLES
  from,   \* per packet, in the order of their numbers, the port it was received on
  wire    \* per destination the packets sent

pathVars == <<from, wire>>

Init ==
  /\ from = <<>>
  /\ wire = [d \in Dst |-> <<>>]

Receive(p) ==
  /\ from' = Append(from, p)
  /\ UNCHANGED wire

\* Packet n overtakes no packet of its own port.
Send(d, n) ==
  /\ n \in DOMAIN from
  /\ d \in To[from[n]]
  /\ \A m \in Range(wire[d]) : from[m] = from[n] => m < n
  /\ wire' = [wire EXCEPT ![d] = Append(@, n)]
  /\ UNCHANGED from

Next ==
  \/ \E p \in Port : Receive(p)
  \/ \E d \in Dst, n \in DOMAIN from : Send(d, n)

Spec == Init /\ [][Next]_pathVars
=============================================================================
