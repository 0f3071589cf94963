------------------------------ MODULE MCNetwork ------------------------------
(***************************************************************************)
(* What the router receives of sACN: the levels of a universe, through its *)
(* sockets on each kind of platform and with the buffers of one.  They     *)
(* share nothing, so that each behaviour is one of one of them.            *)
(***************************************************************************)
EXTENDS SacnReceive, SacnSockets, SocketBuffers, TLC

CONSTANTS
  Parts,   \* the inputs that a run is about
  t1       \* the socket thread of sACN

VARIABLE active

allVars == <<active, vars, setup, sockVars, bufVars>>

\* The slots of a packet are all alike, so one channel is enough.  Two sources, of which the
\* one with the smaller CID sends priorities; and one that sends both.
TwoSources == [s \in 1..2 |-> IF s = 1 THEN {"dmx", "priority"} ELSE {"dmx"}]
LevelsAndPriorities == [s \in 1..1 |-> {"dmx", "priority"}]

\* Room is 1, so that with two universes a second socket is needed for one interface.
MCSetups ==
  {[platform |-> "mac", universes |-> <<"u1", "u2">>, ifaces |-> <<"i1">>, listed |-> <<"i1">>],
   [platform |-> "linux", universes |-> <<"u1">>, ifaces |-> <<"i1">>, listed |-> <<>>],
   [platform |-> "windows", universes |-> <<"u1">>, ifaces |-> <<"i1", "i2">>,
    listed |-> <<"i1", "i2">>]}

\* Both sources can be overtaken, but once one of them was, the race of the other is the same
\* again: it is enough that the one with both start codes leaves something behind.
RacesOfFirst == ghosts \cup pcpGhosts \subseteq {1}

MCInit ==
  /\ active \in Parts
  /\ Init /\ SocketsInit /\ BufInit
  /\ active # "sockets" => setup = CHOOSE s \in Setups : TRUE

MCNext ==
  /\ UNCHANGED active
  /\ \/ active = "levels" /\ Next /\ UNCHANGED <<setup, sockVars, bufVars>>
     \/ active = "sockets" /\ SocketsNext /\ UNCHANGED <<vars, bufVars>>
     \/ active = "buffers" /\ BufNext /\ UNCHANGED <<vars, setup, sockVars>>

MCSpec == MCInit /\ [][MCNext]_allVars

\* For what must come to an end, with the fairness of SacnReceive.
MCFairSpec == MCSpec /\ ReceiveFairness

=============================================================================
