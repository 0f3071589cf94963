------------------------------ MODULE MCRouting ------------------------------
(***************************************************************************)
(* What the router thread does with what it has received: the merge of the *)
(* sACN sources, the table of routes, and the frames of TCP connections    *)
(* from their threads to their destination.  They share no state, so that  *)
(* each behaviour is one of one of them.                                   *)
(***************************************************************************)
EXTENDS SacnMerge, RouteTable, TcpConnections, TLC

VARIABLE part

allVars == <<part, mergeVars, routeVars, vars>>

(* Three sources, two channels, three priorities: every order and tie of   *)
(* two and of three sources, with either kind of priority.                 *)
MCChannels == {"c1", "c2"}
MCLevels == {0, 1}
MCPriority == 0..2

Solid(l) == [c \in MCChannels |-> l]

\* The ip of a source is not data of its packets' content; it is picked from 0..N.
Basic == {[priority |-> p, pcp |-> FALSE, channelPriority |-> Solid(0), dmx |-> Solid(l), ip |-> a] :
            p \in MCPriority, l \in MCLevels, a \in {1}}

PerChannel == {[priority |-> 1, pcp |-> TRUE, channelPriority |-> f, dmx |-> Solid(l), ip |-> a] :
                 f \in [MCChannels -> MCPriority], <<l, a>> \in {<<1, 2>>, <<0, 3>>, <<1, 3>>}}

MCInputs == Basic \cup PerChannel

MCLeftovers ==
  {[priority |-> 0, pcp |-> FALSE, channelPriority |-> Solid(0), dmx |-> Solid(0), ip |-> 0],
   [priority |-> 2, pcp |-> TRUE, channelPriority |-> Solid(2), dmx |-> Solid(1), ip |-> 3]}

(* Two routes, and paths of which the wildcard covers all, itself as the   *)
(* path of a packet included.                                              *)
MCPaths == {"a", "*"}
MCWildcards == {"*"}
MCCovers == [w \in MCWildcards |-> MCPaths]
\* What else a disabled route says makes no difference.
NoRoute == [protocol |-> "OSC", port |-> 1, ip |-> 0, path |-> NoPath, enable |-> FALSE]

MCInit ==
  /\ part \in {"merge", "routes", "frames"}
  /\ part # "merge" => source = [s \in 1..N |-> Absent]
  /\ part # "routes" => routes = [r \in 1..RouteCount |-> NoRoute] /\ muted = {}
  /\ MergeInit /\ RouteInit /\ Init
  /\ \A r \in 1..RouteCount : routes[r].enable \/ routes[r] = NoRoute

MCNext ==
  /\ UNCHANGED part
  /\ \/ part = "merge" /\ MergeNext /\ UNCHANGED <<routeVars, vars>>
     \/ part = "routes" /\ RouteNext /\ UNCHANGED <<mergeVars, vars>>
     \/ part = "frames" /\ Next /\ UNCHANGED <<mergeVars, routeVars>>

MCSpec == MCInit /\ [][MCNext]_allVars
=============================================================================
