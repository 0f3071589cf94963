-------------------------------- MODULE MCLive --------------------------------
(***************************************************************************)
(* What the sources of sACN and the connections of TCP must come to in the *)
(* end.  They share nothing, so that each behaviour is one of one of them. *)
(***************************************************************************)
EXTENDS SacnReceive, TLC

CONSTANTS Addr, Configured, Dst, Reconnects, MaxTcp, MaxFrames, Gone, t1

VARIABLES active, tcps, deleted, addrOf, threads, thread, clientAt, server, main, frames, gotBy, taken,
          wire, dropped

Connections == INSTANCE TcpConnections WITH routed <- taken

connectionVars ==
  <<tcps, deleted, addrOf, threads, thread, clientAt, server, main, frames, gotBy, taken, wire, dropped>>
allVars == <<active, vars, connectionVars>>

\* One source, which sends levels and something else.
MCCodes == [s \in 1..1 |-> {"dmx", "other"}]

MCInit == active \in {"tcp", "sacn"} /\ Init /\ Connections!Init

MCNext ==
  /\ UNCHANGED active
  /\ \/ active = "tcp" /\ Connections!Next /\ UNCHANGED vars
     \/ active = "sacn" /\ Next /\ UNCHANGED connectionVars

\* The fairness of the one that a behaviour is about, as each has it.
MCSpec ==
  /\ MCInit /\ [][MCNext]_allVars
  /\ WF_connectionVars(active = "tcp" /\ Connections!Server)
  /\ WF_connectionVars(active = "tcp" /\ Connections!Main)
  /\ \A n \in Connections!Thread : WF_connectionVars(active = "tcp" /\ Connections!Client(n))
  /\ WF_vars(active = "sacn" /\ Router)
  /\ SF_vars(active = "sacn" /\ StartLoopWithPoll)
  /\ WF_vars(active = "sacn" /\ UniverseData(t1))
  /\ WF_vars(active = "sacn" /\ 1 \in silent /\ DataTimer(1))

ThreadsAreReaped == Connections!ThreadsAreReaped

=============================================================================
