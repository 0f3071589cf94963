------------------------------ MODULE MCThreads ------------------------------
(***************************************************************************)
(* The threads of the router that run for themselves: those of UDP, the    *)
(* ones that send and receive sACN, and the one that reads sockets.  They  *)
(* share nothing, so that each behaviour is one of one of them.            *)
(***************************************************************************)
EXTENDS UdpThreads, SacnOutput, SacnSockets, TLC

VARIABLE active

allVars == <<active, vars, sacnOutVars, setup, sockVars>>

AllToAll == [p \in Port |-> Dst]

MCPacket(offset, mode, priority, args) ==
  [offset |-> offset, mode |-> mode, priority |-> priority, args |-> args, universe |-> NoUniverse]

MCOutPackets ==
  <<{MCPacket(1, "plain", 1, <<1, 1>>), MCPacket(0, "priority", 2, <<1>>),
     MCPacket(0, "perChannelPriority", 2, <<1>>)},
    {[MCPacket(0, "priority", 1, <<>>) EXCEPT !.universe = [c \in Channel |-> 1]]}>>

MCSetups ==
  {[platform |-> "mac", universes |-> <<"u1">>, ifaces |-> <<"i1">>, listed |-> <<"i1">>],
   [platform |-> "windows", universes |-> <<"u1", "u2">>, ifaces |-> <<"i1">>, listed |-> <<>>]}

\* The ones that a behaviour is not about are in a state in which nothing of them goes on: the
\* router thread has ended, output is muted, no socket could be made.
MCInit ==
  /\ active \in {"udp", "output", "sockets"}
  /\ IF active = "udp" THEN Init
     ELSE /\ reconnects = FALSE /\ muteIncoming = FALSE
          /\ in = [p \in Port |-> Gone] /\ out = [d \in Dst |-> Gone]
          /\ main = [pc |-> "done", run |-> FALSE, muteIncoming |-> FALSE, at |-> 0, running |-> TRUE,
                     recvQ |-> <<>>, todo |-> {}]
          /\ shown = [in |-> [p \in Port |-> "not_connected"], out |-> [d \in Dst |-> "not_connected"]]
          /\ from = <<>> /\ wire = [d \in Dst |-> <<>>]
          /\ accepted = [d \in Dst |-> {}] /\ unopened = [d \in Dst |-> {}]
  /\ IF active = "output" THEN SacnOutputInit
     ELSE /\ streams = <<>> /\ seqs = NoSequence /\ output = NoOutput
          /\ reachable = FALSE /\ muteOut = TRUE /\ at = 0 /\ sends = 0
          /\ receiver = [n \in Number |-> Unseen]
  /\ IF active = "sockets" THEN SocketsInit
     ELSE /\ setup = CHOOSE s \in Setups : s.platform = "windows"
          /\ sockmap = [id \in Ids |-> NoEntry] /\ buffer = [id \in Ids |-> <<>>]
          /\ subs = {} /\ connected = {} /\ lastHeard = {} /\ pnotify = TRUE /\ nullCall = FALSE
          /\ listeners = [id \in Ids |-> [pc |-> "none"]] /\ overlaps = [id \in Ids |-> "none"]
          /\ reader = [pc |-> "idle", ready |-> {}]
          /\ router = [at |-> "run", universe |-> 1, iface |-> 1]

MCNext ==
  /\ UNCHANGED active
  /\ \/ active = "udp" /\ Next /\ UNCHANGED <<sacnOutVars, setup, sockVars>>
     \/ active = "output" /\ SacnOutputNext /\ UNCHANGED <<vars, setup, sockVars>>
     \/ active = "sockets" /\ SocketsNext /\ UNCHANGED <<vars, sacnOutVars>>

\* The fairness of the one that a behaviour is about.
MCSpec ==
  /\ MCInit /\ [][MCNext]_allVars
  /\ \/ active = "udp" /\ UdpFairness
     \/ active = "output" /\ SacnOutputFairness
     \/ active = "sockets" /\ SocketsFairness
=============================================================================
