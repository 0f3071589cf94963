---------------------------- MODULE TcpConnections ----------------------------
(***************************************************************************)
(* The TCP side of the router: the thread of a TCP server that accepts     *)
(* connections, a thread per connection, configured or accepted, and the   *)
(* router thread that                                                      *)
(*                                                                         *)
(*  - adopts what the server has accepted, replacing the thread that is at *)
(*    the same address (ProcessTcpConnectionQ),                            *)
(*  - visits every connection thread in turn, routes the frames it has     *)
(*    received and deletes it once it has ended (MainLoop), and            *)
(*  - stops and deletes them all when the router is stopped.               *)
(*                                                                         *)
(* EosTcp objects are handed from the server thread to the router thread   *)
(* to a connection thread, each of which may have to delete them.          *)
(*                                                                         *)
(* Every frame is routed to one TCP destination, the address Dst.  A frame *)
(* is a number; what a muted thread receives is never a frame.  Objects    *)
(* are numbered as they are made; 0 is no object.                          *)
(***************************************************************************)
EXTENDS Naturals, Sequences, FiniteSets, SequencesExt

CONSTANTS
  Addr,          \* addresses, in the order of the map of connection threads
  Configured,    \* those that a configured TCP client connects to
  Dst,           \* the destination of the routes
  Reconnects,    \* m_ReconnectDelay # 0
  MaxTcp,        \* bound on accepted connections
  MaxFrames,     \* bound on frames received
  Gone           \* a thread that does not exist

ASSUME TcpAssumption ==
  /\ Addr \subseteq Nat /\ IsFiniteSet(Addr)
  /\ Configured \subseteq Addr
  /\ Dst \in Addr
  /\ Reconnects \in BOOLEAN
  /\ {MaxTcp, MaxFrames} \subseteq Nat

Tcp == 1..MaxTcp
Thread == 1..(Cardinality(Configured) + MaxTcp)
Frame == 1..MaxFrames
Own == MaxTcp + 1    \* an EosTcp that a thread has made itself, and deletes itself

\* An EosTcpClientThread.  `up` is m_State = STATE_CONNECTED, `tcp` the local of run().
ThreadRecord ==
  [addr: Addr, run: BOOLEAN, reconnects: BOOLEAN, accepted: Tcp \cup {0}, tcp: Tcp \cup {0, Own},
   pc: {"loop", "opening", "open", "close", "ended"}, up: BOOLEAN,
   recvQ: Seq(Frame), sendQ: Seq(Frame)]

ASSUME GoneAssumption == Gone \notin ThreadRecord

VARIABLES
  tcps,      \* connections accepted so far, an EosTcp object each
  deleted,   \* how often each was deleted
  addrOf,    \* the address each is from, 0 for those to come
  threads,   \* connection threads made so far
  thread,    \* per thread its record, Gone before it is made and once it is deleted
  clientAt,  \* TCP_CLIENT_THREADS: per address its thread, or 0
  server,    \* the EosTcpServerThread
  main,      \* the router thread
  frames,    \* frames received so far
  gotBy,     \* per thread the frames it has received
  routed,    \* the frames the router thread has routed
  wire,      \* the frames written to Dst
  dropped    \* threads deleted by a replacement or by the shutdown

vars == <<tcps, deleted, addrOf, threads, thread, clientAt, server, main, frames, gotBy,
          routed, wire, dropped>>
tcpVars == <<tcps, deleted, addrOf>>
frameVars == <<frames, gotBy, routed, wire>>

\* EosTcpClientThread::Start.
Started(addr, tcp, reconnects) ==
  [addr |-> addr, run |-> TRUE, reconnects |-> reconnects, accepted |-> tcp, tcp |-> 0,
   pc |-> "loop", up |-> FALSE, recvQ |-> <<>>, sendQ |-> <<>>]

\* The configured address that is the n-th of the map.
Rank(a) == Cardinality({b \in Configured : b <= a})
AtRank(n) == CHOOSE a \in Configured : Rank(a) = n

\* BuildRoutes starts the server and the configured clients.
Init ==
  /\ tcps = 0
  /\ deleted = [t \in Tcp |-> 0]
  /\ addrOf = [t \in Tcp |-> 0]
  /\ threads = Cardinality(Configured)
  /\ thread = [n \in Thread |->
       IF n <= threads THEN Started(AtRank(n), 0, Reconnects) ELSE Gone]
  /\ clientAt = [a \in Addr |->
       IF a \in Configured THEN Rank(a) ELSE 0]
  /\ server = [run |-> TRUE, pc |-> "loop", q |-> <<>>]
  /\ main = [pc |-> "top", run |-> TRUE, running |-> TRUE, connQ |-> <<>>, recvQ |-> <<>>,
             todo |-> {}]
  /\ frames = 0
  /\ gotBy = [n \in Thread |-> <<>>]
  /\ routed = <<>> /\ wire = <<>> /\ dropped = {}

-----------------------------------------------------------------------------
(* EosTcpServerThread::run.                                                *)

ServerChange(new) ==
  /\ server' = new
  /\ UNCHANGED <<tcpVars, threads, thread, clientAt, main, frameVars, dropped>>

ServerListen ==
  /\ server.pc = "loop" /\ server.run
  /\ \E ok \in BOOLEAN : ServerChange([server EXCEPT !.pc = IF ok THEN "listening" ELSE "close"])

\* A connection from a client of some address: its port becomes the server's.
ServerAccept(a) ==
  /\ server.pc = "listening" /\ server.run
  /\ tcps < MaxTcp
  /\ tcps' = tcps + 1
  /\ addrOf' = [addrOf EXCEPT ![tcps + 1] = a]
  /\ server' = [server EXCEPT !.q = Append(@, tcps + 1)]
  /\ UNCHANGED <<deleted, threads, thread, clientAt, main, frameVars, dropped>>

\* Stopped, or no longer listening.
ServerLeave == server.pc = "listening" /\ ServerChange([server EXCEPT !.pc = "close"])

ServerClose ==
  /\ server.pc = "close"
  /\ ServerChange([server EXCEPT !.pc = IF Reconnects THEN "loop" ELSE "ended"])

ServerEnd == server.pc = "loop" /\ ~server.run /\ ServerChange([server EXCEPT !.pc = "ended"])

-----------------------------------------------------------------------------
(* EosTcpClientThread::run.                                                *)

Alive(n) == n <= threads /\ thread[n] # Gone

ThreadChange(n, new) ==
  /\ thread' = [thread EXCEPT ![n] = new]
  /\ UNCHANGED <<addrOf, threads, clientAt, server, main, dropped>>

\* It takes the accepted object the first time, and makes its own after that.
ThreadTake(n) ==
  /\ Alive(n) /\ thread[n].pc = "loop" /\ thread[n].run
  /\ LET tcp == thread[n].accepted
     IN  ThreadChange(n, [thread[n] EXCEPT !.tcp = IF tcp = 0 THEN Own ELSE tcp,
                                           !.accepted = 0, !.pc = "opening"])
  /\ UNCHANGED <<tcps, deleted, frameVars>>

ThreadOpen(n) ==
  /\ Alive(n) /\ thread[n].pc = "opening"
  /\ \/ ThreadChange(n, [thread[n] EXCEPT !.pc = "open", !.up = TRUE])
     \/ ThreadChange(n, [thread[n] EXCEPT !.pc = "close"])
  /\ UNCHANGED <<tcps, deleted, frameVars>>

ThreadRecv(n) ==
  /\ Alive(n) /\ thread[n].pc = "open" /\ thread[n].run
  /\ frames < MaxFrames
  /\ frames' = frames + 1
  /\ gotBy' = [gotBy EXCEPT ![n] = Append(@, frames + 1)]
  /\ ThreadChange(n, [thread[n] EXCEPT !.recvQ = Append(@, frames + 1)])
  /\ UNCHANGED <<tcps, deleted, routed, wire>>

\* The queue is swapped out and written; a stop or the peer can cut it short.
ThreadSend(n) ==
  /\ Alive(n) /\ thread[n].pc = "open"
  /\ thread[n].sendQ # <<>>
  /\ \E k \in 0..Len(thread[n].sendQ) :
       /\ wire' = wire \o SubSeq(thread[n].sendQ, 1, k)
       /\ ThreadChange(n, [thread[n] EXCEPT !.sendQ = <<>>,
                             !.pc = IF k = Len(thread[n].sendQ) THEN "open" ELSE "close"])
  /\ UNCHANGED <<tcps, deleted, frames, gotBy, routed>>

\* The loop is left when the thread is stopped or the peer is gone.
ThreadLeave(n) ==
  /\ Alive(n) /\ thread[n].pc = "open"
  /\ ThreadChange(n, [thread[n] EXCEPT !.pc = "close"])
  /\ UNCHANGED <<tcps, deleted, frameVars>>

\* m_SendQ is not emptied: a thread that connects again will send it.
ThreadClose(n) ==
  /\ Alive(n) /\ thread[n].pc = "close"
  /\ deleted' = [t \in Tcp |-> IF t = thread[n].tcp THEN deleted[t] + 1 ELSE deleted[t]]
  /\ ThreadChange(n, [thread[n] EXCEPT !.tcp = 0, !.up = FALSE,
                                       !.pc = IF thread[n].reconnects THEN "loop" ELSE "ended"])
  /\ UNCHANGED <<tcps, frameVars>>

ThreadEnd(n) ==
  /\ Alive(n) /\ thread[n].pc = "loop" /\ ~thread[n].run
  /\ ThreadChange(n, [thread[n] EXCEPT !.pc = "ended"])
  /\ UNCHANGED <<tcps, deleted, frameVars>>

-----------------------------------------------------------------------------
(* RouterThread::MainLoop, TCP servers.                                    *)

MainChange(new) ==
  /\ main' = new
  /\ UNCHANGED <<addrOf, tcps>>

Clients == {a \in Addr : clientAt[a] # 0}

LoopOrStop ==
  /\ main.pc = "top"
  /\ MainChange([main EXCEPT !.pc = CASE ~main.run -> "stopServer"
                                      [] main.run /\ server.pc = "deleted" -> "clients"
                                      [] main.run /\ server.pc # "deleted" -> "server",
                             !.todo = Clients])
  /\ UNCHANGED <<deleted, threads, thread, clientAt, server, frameVars, dropped>>

\* isRunning, sampled before the flush.
SampleServer ==
  /\ main.pc = "server"
  /\ MainChange([main EXCEPT !.pc = "flush", !.running = server.pc # "ended"])
  /\ UNCHANGED <<deleted, threads, thread, clientAt, server, frameVars, dropped>>

FlushServer ==
  /\ main.pc = "flush"
  /\ server' = [server EXCEPT !.q = <<>>]
  /\ MainChange([main EXCEPT !.pc = "adopt", !.connQ = server.q])
  /\ UNCHANGED <<deleted, threads, thread, clientAt, frameVars, dropped>>

\* ProcessTcpConnectionQ, an address that has no thread.
Adopt ==
  /\ main.pc = "adopt" /\ main.connQ # <<>>
  /\ LET tcp == Head(main.connQ)
         a == addrOf[tcp]
     IN  /\ clientAt[a] = 0
         /\ threads' = threads + 1
         /\ thread' = [thread EXCEPT ![threads + 1] = Started(a, tcp, FALSE)]
         /\ clientAt' = [clientAt EXCEPT ![a] = threads + 1]
  /\ MainChange([main EXCEPT !.connQ = Tail(@)])
  /\ UNCHANGED <<deleted, server, frameVars, dropped>>

\* EosTcpClientThread::Stop, up to its wait.
StopThread(n) == thread' = [thread EXCEPT ![n].run = FALSE]

\* The wait is over: Stop deletes the object that the thread never took.
DeleteThread(n) ==
  /\ thread[n].pc = "ended"
  /\ thread' = [thread EXCEPT ![n] = Gone]
  /\ deleted' = [t \in Tcp |-> IF t = thread[n].accepted THEN deleted[t] + 1 ELSE deleted[t]]
  /\ clientAt' = [clientAt EXCEPT ![thread[n].addr] = 0]

\* ProcessTcpConnectionQ, a connection that replaces another.
Replace ==
  /\ main.pc = "adopt" /\ main.connQ # <<>>
  /\ LET n == clientAt[addrOf[Head(main.connQ)]]
     IN  n # 0 /\ StopThread(n)
  /\ MainChange([main EXCEPT !.pc = "replace"])
  /\ UNCHANGED <<deleted, threads, clientAt, server, frameVars, dropped>>

Replaced ==
  /\ main.pc = "replace"
  /\ LET n == clientAt[addrOf[Head(main.connQ)]]
     IN  DeleteThread(n) /\ dropped' = dropped \cup {n}
  /\ MainChange([main EXCEPT !.pc = "adopt"])
  /\ UNCHANGED <<threads, server, frameVars>>

ReapServer ==
  /\ main.pc = "adopt" /\ main.connQ = <<>>
  /\ server' = [server EXCEPT !.pc = IF main.running THEN @ ELSE "deleted"]
  /\ MainChange([main EXCEPT !.pc = "clients", !.todo = Clients])
  /\ UNCHANGED <<deleted, threads, thread, clientAt, frameVars, dropped>>

-----------------------------------------------------------------------------
(* RouterThread::MainLoop, TCP clients: one after the other.               *)

Visited == clientAt[Min(main.todo)]

SampleClient ==
  /\ main.pc = "clients" /\ main.todo # {}
  /\ MainChange([main EXCEPT !.pc = "visit", !.running = thread[Visited].pc # "ended"])
  /\ UNCHANGED <<deleted, threads, thread, clientAt, server, frameVars, dropped>>

\* Mutant: the queue is copied, not taken.
FlushClientCopy ==
  /\ main.pc = "visit"
  /\ MainChange([main EXCEPT !.pc = "route", !.recvQ = thread[Visited].recvQ])
  /\ UNCHANGED <<deleted, threads, thread, clientAt, server, frameVars, dropped>>

FlushClient ==
  /\ main.pc = "visit"
  /\ thread' = [thread EXCEPT ![Visited].recvQ = <<>>]
  /\ MainChange([main EXCEPT !.pc = "route", !.recvQ = thread[Visited].recvQ])
  /\ UNCHANGED <<deleted, threads, clientAt, server, frameVars, dropped>>

\* ProcessRecvPacket, with SendFramed or Send: only a connected thread takes it.
Route ==
  /\ main.pc = "route" /\ main.recvQ # <<>>
  /\ LET f == Head(main.recvQ)
         n == clientAt[Dst]
     IN  /\ routed' = Append(routed, f)
         /\ thread' = IF n # 0 /\ thread[n].up
                      THEN [thread EXCEPT ![n].sendQ = Append(@, f)] ELSE thread
  /\ MainChange([main EXCEPT !.recvQ = Tail(@)])
  /\ UNCHANGED <<deleted, threads, clientAt, server, frames, gotBy, wire, dropped>>

\* Mutant: isRunning is asked again after the flush.
NextClientLate ==
  /\ main.pc = "route" /\ main.recvQ = <<>>
  /\ IF thread[Visited].pc # "ended"
     THEN UNCHANGED <<thread, deleted, clientAt>>
     ELSE DeleteThread(Visited)
  /\ MainChange([main EXCEPT !.pc = "clients", !.todo = @ \ {Min(@)}])
  /\ UNCHANGED <<threads, server, frameVars, dropped>>

\* Mutant: only the first thread is visited.
NextClientFirst ==
  /\ main.pc = "route" /\ main.recvQ = <<>>
  /\ IF main.running
     THEN UNCHANGED <<thread, deleted, clientAt>>
     ELSE DeleteThread(Visited)
  /\ MainChange([main EXCEPT !.pc = "clients", !.todo = {}])
  /\ UNCHANGED <<threads, server, frameVars, dropped>>

\* A thread that had ended before the flush is deleted.
NextClient ==
  /\ main.pc = "route" /\ main.recvQ = <<>>
  /\ IF main.running
     THEN UNCHANGED <<thread, deleted, clientAt>>
     ELSE DeleteThread(Visited)
  /\ MainChange([main EXCEPT !.pc = "clients", !.todo = @ \ {Min(@)}])
  /\ UNCHANGED <<threads, server, frameVars, dropped>>

EndOfLoop ==
  /\ main.pc = "clients" /\ main.todo = {}
  /\ MainChange([main EXCEPT !.pc = "top"])
  /\ UNCHANGED <<deleted, threads, thread, clientAt, server, frameVars, dropped>>

-----------------------------------------------------------------------------
(* RouterThread::Stop, and the end of MainLoop.                            *)

Stop ==
  /\ main.run
  /\ MainChange([main EXCEPT !.run = FALSE])
  /\ UNCHANGED <<deleted, threads, thread, clientAt, server, frameVars, dropped>>

StopServer ==
  /\ main.pc = "stopServer"
  /\ server' = [server EXCEPT !.run = FALSE]
  /\ MainChange([main EXCEPT !.pc = IF server.pc = "deleted" THEN "stopClients" ELSE "joinServer",
                             !.todo = Clients])
  /\ UNCHANGED <<deleted, threads, thread, clientAt, frameVars, dropped>>

\* Mutant: the connections that nobody has adopted are forgotten.
JoinServerOnly ==
  /\ main.pc = "joinServer" /\ server.pc = "ended"
  /\ server' = [server EXCEPT !.pc = "deleted", !.q = <<>>]
  /\ deleted' = deleted
  /\ MainChange([main EXCEPT !.pc = "stopClients"])
  /\ UNCHANGED <<threads, thread, clientAt, frameVars, dropped>>

JoinServer ==
  /\ main.pc = "joinServer" /\ server.pc = "ended"
  /\ server' = [server EXCEPT !.pc = "deleted", !.q = <<>>]
  /\ deleted' = [t \in Tcp |-> IF t \in Range(server.q) THEN deleted[t] + 1 ELSE deleted[t]]
  /\ MainChange([main EXCEPT !.pc = "stopClients"])
  /\ UNCHANGED <<threads, thread, clientAt, frameVars, dropped>>

StopClient ==
  /\ main.pc = "stopClients" /\ main.todo # {}
  /\ StopThread(Visited)
  /\ MainChange([main EXCEPT !.pc = "joinClient"])
  /\ UNCHANGED <<deleted, threads, clientAt, server, frameVars, dropped>>

JoinClient ==
  /\ main.pc = "joinClient"
  /\ DeleteThread(Visited)
  /\ dropped' = dropped \cup {Visited}
  /\ MainChange([main EXCEPT !.pc = "stopClients", !.todo = @ \ {Min(@)}])
  /\ UNCHANGED <<threads, server, frameVars>>

Finish ==
  /\ main.pc = "stopClients" /\ main.todo = {}
  /\ MainChange([main EXCEPT !.pc = "done"])
  /\ UNCHANGED <<deleted, threads, thread, clientAt, server, frameVars, dropped>>

-----------------------------------------------------------------------------

Server == ServerListen \/ (~server.run /\ ServerLeave) \/ ServerClose \/ ServerEnd

Client(n) ==
  \/ ThreadTake(n) \/ ThreadOpen(n) \/ ThreadClose(n) \/ ThreadEnd(n)
  \/ Alive(n) /\ ~thread[n].run /\ ThreadLeave(n)

Main ==
  \/ LoopOrStop \/ SampleServer \/ FlushServer \/ Adopt \/ Replace \/ Replaced \/ ReapServer
  \/ SampleClient \/ FlushClient \/ Route \/ NextClient \/ EndOfLoop
  \/ StopServer \/ JoinServer \/ StopClient \/ JoinClient \/ Finish

Next ==
  \/ Server \/ ServerLeave \/ \E a \in Addr : ServerAccept(a)
  \/ \E n \in Thread : Client(n) \/ ThreadRecv(n) \/ ThreadSend(n) \/ ThreadLeave(n)
  \/ Main
  \/ Stop

Spec == Init /\ [][Next]_vars

\* Every thread is scheduled; the peers need not do anything.
FairSpec ==
  /\ Spec
  /\ WF_vars(Server) /\ WF_vars(Main)
  /\ \A n \in Thread : WF_vars(Client(n))

-----------------------------------------------------------------------------

TypeOK ==
  /\ tcps \in 0..MaxTcp
  /\ deleted \in [Tcp -> Nat]
  /\ addrOf \in [Tcp -> Addr \cup {0}]
  /\ threads \in 0..Cardinality(Thread)
  /\ \A n \in Thread : Alive(n) => thread[n] \in ThreadRecord
  /\ \A a \in Addr : clientAt[a] # 0 => Alive(clientAt[a]) /\ thread[clientAt[a]].addr = a
  /\ server.run \in BOOLEAN
  /\ server.pc \in {"loop", "listening", "close", "ended", "deleted"}
  /\ Range(server.q) \cup Range(main.connQ) \subseteq Tcp
  /\ main.todo \subseteq Addr
  /\ Range(routed) \cup Range(wire) \cup Range(main.recvQ) \subseteq Frame
  /\ dropped \subseteq Thread

\* Who has a pointer to an accepted connection that it may still use or delete.
Owners(t) ==
  {<<"server", i>> : i \in {j \in DOMAIN server.q : server.q[j] = t}}
  \cup {<<"main", i>> : i \in {j \in DOMAIN main.connQ : main.connQ[j] = t}}
  \cup {<<"accepted", n>> : n \in {m \in Thread : Alive(m) /\ thread[m].accepted = t}}
  \cup {<<"run", n>> : n \in {m \in Thread : Alive(m) /\ thread[m].tcp = t}}

\* Every accepted connection has exactly one owner until it is deleted, and is deleted
\* once: no leak, no double delete and no use after delete, through replacements,
\* threads stopped before they run, and the shutdown.
OneOwner == \A t \in 1..tcps : Cardinality(Owners(t)) + deleted[t] = 1

\* When MainLoop returns nothing is left: no thread, no connection.
NothingLeft ==
  main.pc = "done" =>
    /\ \A n \in Thread : ~Alive(n)
    /\ \A t \in 1..tcps : deleted[t] = 1

\* Frames of thread n that are received and not yet routed.
Waiting(n) ==
  IF ~Alive(n) THEN <<>>
  ELSE IF main.pc = "route" /\ n = Visited THEN main.recvQ \o thread[n].recvQ
  ELSE thread[n].recvQ

\* Frames are numbered as they are received.  A connection's frames are routed once each and
\* in order, and none is lost when its thread ends by itself and is deleted by the router
\* thread: only a replacement and the shutdown throw frames away.
NoFrameLost ==
  \A n \in Thread :
    LET got == Range(gotBy[n])
    IN  /\ n \notin dropped => got \ Range(routed) = Range(Waiting(n))
        /\ \A i, j \in DOMAIN routed :
             i < j /\ {routed[i], routed[j]} \subseteq got => routed[i] < routed[j]

\* What Dst is sent, over however many connections, is in the order in which it was
\* routed and without repetition, though m_SendQ outlives a connection.
WireFollowsRouted ==
  \A i, j \in DOMAIN wire : i < j =>
    \E k, l \in DOMAIN routed : k < l /\ routed[k] = wire[i] /\ routed[l] = wire[j]

SoleOwner == OneOwner /\ NothingLeft
FramesFollow == NoFrameLost /\ WireFollowsRouted

\* Nobody waits for a thread that does not end: again and again every thread that has ended
\* has been deleted, until the router is stopped; and then Stop returns.
ThreadsAreReaped ==
  []<>IF main.run THEN \A n \in Thread : Alive(n) => thread[n].pc # "ended"
      ELSE main.pc = "done"
=============================================================================
