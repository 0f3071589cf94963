------------------------------ MODULE UdpThreads ------------------------------
(***************************************************************************)
(* The UDP side of the router: a thread per incoming port                  *)
(* (EosUdpInThread), a thread per destination (EosUdpOutThread), and the   *)
(* router thread between them, which visits every thread in turn, routes   *)
(* what has been received, starts the threads of destinations it has not   *)
(* got a thread for, and deletes those that have ended.                    *)
(*                                                                         *)
(* A packet is a number, in the order of their arrival.  Which             *)
(* destinations the routes have for a packet is the subject of RouteTable; *)
(* here they depend on its port.  The mute of everything incoming is       *)
(* modelled, as the threads do it; the outgoing mutes skip a destination.  *)
(***************************************************************************)
EXTENDS Naturals, Sequences, FiniteSets, SequencesExt, FiniteSetsExt

CONSTANTS
  Port, Dst,   \* in the order of the maps of threads
  To,          \* the destinations of the packets of a port
  Gone,        \* a thread that has been deleted, or not been made
  MaxPackets   \* bound on packets received

ASSUME UdpAssumption ==
  /\ Port \subseteq Nat /\ IsFiniteSet(Port)
  /\ Dst \subseteq Nat /\ IsFiniteSet(Dst)
  /\ To \in [Port -> SUBSET Dst]
  /\ MaxPackets \in Nat

Packet == 1..MaxPackets
State == {"uninitialized", "connecting", "connected", "not_connected"}

\* Packet `held` has passed the check of m_Mute and is not in m_Q yet.
InRecord ==
  [pc: {"loop", "opening", "open", "close", "ended"}, run: BOOLEAN, state: State,
   mute: BOOLEAN, held: Packet \cup {0}, q: Seq(Packet)]

\* `writing` is the local q of run(), `opened` whether Initialize ever succeeded.
OutRecord ==
  [pc: {"loop", "opening", "open", "close", "while", "ended"}, run: BOOLEAN, state: State,
   qEnabled: BOOLEAN, opened: BOOLEAN, q: Seq(Packet), writing: Seq(Packet)]

\* The router thread: the threads it has still to visit, the one it is at (or 0), what
\* isRunning said of that one, and what that one had received.
MainRecord ==
  [pc: {"top", "ins", "visitIn", "route", "outs", "visitOut", "stopOuts", "joinOut", "stopIns",
        "joinIn", "done"},
   run: BOOLEAN, muteIncoming: BOOLEAN, at: Port \cup Dst \cup {0}, running: BOOLEAN,
   recvQ: Seq(Packet), todo: SUBSET (Port \cup Dst)]

ASSUME GoneAssumption == Gone \notin InRecord \cup OutRecord

VARIABLES
  reconnects,    \* m_ReconnectDelay # 0
  muteIncoming,  \* the mute of everything incoming, as the item state table has it
  in,            \* UDP_IN_THREADS
  out,           \* UDP_OUT_THREADS
  main,          \* the router thread
  shown,         \* the states that the router thread has reported, per thread
  from,          \* per packet the port it was received on
  wire,          \* per destination what its threads gave to the socket
  accepted,      \* per destination the packets that Send has returned true for
  unopened       \* those of them that were deleted with a thread that never opened

vars == <<reconnects, muteIncoming, in, out, main, shown, from, wire, accepted, unopened>>
sent == <<wire, accepted, unopened>>

\* EosUdpInThread::Start.
StartedIn(mute) ==
  [pc |-> "loop", run |-> TRUE, state |-> "uninitialized", mute |-> mute, held |-> 0, q |-> <<>>]

\* EosUdpOutThread::Start: the queue is enabled "while on-demand thread is first starting".
StartedOut ==
  [pc |-> "loop", run |-> TRUE, state |-> "uninitialized", qEnabled |-> TRUE, opened |-> FALSE,
   q |-> <<>>, writing |-> <<>>]

\* BuildRoutes starts a thread per port, and one for every destination that has an IP.
Init ==
  /\ reconnects \in BOOLEAN
  /\ muteIncoming \in BOOLEAN
  /\ in = [p \in Port |-> StartedIn(muteIncoming)]
  /\ out \in [Dst -> {StartedOut, Gone}]
  /\ main = [pc |-> "top", run |-> TRUE, muteIncoming |-> FALSE, at |-> 0, running |-> TRUE,
             recvQ |-> <<>>, todo |-> {}]
  /\ shown = [in |-> [p \in Port |-> "uninitialized"], out |-> [d \in Dst |-> "uninitialized"]]
  /\ from = <<>>
  /\ wire = [d \in Dst |-> <<>>]
  /\ accepted = [d \in Dst |-> {}]
  /\ unopened = [d \in Dst |-> {}]

-----------------------------------------------------------------------------
(* EosUdpInThread::run.                                                    *)

InChange(p, new) ==
  /\ in' = [in EXCEPT ![p] = new]
  /\ UNCHANGED <<reconnects, muteIncoming, out, main, shown, sent>>

InLoop(p) ==
  /\ in[p] # Gone /\ in[p].pc = "loop"
  /\ InChange(p, IF in[p].run THEN [in[p] EXCEPT !.pc = "opening", !.state = "connecting"]
                 ELSE [in[p] EXCEPT !.pc = "ended"])
  /\ UNCHANGED from

\* EosUdpIn::Initialize.
InOpen(p) ==
  /\ in[p] # Gone /\ in[p].pc = "opening"
  /\ \/ InChange(p, [in[p] EXCEPT !.pc = "open", !.state = "connected"])
     \/ InChange(p, [in[p] EXCEPT !.pc = "close"])
  /\ UNCHANGED from

\* Mutant: m_Mute is not looked at.
InRecvUnmuted(p) ==
  /\ in[p] # Gone /\ in[p].pc = "open" /\ in[p].run /\ in[p].held = 0
  /\ Len(from) < MaxPackets
  /\ from' = Append(from, p)
  /\ InChange(p, [in[p] EXCEPT !.held = Len(from) + 1])

\* A packet arrives; it is dropped if m_Mute is set at that moment.
InRecv(p) ==
  /\ in[p] # Gone /\ in[p].pc = "open" /\ in[p].run /\ in[p].held = 0
  /\ Len(from) < MaxPackets
  /\ from' = Append(from, p)
  /\ InChange(p, [in[p] EXCEPT !.held = IF in[p].mute THEN 0 ELSE Len(from) + 1])

\* QueuePacket.
InQueue(p) ==
  /\ in[p] # Gone /\ in[p].held # 0
  /\ InChange(p, [in[p] EXCEPT !.held = 0, !.q = Append(@, in[p].held)])
  /\ UNCHANGED from

\* The inner loop is only left when the thread is stopped.
InLeave(p) ==
  /\ in[p] # Gone /\ in[p].pc = "open" /\ ~in[p].run /\ in[p].held = 0
  /\ InChange(p, [in[p] EXCEPT !.pc = "close"])
  /\ UNCHANGED from

\* The socket is deleted; the wait for the reconnection ends at any time.
InClose(p) ==
  /\ in[p] # Gone /\ in[p].pc = "close"
  /\ InChange(p, [in[p] EXCEPT !.state = "not_connected",
                               !.pc = IF reconnects THEN "loop" ELSE "ended"])
  /\ UNCHANGED from

-----------------------------------------------------------------------------
(* EosUdpOutThread::run.                                                   *)

OutChange(d, new) ==
  /\ out' = [out EXCEPT ![d] = new]
  /\ UNCHANGED <<reconnects, muteIncoming, in, main, shown, from, accepted, unopened>>

\* The body of the outer loop is entered at least once, stopped or not.
OutLoop(d) ==
  /\ out[d] # Gone /\ out[d].pc = "loop"
  /\ OutChange(d, [out[d] EXCEPT !.pc = "opening", !.state = "connecting"])
  /\ UNCHANGED wire

\* Mutant: STATE_CONNECTED does not enable the queue again.
OutOpenDisabled(d) ==
  /\ out[d] # Gone /\ out[d].pc = "opening"
  /\ \/ OutChange(d, [out[d] EXCEPT !.pc = "open", !.state = "connected", !.opened = TRUE])
     \/ OutChange(d, [out[d] EXCEPT !.pc = "close"])
  /\ UNCHANGED wire

\* EosUdpOut::Initialize, and SetState's change of m_QEnabled.
OutOpen(d) ==
  /\ out[d] # Gone /\ out[d].pc = "opening"
  /\ \/ OutChange(d, [out[d] EXCEPT !.pc = "open", !.state = "connected", !.qEnabled = TRUE,
                                    !.opened = TRUE])
     \/ OutChange(d, [out[d] EXCEPT !.pc = "close"])
  /\ UNCHANGED wire

\* Mutant: what was queued is copied and not swapped.
OutSwapCopy(d) ==
  /\ out[d] # Gone /\ out[d].pc = "open" /\ out[d].run
  /\ out[d].writing = <<>> /\ out[d].q # <<>>
  /\ OutChange(d, [out[d] EXCEPT !.writing = out[d].q])
  /\ UNCHANGED wire

\* The queue is swapped with the local one, which is empty.
OutSwap(d) ==
  /\ out[d] # Gone /\ out[d].pc = "open" /\ out[d].run
  /\ out[d].writing = <<>> /\ out[d].q # <<>>
  /\ OutChange(d, [out[d] EXCEPT !.writing = out[d].q, !.q = <<>>])
  /\ UNCHANGED wire

\* SendPacket: the packet is the socket's now, whether or not it succeeds.
OutSend(d) ==
  /\ out[d] # Gone /\ out[d].pc = "open" /\ out[d].run /\ out[d].writing # <<>>
  /\ wire' = [wire EXCEPT ![d] = Append(@, Head(out[d].writing))]
  /\ OutChange(d, [out[d] EXCEPT !.writing = Tail(@)])

\* A stop cuts the local queue short, and leaves the inner loop.
OutLeave(d) ==
  /\ out[d] # Gone /\ out[d].pc = "open" /\ ~out[d].run
  /\ OutChange(d, [out[d] EXCEPT !.pc = "close", !.writing = <<>>])
  /\ UNCHANGED wire

\* Mutant: the state stays what it was.
OutCloseSilent(d) ==
  /\ out[d] # Gone /\ out[d].pc = "close"
  /\ OutChange(d, [out[d] EXCEPT !.qEnabled = FALSE,
                                 !.pc = IF reconnects THEN "while" ELSE "ended"])
  /\ UNCHANGED wire

\* Mutant: m_Q is emptied.
OutCloseClears(d) ==
  /\ out[d] # Gone /\ out[d].pc = "close"
  /\ OutChange(d, [out[d] EXCEPT !.state = "not_connected", !.qEnabled = FALSE, !.q = <<>>,
                                 !.pc = IF reconnects THEN "while" ELSE "ended"])
  /\ UNCHANGED wire

\* m_Q is kept, and refuses packets until a later Initialize succeeds.
OutClose(d) ==
  /\ out[d] # Gone /\ out[d].pc = "close"
  /\ OutChange(d, [out[d] EXCEPT !.state = "not_connected", !.qEnabled = FALSE,
                                 !.pc = IF reconnects THEN "while" ELSE "ended"])
  /\ UNCHANGED wire

\* Mutant: the outer loop does not look at m_Run.
OutWhileAgain(d) ==
  /\ out[d] # Gone /\ out[d].pc = "while"
  /\ OutChange(d, [out[d] EXCEPT !.pc = "loop"])
  /\ UNCHANGED wire

\* The condition of the outer loop.
OutWhile(d) ==
  /\ out[d] # Gone /\ out[d].pc = "while"
  /\ OutChange(d, [out[d] EXCEPT !.pc = IF out[d].run THEN "loop" ELSE "ended"])
  /\ UNCHANGED wire

-----------------------------------------------------------------------------
(* RouterThread::MainLoop.                                                 *)

MainChange(new) ==
  /\ main' = new
  /\ UNCHANGED <<reconnects, muteIncoming, from, wire>>

Existing(threads) == {k \in DOMAIN threads : threads[k] # Gone}

LoopOrStop ==
  /\ main.pc = "top"
  /\ MainChange(IF main.run
                THEN [main EXCEPT !.pc = "ins", !.muteIncoming = muteIncoming, !.todo = Existing(in)]
                ELSE [main EXCEPT !.pc = "stopOuts", !.todo = Existing(out)])
  /\ UNCHANGED <<in, out, shown, accepted, unopened>>

\* The thread that the iterator is at next.
IsNext(k) == k \in main.todo /\ \A other \in main.todo : k <= other

\* isRunning, asked before anything else of the thread.
SampleIn(p) ==
  /\ main.pc = "ins" /\ IsNext(p)
  /\ MainChange([main EXCEPT !.pc = "visitIn", !.at = p, !.todo = @ \ {p},
                             !.running = in[p].pc # "ended"])
  /\ UNCHANGED <<in, out, shown, accepted, unopened>>

\* Mute, Flush, GetState.
VisitIn ==
  /\ main.pc = "visitIn"
  /\ in' = [in EXCEPT ![main.at].mute = main.muteIncoming, ![main.at].q = <<>>]
  /\ shown' = [shown EXCEPT !.in[main.at] = in[main.at].state]
  /\ MainChange([main EXCEPT !.pc = "route", !.recvQ = in[main.at].q])
  /\ UNCHANGED <<out, accepted, unopened>>

\* CreateUdpOutThread, and EosUdpOutThread::Send of the thread it returns.
SentTo(thread, n) ==
  LET t == IF thread = Gone THEN StartedOut ELSE thread
  IN  IF t.qEnabled THEN [t EXCEPT !.q = Append(@, n)] ELSE t

Accepts(thread) == thread = Gone \/ thread.qEnabled

\* ProcessRecvPacket: the threads of several destinations share nothing.
Route ==
  /\ main.pc = "route" /\ main.recvQ # <<>>
  /\ LET n == Head(main.recvQ)
     IN  /\ out' = [d \in Dst |-> IF d \in To[main.at] THEN SentTo(out[d], n) ELSE out[d]]
         /\ accepted' = [d \in Dst |-> IF d \in To[main.at] /\ Accepts(out[d])
                                       THEN accepted[d] \cup {n} ELSE accepted[d]]
  /\ MainChange([main EXCEPT !.recvQ = Tail(@)])
  /\ UNCHANGED <<in, shown, unopened>>

NextIn ==
  /\ main.pc = "route" /\ main.recvQ = <<>>
  /\ in' = IF main.running THEN in ELSE [in EXCEPT ![main.at] = Gone]
  /\ MainChange([main EXCEPT !.pc = "ins", !.at = 0])
  /\ UNCHANGED <<out, shown, accepted, unopened>>

EndOfIns ==
  /\ main.pc = "ins" /\ main.todo = {}
  /\ MainChange([main EXCEPT !.pc = "outs", !.todo = Existing(out)])
  /\ UNCHANGED <<in, out, shown, accepted, unopened>>

SampleOut(d) ==
  /\ main.pc = "outs" /\ IsNext(d)
  /\ MainChange([main EXCEPT !.pc = "visitOut", !.at = d, !.todo = @ \ {d},
                             !.running = out[d].pc # "ended"])
  /\ UNCHANGED <<in, out, shown, accepted, unopened>>

\* GetState, and the thread's deletion, with its queue, if it had ended before.
VisitOut ==
  /\ main.pc = "visitOut"
  /\ shown' = [shown EXCEPT !.out[main.at] = out[main.at].state]
  /\ IF main.running
     THEN UNCHANGED <<out, unopened>>
     ELSE /\ out' = [out EXCEPT ![main.at] = Gone]
          /\ unopened' = [unopened EXCEPT ![main.at] =
                            IF out[main.at].opened THEN @ ELSE @ \cup Range(out[main.at].q)]
  /\ MainChange([main EXCEPT !.pc = "outs", !.at = 0])
  /\ UNCHANGED <<in, accepted>>

EndOfLoop ==
  /\ main.pc = "outs" /\ main.todo = {}
  /\ MainChange([main EXCEPT !.pc = "top"])
  /\ UNCHANGED <<in, out, shown, accepted, unopened>>

-----------------------------------------------------------------------------
(* RouterThread::Stop and the end of MainLoop: Stop of a thread waits for  *)
(* it to end.                                                              *)

Stop ==
  /\ main.run
  /\ MainChange([main EXCEPT !.run = FALSE])
  /\ UNCHANGED <<in, out, shown, accepted, unopened>>

StopOut(d) ==
  /\ main.pc = "stopOuts" /\ IsNext(d)
  /\ out' = [out EXCEPT ![d].run = FALSE]
  /\ MainChange([main EXCEPT !.pc = "joinOut", !.at = d, !.todo = @ \ {d}])
  /\ UNCHANGED <<in, shown, accepted, unopened>>

JoinOut ==
  /\ main.pc = "joinOut" /\ out[main.at].pc = "ended"
  /\ out' = [out EXCEPT ![main.at] = Gone]
  /\ MainChange([main EXCEPT !.pc = "stopOuts", !.at = 0])
  /\ UNCHANGED <<in, shown, accepted, unopened>>

OutsStopped ==
  /\ main.pc = "stopOuts" /\ main.todo = {}
  /\ MainChange([main EXCEPT !.pc = "stopIns", !.todo = Existing(in)])
  /\ UNCHANGED <<in, out, shown, accepted, unopened>>

StopIn(p) ==
  /\ main.pc = "stopIns" /\ IsNext(p)
  /\ in' = [in EXCEPT ![p].run = FALSE]
  /\ MainChange([main EXCEPT !.pc = "joinIn", !.at = p, !.todo = @ \ {p}])
  /\ UNCHANGED <<out, shown, accepted, unopened>>

JoinIn ==
  /\ main.pc = "joinIn" /\ in[main.at].pc = "ended"
  /\ in' = [in EXCEPT ![main.at] = Gone]
  /\ MainChange([main EXCEPT !.pc = "stopIns", !.at = 0])
  /\ UNCHANGED <<out, shown, accepted, unopened>>

Finish ==
  /\ main.pc = "stopIns" /\ main.todo = {}
  /\ MainChange([main EXCEPT !.pc = "done"])
  /\ UNCHANGED <<in, out, shown, accepted, unopened>>

-----------------------------------------------------------------------------

\* SetMuteAll of the user interface, passed on by ItemStateTable::Sync.
MuteAll ==
  /\ muteIncoming' = ~muteIncoming
  /\ UNCHANGED <<reconnects, in, out, main, shown, from, sent>>

In(p) == InLoop(p) \/ InOpen(p) \/ InQueue(p) \/ InLeave(p) \/ InClose(p)

Out(d) ==
  \/ OutLoop(d) \/ OutOpen(d) \/ OutSwap(d) \/ OutSend(d) \/ OutLeave(d) \/ OutClose(d)
  \/ OutWhile(d)

Main ==
  \/ LoopOrStop
  \/ \E p \in Port : SampleIn(p) \/ StopIn(p)
  \/ \E d \in Dst : SampleOut(d) \/ StopOut(d)
  \/ VisitIn \/ Route \/ NextIn \/ EndOfIns \/ VisitOut \/ EndOfLoop
  \/ JoinOut \/ OutsStopped \/ JoinIn \/ Finish

Next ==
  \/ \E p \in Port : In(p) \/ InRecv(p)
  \/ \E d \in Dst : Out(d)
  \/ Main \/ Stop \/ MuteAll

Spec == Init /\ [][Next]_vars

\* Every thread is scheduled.  Nothing makes packets arrive, mutes change, or the router
\* stop; and Initialize may fail for ever.
UdpFairness ==
  /\ \A p \in Port : WF_vars(In(p))
  /\ \A d \in Dst : WF_vars(Out(d))
  /\ WF_vars(Main)

FairSpec == Spec /\ UdpFairness

-----------------------------------------------------------------------------

\* And an open thread takes packets.
TypeOK ==
  /\ reconnects \in BOOLEAN /\ muteIncoming \in BOOLEAN
  /\ in \in [Port -> InRecord \cup {Gone}]
  /\ out \in [Dst -> OutRecord \cup {Gone}]
  /\ main \in MainRecord
  /\ shown \in [in: [Port -> State], out: [Dst -> State]]
  /\ from \in Seq(Port) /\ Len(from) <= MaxPackets
  /\ wire \in [Dst -> Seq(Packet)]
  /\ accepted \in [Dst -> SUBSET Packet]
  /\ unopened \in [Dst -> SUBSET Packet]
  /\ \A d \in Dst : out[d] # Gone /\ out[d].pc = "open" => out[d].qEnabled

\* Whatever is queued, refused, thrown away with a thread or sent by the one that takes
\* its place, packets of a port are sent at most once and in order.
Path == INSTANCE PacketPath WITH Port <- Port, Dst <- Dst, To <- To, from <- from, wire <- wire
InOrder == Path!Spec

\* Until the router is stopped, a packet that Send has taken is sent or still waiting,
\* over reconnections and deletions of threads.  The exception is a thread that is told
\* not to reconnect and whose first Initialize fails, with what it had queued till then.
AcceptedIsKept ==
  main.run => \A d \in Dst :
    accepted[d] = Range(wire[d]) \cup unopened[d] \cup
      (IF out[d] = Gone THEN {} ELSE Range(out[d].q \o out[d].writing))

\* A mute takes hold: from the visit in which a thread is told of it, at most the one
\* packet it was about to queue is routed.
MuteTakesHold ==
  \A p \in Port : in[p] # Gone /\ in[p].mute =>
    Len(in[p].q) + (IF in[p].held = 0 THEN 0 ELSE 1) <= 1

\* A thread that has ended is not deleted before its last state has been reported: what
\* the table shows of a thread that is gone is that it is not connected.
EndedIsShown ==
  main.pc \notin {"joinOut", "stopOuts", "joinIn", "stopIns", "done"} =>
    /\ \A p \in Port : in[p] = Gone => shown.in[p] = "not_connected"
    /\ \A d \in Dst : out[d] = Gone => shown.out[d] \in {"not_connected", "uninitialized"}

\* Nothing waits for ever: again and again the queues of all threads that are open are
\* empty, until the router is stopped; and then Stop, which joins every thread in turn,
\* returns, though threads reconnect and their sockets may never open.
QueuesEmpty ==
  []<>IF main.run
      THEN /\ \A p \in Port : in[p] # Gone => in[p].q = <<>>
           /\ \A d \in Dst : out[d] # Gone /\ out[d].pc = "open" => out[d].q = <<>>
      ELSE main.pc = "done"
=============================================================================
