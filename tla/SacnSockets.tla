----------------------------- MODULE SacnSockets -----------------------------
(***************************************************************************)
(* The sockets of sACN: CAsyncSocketServ with its reader thread (select)   *)
(* or its worker threads (Windows), the client's sockets, each with a      *)
(* thread that receives, the server's, which are only sent from, and       *)
(* RouterThread, which builds and destroys all of them.  A section under   *)
(* the write lock is one action, which waits for whoever reads.            *)
(***************************************************************************)
EXTENDS Naturals, SequencesExt, FiniteSetsExt

CONSTANTS
  Setups,      \* see `setup`
  Room,        \* IP_MAX_MEMBERSHIPS without the threshold of 2
  QueueBound,  \* packets in a socket's buffer
  NoEntry

Addresses == UNION {ToSet(s.universes) \X ToSet(s.ifaces) : s \in Setups}

\* The interfaces that the client listens on.
TargetsOf(s) == IF s.listed = <<>> THEN s.ifaces ELSE s.listed

\* At most one socket is made for each universe and interface, and one for each interface.
Ids == UNION {0..Len(s.universes) * Len(TargetsOf(s)) + Len(s.ifaces) - 1 : s \in Setups}

Entry == [iface : UNION {ToSet(s.ifaces) : s \in Setups}, manual : BOOLEAN, active : BOOLEAN,
          sublist : SUBSET Addresses, joined : SUBSET Addresses]

ASSUME SocketsAssumption ==
  /\ Room \in Nat \ {0} /\ QueueBound \in Nat
  /\ \A s \in Setups :
       /\ s.platform \in {"linux", "mac", "windows"}
       /\ \A list \in {s.universes, s.ifaces, s.listed} : list \in Seq(ToSet(list)) /\ IsInjective(list)
       /\ s.universes # <<>> /\ s.ifaces # <<>> /\ ToSet(s.listed) \subseteq ToSet(s.ifaces)
  /\ NoEntry \notin Entry

VARIABLES
  setup,     \* the platform, "linux", "mac" (both select) or "windows"; in order, the universes
             \* that routes take input from, the interfaces, and those that sACNIP selects
             \* (<<>> for any)
  sockmap,   \* m_sockmap: per id an entry, or NoEntry
  buffer,    \* per id: the packets in the system's buffer, by their addresses
  subs,      \* m_subs of the client: pairs of an address and an id
  listeners, \* per id: the thread that receives for the client
  reader,    \* the read thread of select
  overlaps,  \* per id: the read of the worker threads of Windows, or how it has ended
  router,    \* where RouterThread is
  pnotify,   \* m_pnotify # NULL
  connected, \* the universes that are shown as connected
  nullCall,  \* history: a notification was made through NULL
  lastHeard  \* history: what was notified last

sockVars == <<sockmap, buffer, subs, listeners, reader, overlaps, router, pnotify, connected, nullCall, lastHeard>>

Select == setup.platform # "windows"
Targets == TargetsOf(setup)

SocketsInit ==
  /\ setup \in Setups
  /\ sockmap = [id \in Ids |-> NoEntry]
  /\ buffer = [id \in Ids |-> <<>>]
  /\ subs = {}
  /\ listeners = [id \in Ids |-> [pc |-> "none"]]
  /\ reader = [pc |-> "idle", ready |-> {}]
  /\ overlaps = [id \in Ids |-> "none"]
  /\ router = [at |-> "listen", universe |-> 1, iface |-> 1]
  /\ pnotify = TRUE
  /\ connected = {}
  /\ nullCall = FALSE
  /\ lastHeard = {}

Exists(id) == sockmap[id] # NoEntry
Open(id) == Exists(id) /\ sockmap[id].active
WriteLock == reader.pc # "reading"

-----------------------------------------------------------------------------
(* CAsyncSocketServ, on values of m_sockmap.  Ids are handed out in order. *)

NewId(m) == Min({id \in Ids : m[id] = NoEntry /\ \A later \in Ids : later > id => m[later] = NoEntry})

RealCreateSocket(m, iface, manual) ==
  [m EXCEPT ![NewId(m)] = [iface |-> iface, manual |-> manual, active |-> TRUE, sublist |-> {}, joined |-> {}]]

RoomForSubscribe(entry, a) == a \in entry.sublist \/ Cardinality(entry.sublist) < Room

\* SubscribeMulticast: the reference is counted before the system is asked, and stays.
Subscribed(m, id, a, ok) ==
  [m EXCEPT ![id].sublist = @ \cup {a}, ![id].joined = IF ok THEN @ \cup {a} ELSE @]

\* UnsubscribeMulticast, for a set of addresses; no address is subscribed to twice.
Unsubscribed(m, id, ended) == [m EXCEPT ![id].sublist = @ \ ended, ![id].joined = @ \ ended]

\* SocketConnect: any of the calls that make, set and bind the system's socket may fail, and it
\* is closed then; the entry that was made for it goes.
Connects(m, iface, manual) == {m, RealCreateSocket(m, iface, manual)}

\* SocketDisconnect: the flag that the threads look at, the references, the system's socket.
SocketDisconnect(entry) == [entry EXCEPT !.active = FALSE, !.sublist = {}, !.joined = {}]

\* DestroySocket.  Windows keeps the entry of a socket that it closes, InitiateDestruction, and
\* deletes that of one that was closed before.
Destroyed(m, id) == [m EXCEPT ![id] = IF Select \/ ~@.active THEN NoEntry ELSE SocketDisconnect(@)]

-----------------------------------------------------------------------------
(* RouterThread::BuildsACN: the client listens, then the server starts.    *)

\* The address that is being subscribed to.
Current == <<setup.universes[router.universe], Targets[router.iface]>>

\* CStreamClient::SubscribeUniverse: the socket to subscribe, if there is one.
Sharing(a) ==
  IF \E s \in subs : s[1] = a THEN {s[2] : s \in {t \in subs : t[1] = a}}
  ELSE {id \in Ids : Open(id) /\ sockmap[id].manual /\ sockmap[id].iface = a[2] /\ RoomForSubscribe(sockmap[id], a)}

\* CreateSocket: SocketConnect or the thread may fail; without a thread the socket goes again.
CreateSocket(iface) ==
  {[map |-> created, spawned |-> created # sockmap] : created \in Connects(sockmap, iface, TRUE)}
  \cup {[map |-> Destroyed(RealCreateSocket(sockmap, iface, TRUE), NewId(sockmap)), spawned |-> FALSE]}

\* SubscribeUniverse: what m_sockmap can be, with the result, and with the socket a thread
\* was started for.
Attempts(a) ==
  IF Sharing(a) # {}
  THEN LET id == Min(Sharing(a))
       IN {[map |-> Subscribed(sockmap, id, a, ok), ok |-> ok, id |-> id, spawned |-> FALSE] : ok \in BOOLEAN}
  ELSE LET id == NewId(sockmap)
       IN UNION {IF c.spawned
                 THEN {[map |-> Subscribed(c.map, id, a, ok), ok |-> ok, id |-> id, spawned |-> TRUE] : ok \in BOOLEAN}
                 ELSE {[map |-> c.map, ok |-> FALSE, id |-> id, spawned |-> FALSE]} :
                   c \in CreateSocket(a[2])}

\* Mutant: only the interface that failed is cleaned up.
EndedUniverseLast(m, u) ==
  [id \in Ids |-> IF \E s \in subs : s = <<Current, id>> THEN Unsubscribed(m, id, {Current})[id] ELSE m[id]]

\* EndUniverse: UnsubscribeUniverse of each interface.  m_subs keeps the sockets, which can be
\* used again, whether the system could leave the group or not.
EndedUniverse(m, u) ==
  [id \in Ids |-> IF m[id] = NoEntry THEN NoEntry
                  ELSE Unsubscribed(m, id, {a \in Addresses : a[1] = u /\ <<a, id>> \in subs})[id]]

NextUniverse ==
  IF router.universe < Len(setup.universes) THEN [router EXCEPT !.universe = @ + 1, !.iface = 1]
  ELSE [router EXCEPT !.at = "server", !.iface = 1]

\* CStreamClient::ListenUniverse, one interface at a time; of any interface errors are ignored.
ListenSockets ==
  /\ router.at = "listen" /\ WriteLock
  /\ \E attempt \in Attempts(Current) :
       LET failed == ~attempt.ok /\ setup.listed # <<>>
           last == failed \/ router.iface = Len(Targets)
       IN /\ sockmap' = IF failed THEN EndedUniverse(attempt.map, Current[1]) ELSE attempt.map
          /\ subs' = IF attempt.ok THEN subs \cup {<<Current, attempt.id>>} ELSE subs
          /\ listeners' = IF attempt.spawned THEN [listeners EXCEPT ![attempt.id] = [pc |-> "lookup"]] ELSE listeners
          /\ connected' = IF last /\ ~failed THEN connected \cup {Current[1]} ELSE connected
          /\ router' = IF last THEN NextUniverse ELSE [router EXCEPT !.iface = @ + 1]
  /\ UNCHANGED <<buffer, reader, overlaps, pnotify, nullCall, lastHeard>>

\* CStreamServer::InternalStartup: a socket per interface that can have one.  On Windows
\* SocketStart asks for the first read; where it fails the entry is closed and stays.
ServerStartup ==
  /\ router.at = "server" /\ WriteLock
  /\ \E created \in Connects(sockmap, setup.ifaces[router.iface], FALSE) :
       IF Select \/ created = sockmap THEN sockmap' = created /\ UNCHANGED overlaps
       ELSE \/ sockmap' = created /\ overlaps' = [overlaps EXCEPT ![NewId(sockmap)] = "posted"]
            \/ sockmap' = Destroyed(created, NewId(sockmap)) /\ UNCHANGED overlaps
  /\ router' = IF router.iface < Len(setup.ifaces) THEN [router EXCEPT !.iface = @ + 1] ELSE [router EXCEPT !.at = "run"]
  /\ UNCHANGED <<buffer, subs, listeners, reader, pnotify, connected, nullCall, lastHeard>>

-----------------------------------------------------------------------------
(* RouterThread::DestroysACN                                               *)

StopRun ==
  /\ router.at = "run"
  /\ router' = [router EXCEPT !.at = "stopServer"]
  /\ UNCHANGED <<sockmap, buffer, subs, listeners, reader, overlaps, pnotify, connected, nullCall, lastHeard>>

DestroySocket(id) ==
  /\ WriteLock
  /\ sockmap' = Destroyed(sockmap, id)
  /\ buffer' = [buffer EXCEPT ![id] = <<>>]

\* CStreamServer::InternalShutdown, of the sockets that it was given, those that have gone bad
\* too: SocketBad has ignored that.
ServerShutdown ==
  /\ router.at = "stopServer"
  /\ LET left == {id \in Ids : Exists(id) /\ ~sockmap[id].manual /\ (Open(id) \/ overlaps[id] = "failed")}
     IN IF left # {} THEN DestroySocket(Min(left)) /\ UNCHANGED router
        ELSE router' = [router EXCEPT !.at = "silence"] /\ UNCHANGED <<sockmap, buffer>>
  /\ UNCHANGED <<subs, listeners, reader, overlaps, pnotify, connected, nullCall, lastHeard>>

\* CStreamClient::InternalShutdown: first no more notifications, then the sockets.
Silence ==
  /\ router.at = "silence"
  /\ pnotify' = FALSE
  /\ router' = [router EXCEPT !.at = "stopClient"]
  /\ UNCHANGED <<sockmap, buffer, subs, listeners, reader, overlaps, connected, nullCall, lastHeard>>

ClientShutdown ==
  /\ router.at = "stopClient"
  /\ LET left == {id \in Ids : Open(id) /\ sockmap[id].manual}
     IN IF left # {} THEN DestroySocket(Min(left)) /\ UNCHANGED router
        ELSE router' = [router EXCEPT !.at = "join"] /\ UNCHANGED <<sockmap, buffer>>
  /\ UNCHANGED <<subs, listeners, reader, overlaps, pnotify, connected, nullCall, lastHeard>>

Ended(t) == t.pc \in {"none", "failed", "ended"}

\* Mutant: the threads are not waited for.
JoinThreadsNot ==
  /\ router.at = "join"
  /\ router' = [router EXCEPT !.at = "stopNet"]
  /\ UNCHANGED <<sockmap, buffer, subs, listeners, reader, overlaps, pnotify, connected, nullCall, lastHeard>>

\* Shutdown of the client waits for its threads.
JoinThreads ==
  /\ router.at = "join" /\ \A id \in Ids : Ended(listeners[id])
  /\ router' = [router EXCEPT !.at = "stopNet"]
  /\ UNCHANGED <<sockmap, buffer, subs, listeners, reader, overlaps, pnotify, connected, nullCall, lastHeard>>

\* CAsyncSocketServ::Shutdown: the thread of select sees m_terminated, the worker threads
\* are sent a command each, behind what is in their queue.
NetShutdown ==
  /\ router.at = "stopNet"
  /\ router' = [router EXCEPT !.at = "joinNet"]
  /\ UNCHANGED <<sockmap, buffer, subs, listeners, reader, overlaps, pnotify, connected, nullCall, lastHeard>>

UnderWay == {"posted", "pending", "done"}

\* The entries that are left are deleted: FinalizeDestruction.
NetEnd ==
  /\ router.at = "joinNet"
  /\ IF Select THEN reader.pc = "ended" ELSE \A id \in Ids : overlaps[id] \notin UnderWay
  /\ sockmap' = [id \in Ids |-> NoEntry]
  /\ router' = [router EXCEPT !.at = "end"]
  /\ UNCHANGED <<buffer, subs, listeners, reader, overlaps, pnotify, connected, nullCall, lastHeard>>

RouterActs ==
  \/ ListenSockets \/ ServerStartup
  \/ ServerShutdown \/ Silence \/ ClientShutdown \/ JoinThreads \/ NetShutdown \/ NetEnd

-----------------------------------------------------------------------------
(* A thread of the client: ReceiveInto and ParsePacket.                    *)

At(id, thread) == listeners' = [listeners EXCEPT ![id] = thread]

\* ReceiveInto: the socket is looked up under the read lock, which is left before recvfrom.
Lookup(id) ==
  /\ listeners[id].pc = "lookup"
  /\ At(id, [pc |-> IF Open(id) THEN "receive" ELSE "ended"])
  /\ UNCHANGED <<sockmap, buffer, subs, reader, overlaps, router, pnotify, connected, nullCall, lastHeard>>

\* recvfrom has a packet, or is woken with nothing as the socket is shut down.
ReceiveInto(id) ==
  /\ listeners[id].pc = "receive"
  /\ IF Open(id) THEN /\ buffer[id] # <<>>
                      /\ At(id, [pc |-> "check", address |-> Head(buffer[id])])
                      /\ buffer' = [buffer EXCEPT ![id] = Tail(@)]
     ELSE At(id, [pc |-> IF Select THEN "lookup" ELSE "ended"]) /\ UNCHANGED buffer
  /\ UNCHANGED <<sockmap, subs, reader, overlaps, router, pnotify, connected, nullCall, lastHeard>>

\* recvfrom fails on a socket that is open: the thread ends and nobody is told, the socket, its
\* memberships and what is shown of its universes stay.
ReceiveFails(id) ==
  /\ listeners[id].pc = "receive" /\ Open(id)
  /\ At(id, [pc |-> "failed"])
  /\ UNCHANGED <<sockmap, buffer, subs, reader, overlaps, router, pnotify, connected, nullCall, lastHeard>>

\* ParsePacket asks whether there is someone to notify ...
Check(id) ==
  /\ listeners[id].pc = "check"
  /\ At(id, IF pnotify THEN [listeners[id] EXCEPT !.pc = "notify"] ELSE [pc |-> "lookup"])
  /\ UNCHANGED <<sockmap, buffer, subs, reader, overlaps, router, pnotify, connected, nullCall, lastHeard>>

\* ... and notifies, by then without the lock: m_pnotify may be NULL.  The compiler may
\* have kept its value, or the process ends.
Notify(id) ==
  /\ listeners[id].pc = "notify"
  /\ At(id, [pc |-> "lookup"])
  /\ \/ lastHeard' = {listeners[id].address} /\ UNCHANGED nullCall
     \/ ~pnotify /\ nullCall' = TRUE /\ UNCHANGED lastHeard
  /\ UNCHANGED <<sockmap, buffer, subs, reader, overlaps, router, pnotify, connected>>

ThreadActs(id) == Lookup(id) \/ ReceiveInto(id) \/ Check(id) \/ Notify(id)

-----------------------------------------------------------------------------
(* The read thread of select, AsyncSocket_ReadThread, for the sockets that *)
(* are not received from by hand.                                          *)

ReaderSelects ==
  /\ Select /\ reader.pc = "idle"
  /\ reader' = IF router.at \in {"joinNet", "end"} THEN [pc |-> "ended", ready |-> {}]
               ELSE [pc |-> "selected", ready |-> {id \in Ids : Open(id) /\ ~sockmap[id].manual /\ buffer[id] # <<>>}]
  /\ UNCHANGED <<sockmap, buffer, subs, listeners, overlaps, router, pnotify, connected, nullCall, lastHeard>>

\* The read lock is taken if select had something.
ReaderLocks ==
  /\ reader.pc = "selected"
  /\ reader' = [reader EXCEPT !.pc = IF reader.ready = {} THEN "idle" ELSE "reading"]
  /\ UNCHANGED <<sockmap, buffer, subs, listeners, overlaps, router, pnotify, connected, nullCall, lastHeard>>

\* SocketRead of what is still there; CStreamServer deletes what it is given, and ignores the
\* SocketBad of a read that fails, which is tried again.
ReaderReads ==
  /\ reader.pc = "reading"
  /\ LET there == {id \in reader.ready : Open(id)}
     IN IF there = {} THEN reader' = [pc |-> "idle", ready |-> {}] /\ UNCHANGED buffer
        ELSE /\ buffer[Min(there)] # <<>>
             /\ buffer' \in {buffer, [buffer EXCEPT ![Min(there)] = Tail(@)]}
             /\ reader' = [reader EXCEPT !.ready = there \ {Min(there)}]
  /\ UNCHANGED <<sockmap, subs, listeners, overlaps, router, pnotify, connected, nullCall, lastHeard>>

ReaderActs == ReaderSelects \/ ReaderLocks \/ ReaderReads

-----------------------------------------------------------------------------
(* The worker threads of Windows: one read per socket that is not received *)
(* from by hand, in the completion port or with the system, until it fails.*)

\* WorkerDetectClose: an entry that DestroySocket has closed is deleted now; the socket of
\* another has gone bad and is closed, InitiateDestruction, and the entry stays.
DetectedClose(m, id) ==
  [m EXCEPT ![id] = IF m[id] = NoEntry THEN NoEntry ELSE IF @.active THEN [@ EXCEPT !.active = FALSE] ELSE NoEntry]

\* The read ends: "failed" if the socket was open.
ReadEnded(id) ==
  /\ overlaps' = [overlaps EXCEPT ![id] = IF Open(id) THEN "failed" ELSE "ended"]
  /\ sockmap' = DetectedClose(sockmap, id)
  /\ buffer' = [buffer EXCEPT ![id] = <<>>]

\* At the start, and behind each packet, which NotifyReceivePacket hands to the server, which
\* deletes it: without a buffer, Alloc, the read is forgotten; WSARecvFrom fails on a socket
\* that is gone, and may on another.
WorkerReceives(id) ==
  /\ overlaps[id] \in {"posted", "done"}
  /\ \/ Open(id) /\ overlaps' = [overlaps EXCEPT ![id] = "pending"] /\ UNCHANGED <<sockmap, buffer>>
     \/ overlaps' = [overlaps EXCEPT ![id] = "lost"] /\ UNCHANGED <<sockmap, buffer>>
     \/ ReadEnded(id)
  /\ UNCHANGED <<subs, listeners, reader, router, pnotify, connected, nullCall, lastHeard>>

\* The read of a socket that is gone fails.
WorkerFails(id) ==
  /\ overlaps[id] = "pending" /\ ~Open(id)
  /\ ReadEnded(id)
  /\ UNCHANGED <<subs, listeners, reader, router, pnotify, connected, nullCall, lastHeard>>

\* That of a socket that is open may: a packet was too long, its host has reset it.
ReadFails(id) ==
  /\ overlaps[id] = "pending" /\ Open(id)
  /\ ReadEnded(id)
  /\ UNCHANGED <<subs, listeners, reader, router, pnotify, connected, nullCall, lastHeard>>

\* The system completes a read.
Completes(id) ==
  /\ overlaps[id] = "pending" /\ Open(id) /\ buffer[id] # <<>>
  /\ overlaps' = [overlaps EXCEPT ![id] = "done"]
  /\ buffer' = [buffer EXCEPT ![id] = Tail(@)]
  /\ UNCHANGED <<sockmap, subs, listeners, reader, router, pnotify, connected, nullCall, lastHeard>>

WorkerActs(id) == WorkerReceives(id) \/ WorkerFails(id) \/ Completes(id)

-----------------------------------------------------------------------------

\* A packet for a.  Linux gives it to every socket of its port, if any program on the
\* machine has joined the group; the others to the sockets that have.
Gets(id, a) == Open(id) /\ sockmap[id].manual /\ Len(buffer[id]) < QueueBound /\ (setup.platform # "linux" => a \in sockmap[id].joined)

Arrive(a) ==
  /\ \E id \in Ids : Gets(id, a)
  /\ buffer' = [id \in Ids |-> IF Gets(id, a) THEN Append(buffer[id], a) ELSE buffer[id]]
  /\ UNCHANGED <<sockmap, subs, listeners, reader, overlaps, router, pnotify, connected, nullCall, lastHeard>>

\* A packet that a stranger sends to the port of one of the server's sockets.
ArriveAtServer(id) ==
  /\ Open(id) /\ ~sockmap[id].manual /\ Len(buffer[id]) < QueueBound
  /\ buffer' = [buffer EXCEPT ![id] = Append(@, CHOOSE a \in Addresses : TRUE)]
  /\ UNCHANGED <<sockmap, subs, listeners, reader, overlaps, router, pnotify, connected, nullCall, lastHeard>>

SocketsNext ==
  /\ ~nullCall /\ UNCHANGED setup
  /\ \/ RouterActs \/ StopRun
     \/ ReaderActs
     \/ \E id \in Ids : ThreadActs(id) \/ ReceiveFails(id) \/ WorkerActs(id) \/ ReadFails(id) \/ ArriveAtServer(id)
     \/ \E a \in Addresses : Arrive(a)

\* Each thread goes on, no read has to fail; a writer gets the lock that readers leave again
\* and again.
SocketsFairness ==
  /\ WF_sockVars(~nullCall /\ RouterActs)
  /\ SF_sockVars(~nullCall /\ (ServerShutdown \/ ClientShutdown))
  /\ WF_sockVars(~nullCall /\ ReaderActs)
  /\ \A id \in Ids : WF_sockVars(~nullCall /\ ThreadActs(id)) /\ WF_sockVars(~nullCall /\ WorkerActs(id))

SocketsSpec == SocketsInit /\ [][SocketsNext]_<<setup, sockVars>> /\ SocketsFairness

-----------------------------------------------------------------------------
(* Properties.                                                             *)

SocketsTypeOK ==
  /\ \A id \in Ids : sockmap[id] \in Entry \cup {NoEntry} /\ Len(buffer[id]) <= QueueBound
  /\ subs \subseteq Addresses \X Ids
  /\ overlaps \in [Ids -> UnderWay \cup {"none", "lost", "failed", "ended"}]
  /\ connected \subseteq {a[1] : a \in Addresses}

\* A universe that is shown as connected is joined on every interface that was selected, by
\* a socket with a thread, unless a read of that socket has failed, of which nothing is shown;
\* a universe that is not shown has no membership left, however far it got; and no socket has
\* more memberships than the system gives it.
ShownIsJoined ==
  router.at = "run" =>
    /\ \A n \in DOMAIN setup.universes, i \in ToSet(setup.listed) :
         LET holders == {id \in Ids : Exists(id) /\ <<setup.universes[n], i>> \in sockmap[id].joined}
         IN IF setup.universes[n] \in connected
            THEN \E id \in holders : ~Ended(listeners[id]) \/ listeners[id].pc = "failed"
            ELSE holders = {}
    /\ \A id \in Ids : Exists(id) => Cardinality(sockmap[id].sublist) <= Room

\* On Windows nothing is read into an entry that is gone, and of the server's sockets an entry
\* without a read is one that had no buffer for it, or is closed: its read could not be asked
\* for, or has failed.  One whose read has failed is deleted with the server; the others,
\* which nothing deletes before the library ends, are all that is left behind.
ReadsHaveEntries ==
  ~Select => \A id \in Ids :
    /\ overlaps[id] \in UnderWay => Exists(id) /\ ~sockmap[id].manual
    /\ Exists(id) /\ ~sockmap[id].manual /\ overlaps[id] \notin UnderWay =>
         \/ overlaps[id] = "lost"
         \/ ~Open(id) /\ overlaps[id] = "none"
         \/ ~Open(id) /\ overlaps[id] = "failed" /\ router.at \in {"listen", "server", "run", "stopServer"}

\* The read thread never waits in recvfrom with the lock in its hand.
ReaderNeverWaits ==
  reader.pc = "reading" => \A id \in reader.ready : Open(id) => buffer[id] # <<>>

SocketsSound == SocketsTypeOK /\ ShownIsJoined /\ ReadsHaveEntries /\ ReaderNeverWaits

\* What is abstracted: the addresses that were subscribed to, the last notification, and
\* how far the shutdown is.  A process that has ended is closed.  Linux hands over what any
\* socket of the machine has joined.
Promise == INSTANCE Listening WITH
  asked <- IF setup.platform = "linux" THEN Addresses ELSE {s[1] : s \in subs},
  heard <- lastHeard,
  stage <- IF nullCall \/ router.at \in {"stopNet", "joinNet", "end"} THEN "closed"
           ELSE IF router.at \in {"listen", "server", "run"} THEN "open" ELSE "closing"

\* The threads, sockets and buffers together do what Listening says: only what was asked for
\* is notified, nothing once Shutdown has returned, and Shutdown returns.
KeepsPromise == Promise!ListenSpec

\* "Kill off the notification in case some packets are sneaking through" (StreamClient.cpp):
\* no packet is notified through NULL.
NoNullCall == ~nullCall
=============================================================================
