-------------------------- MODULE SacnReceive_proofs --------------------------
(***************************************************************************)
(* The router has data of a source only while the client keeps a record of *)
(* it, is about to report its loss, or has been overtaken while it was     *)
(* making a notification; the same for per-channel priorities.  What is    *)
(* merged does not depend on what an earlier merge has left, so no update  *)
(* is forgotten, and the levels last routed are those of the merge.        *)
(* Proved for any number of sources, channels, socket threads and codes.   *)
(*                                                                         *)
(* Below them, the buffers of packets of the Windows build: the map of     *)
(* sockets is locked, every buffer is free or one socket's, and a socket   *)
(* stays in the map as long as a read of it can end.  Proved for any       *)
(* number of workers, sockets and buffers.                                 *)
(*                                                                         *)
(* Last, the sockets themselves and the threads on them, on every platform *)
(* the code is built for: what is shown as connected is joined, what was   *)
(* not can be used again, no thread waits with the lock in its hand; and   *)
(* every step of them is one that Listening allows.                        *)
(***************************************************************************)
EXTENDS SacnReceive, SocketBuffers, SacnSockets, Induction, FiniteSetTheorems

-----------------------------------------------------------------------------
(* What ParsePacket makes of a record.                                     *)

\* The fields of a record that decide what is reported when it expires, and that a
\* packet never takes back.
Keeps(e, after) == (e.doingDmx => after.doingDmx) /\ (e.doingPcp => after.doingPcp)

LEMMA WaitedKeeps ==
  ASSUME NEW e \in Record, NEW p
  PROVE  /\ Waited(e, p) \in Record /\ Keeps(e, Waited(e, p))
         /\ p.code = "priority" /\ Waited(e, p).waitedForDd /\ ~e.waitedForDd
              => Waited(e, p).doingPcp
<1>1. e.doingDmx \in BOOLEAN /\ e.waitedForDd \in BOOLEAN /\ e.prioLate \in BOOLEAN
  BY DEF Record
<1>2. CASE ~e.doingDmx
  <2>1. Waited(e, p) = [e EXCEPT !.prioLate = FALSE]
    BY <1>2 DEF Waited
  <2> QED BY <2>1 DEF Record, Keeps
<1>3. CASE e.doingDmx /\ ~e.waitedForDd /\ p.code = "priority"
  <2>1. Waited(e, p) = [e EXCEPT !.waitedForDd = TRUE, !.doingPcp = TRUE, !.prioLate = FALSE]
    BY <1>3 DEF Waited
  <2> QED BY <2>1 DEF Record, Keeps
<1>4. CASE e.doingDmx /\ ~e.waitedForDd /\ p.code # "priority" /\ e.prioLate
  <2>1. Waited(e, p) = [e EXCEPT !.waitedForDd = TRUE, !.prioLate = FALSE]
    BY <1>4 DEF Waited
  <2> QED BY <2>1, <1>4 DEF Record, Keeps
<1>5. CASE e.doingDmx /\ (e.waitedForDd \/ (p.code # "priority" /\ ~e.prioLate))
  <2>1. Waited(e, p) = e
    BY <1>5 DEF Waited
  <2>2. Keeps(e, e)
    BY DEF Keeps
  <2> QED BY <2>1, <2>2
<1>6. \/ ~e.doingDmx
      \/ e.doingDmx /\ ~e.waitedForDd /\ p.code = "priority"
      \/ e.doingDmx /\ ~e.waitedForDd /\ p.code # "priority" /\ e.prioLate
      \/ e.doingDmx /\ (e.waitedForDd \/ (p.code # "priority" /\ ~e.prioLate))
  OBVIOUS
<1> QED BY <1>2, <1>3, <1>4, <1>5, <1>6

LEMMA RefreshedKeeps ==
  ASSUME NEW e \in Record, NEW p \in Packet
  PROVE  /\ Refreshed(e, p) \in Record /\ Keeps(e, Refreshed(e, p))
         /\ p.code = "priority" /\ Refreshed(e, p).waitedForDd => Refreshed(e, p).doingPcp
<1>1. p.seq \in SeqNumber
  BY DEF Packet
<1> QED BY <1>1 DEF Refreshed, Record, Keeps

LEMMA AddedKeeps ==
  ASSUME NEW p \in Packet, sampling \in BOOLEAN
  PROVE  /\ Added(p) \in Record
         /\ p.code = "priority" /\ Added(p).waitedForDd => Added(p).doingPcp
<1>1. p.seq \in SeqNumber
  BY DEF Packet
<1> QED BY <1>1 DEF Added, Record

-----------------------------------------------------------------------------
(* The inductive invariant.                                                *)

\* TypeOK, without the results of the merge.
RecordTypes ==
  /\ client \in [Sources -> Record \cup {None}]
  /\ sampling \in BOOLEAN
  /\ net \in [Threads -> Packet \cup {None}]
  /\ rpc # "recv" => lost = {} /\ pcpLost = {}
  /\ source \in [Sources -> Universe \cup {Absent}]

\* A notification is of a source on record, or its thread is marked: the step that
\* takes the record away finds the thread between the lock and the notification.
NotificationsTracked ==
  \A t \in Threads : net[t] # None =>
    /\ \/ client[net[t].src] # None /\ client[net[t].src].doingDmx
       \/ t \in orphans
    /\ net[t].code = "priority" =>
         \/ client[net[t].src] # None /\ client[net[t].src].doingPcp
         \/ t \in orphans \cup pcpOrphans

IInv == RecordTypes /\ NotificationsTracked /\ GhostOnlyByRace /\ PcpOnlyByRace

LEMMA NoDataIsUniverse == ReceiveAssumption => NoData \in Universe
  BY DEF ReceiveAssumption, NoData, Universe, Priority, Ip

LEMMA StoredIsUniverse ==
  ASSUME ReceiveAssumption, NEW u \in Universe, NEW p \in Packet
  PROVE  /\ Stored(u, p) \in Universe
         /\ Stored(u, p).pcp => u.pcp \/ p.code = "priority"
<1>1. /\ p.code \in {"dmx", "priority", "other"} /\ p.priority \in Priority
      /\ p.value \in Levels /\ p.value \in Priority /\ p.src \in Ip
  BY DEF Packet, ReceiveAssumption, Sources, Ip
<1>2. CASE p.code = "dmx"
  <2>1. Stored(u, p) = [u EXCEPT !.priority = p.priority, !.ip = p.src,
                                 !.dmx = [c \in Channels |-> p.value]]
    BY <1>2 DEF Stored
  <2>2. [c \in Channels |-> p.value] \in [Channels -> Levels]
    BY <1>1
  <2> QED BY <2>1, <2>2, <1>1 DEF Universe
<1>3. CASE p.code = "priority"
  <2>1. Stored(u, p) = [u EXCEPT !.pcp = TRUE, !.ip = p.src,
                                 !.channelPriority = [c \in Channels |-> p.value]]
    BY <1>3 DEF Stored
  <2>2. [c \in Channels |-> p.value] \in [Channels -> Priority]
    BY <1>1
  <2> QED BY <2>1, <2>2, <1>1, <1>3 DEF Universe
<1>4. CASE p.code = "other"
  BY <1>4 DEF Stored
<1> QED BY <1>1, <1>2, <1>3, <1>4

LEMMA InitIInv == Init => IInv
<1> SUFFICES ASSUME Init PROVE IInv
  OBVIOUS
<1>1. RecordTypes /\ NotificationsTracked
  BY DEF Init, RecordTypes, NotificationsTracked
<1>2. GhostOnlyByRace /\ PcpOnlyByRace
  BY DEF Init, GhostOnlyByRace, PcpOnlyByRace
<1> QED BY <1>1, <1>2 DEF IInv

-----------------------------------------------------------------------------
(* The socket threads.                                                     *)

\* A step that changes one record, without taking anything back from it, and starts
\* notifications of that record only.
LEMMA RecordUpdated ==
  ASSUME IInv, NEW s \in Sources, NEW e \in Record,
         client' = [client EXCEPT ![s] = e],
         client[s] # None => Keeps(client[s], e),
         net' \in [Threads -> Packet \cup {None}],
         \A t \in Threads :
           \/ net'[t] \in {net[t], None}
           \/ /\ net'[t].src = s /\ e.doingDmx
              /\ net'[t].code = "priority" => e.doingPcp,
         UNCHANGED <<sampling, rpc, lost, pcpLost, source, ghostVars>>
  PROVE  IInv'
<1>1. /\ client \in [Sources -> Record \cup {None}] /\ net \in [Threads -> Packet \cup {None}]
      /\ UNCHANGED <<sampling, rpc, lost, pcpLost, source, orphans, pcpOrphans, ghosts, pcpGhosts>>
  BY DEF IInv, RecordTypes, ghostVars
<1>2. /\ client' \in [Sources -> Record \cup {None}]
      /\ client'[s] = e /\ e # None
      /\ \A r \in Sources : r # s => client'[r] = client[r]
  BY <1>1, NoneAssumption
<1>3. \A r \in Sources : client[r] # None =>
        /\ client'[r] # None
        /\ client[r].doingDmx => client'[r].doingDmx
        /\ client[r].doingPcp => client'[r].doingPcp
  BY <1>2 DEF Keeps
<1>4. RecordTypes'
  BY <1>1, <1>2 DEF IInv, RecordTypes
<1>5. NotificationsTracked'
  <2> SUFFICES ASSUME NEW t \in Threads, net'[t] # None
      PROVE  /\ \/ client'[net'[t].src] # None /\ client'[net'[t].src].doingDmx
                \/ t \in orphans
             /\ net'[t].code = "priority" =>
                  \/ client'[net'[t].src] # None /\ client'[net'[t].src].doingPcp
                  \/ t \in orphans \cup pcpOrphans
    BY <1>1 DEF NotificationsTracked
  <2>1. CASE net'[t] = net[t]
    <3>1. net[t].src \in Sources
      BY <2>1, <1>1 DEF Packet
    <3>2. net[t] # None
      BY <2>1
    <3> QED BY <2>1, <3>1, <3>2, <1>3 DEF IInv, NotificationsTracked
  <2>2. CASE net'[t].src = s /\ e.doingDmx /\ (net'[t].code = "priority" => e.doingPcp)
    BY <2>2, <1>2
  <2> QED BY <2>1, <2>2
<1>6. GhostOnlyByRace'
  BY <1>1, <1>3 DEF IInv, GhostOnlyByRace
<1>7. PcpOnlyByRace'
  BY <1>1, <1>3 DEF IInv, PcpOnlyByRace
<1> QED BY <1>4, <1>5, <1>6, <1>7 DEF IInv

LEMMA ReceiveTerminatedIInv ==
  ASSUME IInv, NEW t \in Threads, NEW s \in Sources, ReceiveTerminated(t, s) PROVE IInv'
<1> DEFINE e == [client[s] EXCEPT !.waitedForDd = FALSE, !.dataLate = FALSE,
                                  !.prioLate = @ /\ ~client[s].doingPcp]
<1>1. /\ client[s] \in Record /\ client' = [client EXCEPT ![s] = e]
      /\ UNCHANGED <<sampling, net, rpc, lost, pcpLost, source, ghostVars>>
  BY DEF ReceiveTerminated, IInv, RecordTypes, routerVars, recvVars
<1>2. e \in Record /\ Keeps(client[s], e)
  BY <1>1 DEF Record, Keeps
<1>3. net' \in [Threads -> Packet \cup {None}] /\ \A r \in Threads : net'[r] = net[r]
  BY <1>1 DEF IInv, RecordTypes
<1> HIDE DEF e
<1> QED BY <1>1, <1>2, <1>3, RecordUpdated

LEMMA TimerIInv ==
  ASSUME IInv, NEW s \in Sources, DataTimer(s) \/ PriorityTimer(s) PROVE IInv'
<1> DEFINE e == IF DataTimer(s) THEN [client[s] EXCEPT !.dataLate = TRUE]
                ELSE [client[s] EXCEPT !.prioLate = TRUE]
<1>1. /\ client[s] \in Record /\ client' = [client EXCEPT ![s] = e]
      /\ UNCHANGED <<sampling, net, rpc, lost, pcpLost, source, ghostVars>>
  BY DEF DataTimer, PriorityTimer, IInv, RecordTypes, routerVars, recvVars
<1>2. e \in Record /\ Keeps(client[s], e)
  BY <1>1 DEF Record, Keeps
<1>3. net' \in [Threads -> Packet \cup {None}] /\ \A r \in Threads : net'[r] = net[r]
  BY <1>1 DEF IInv, RecordTypes
<1> HIDE DEF e
<1> QED BY <1>1, <1>2, <1>3, RecordUpdated

LEMMA ReceiveIInv ==
  ASSUME IInv, NEW t \in Threads, NEW p \in Packet, Receive(t, p) PROVE IInv'
<1> DEFINE known == client[p.src] # None
           before == IF known THEN Refreshed(client[p.src], p) ELSE Added(p)
           e == Waited(before, p)
<1>1. p.src \in Sources /\ (known => client[p.src] \in Record) /\ sampling \in BOOLEAN
  BY DEF Packet, IInv, RecordTypes
<1>2. /\ client' = [client EXCEPT ![p.src] = e]
      /\ \/ net' = [net EXCEPT ![t] = p] /\ e.doingDmx /\ e.waitedForDd
         \/ net' = [net EXCEPT ![t] = None]
      /\ UNCHANGED <<sampling, rpc, lost, pcpLost, source, ghostVars>>
  BY DEF Receive, routerVars, recvVars
<1>3. /\ before \in Record /\ (known => Keeps(client[p.src], before))
      /\ p.code = "priority" /\ before.waitedForDd => before.doingPcp
  BY <1>1, RefreshedKeeps, AddedKeeps
<1> HIDE DEF known, before
<1>4. /\ e \in Record /\ Keeps(before, e)
      /\ p.code = "priority" /\ e.waitedForDd /\ ~before.waitedForDd => e.doingPcp
  BY <1>3, WaitedKeeps
<1> HIDE DEF e
<1>5. /\ known => Keeps(client[p.src], e)
      /\ p.code = "priority" /\ e.waitedForDd => e.doingPcp
  BY <1>3, <1>4 DEF Keeps
<1>6. /\ net' \in [Threads -> Packet \cup {None}]
      /\ \A r \in Threads :
           \/ net'[r] \in {net[r], None}
           \/ /\ net'[r].src = p.src /\ e.doingDmx
              /\ net'[r].code = "priority" => e.doingPcp
  <2>1. net \in [Threads -> Packet \cup {None}]
    BY DEF IInv, RecordTypes
  <2> QED BY <2>1, <1>2, <1>5
<1>7. client[p.src] # None => Keeps(client[p.src], e)
  BY <1>5 DEF known
<1> QED BY <1>1, <1>2, <1>4, <1>6, <1>7, RecordUpdated
LEMMA UniverseDataIInv ==
  ASSUME ReceiveAssumption, IInv, NEW t \in Threads, UniverseData(t) PROVE IInv'
<1> DEFINE p == net[t]
           u == IF source[p.src] = Absent THEN NoData ELSE source[p.src]
<1>1. /\ client \in [Sources -> Record \cup {None}] /\ net \in [Threads -> Packet \cup {None}]
      /\ source \in [Sources -> Universe \cup {Absent}]
      /\ net[t] # None /\ p \in Packet /\ p.src \in Sources
  BY DEF IInv, RecordTypes, UniverseData, Packet
<1>2. /\ source' = [source EXCEPT ![p.src] = Stored(u, p)]
      /\ net' = [net EXCEPT ![t] = None]
      /\ orphans' = orphans \ {t} /\ pcpOrphans' = pcpOrphans \ {t}
      /\ ghosts' = IF t \in orphans THEN ghosts \cup {p.src} ELSE ghosts
      /\ pcpGhosts' = IF t \in pcpOrphans THEN pcpGhosts \cup {p.src} ELSE pcpGhosts
      /\ UNCHANGED <<client, sampling, rpc, lost, pcpLost>>
  BY DEF UniverseData, LeavesGhost, clientVars, routerVars
<1>3. u \in Universe /\ (u.pcp => source[p.src] # Absent /\ source[p.src].pcp)
  <2>1. NoData \in Universe /\ ~NoData.pcp
    BY NoDataIsUniverse DEF NoData
  <2> QED BY <2>1, <1>1
<1>4. /\ Stored(u, p) \in Universe
      /\ Stored(u, p).pcp => p.code = "priority" \/ (source[p.src] # Absent /\ source[p.src].pcp)
  <2>1. p \in Packet /\ u \in Universe
    BY <1>1, <1>3
  <2> HIDE DEF p, u
  <2>2. Stored(u, p) \in Universe /\ (Stored(u, p).pcp => u.pcp \/ p.code = "priority")
    BY <2>1, StoredIsUniverse
  <2> QED BY <2>2, <1>3
<1>5. /\ \/ client[p.src] # None /\ client[p.src].doingDmx
         \/ t \in orphans
      /\ p.code = "priority" =>
           \/ client[p.src] # None /\ client[p.src].doingPcp
           \/ t \in orphans \cup pcpOrphans
  BY <1>1 DEF IInv, NotificationsTracked
<1> HIDE DEF p, u
<1>6. RecordTypes'
  BY <1>1, <1>2, <1>4 DEF IInv, RecordTypes
<1>7. NotificationsTracked'
  BY <1>1, <1>2 DEF IInv, NotificationsTracked
<1>8. GhostOnlyByRace'
  <2> SUFFICES ASSUME NEW s \in Sources, source'[s] # Absent
               PROVE  \/ client[s] # None /\ client[s].doingDmx
                      \/ s \in lost \/ s \in ghosts'
    BY <1>2 DEF GhostOnlyByRace
  <2>1. CASE s = p.src
    BY <2>1, <1>2, <1>5
  <2>2. CASE s # p.src
    BY <2>2, <1>1, <1>2 DEF IInv, GhostOnlyByRace
  <2> QED BY <2>1, <2>2
<1>9. PcpOnlyByRace'
  <2> SUFFICES ASSUME NEW s \in Sources, source'[s] # Absent, source'[s].pcp
               PROVE  \/ client[s] # None /\ client[s].doingPcp
                      \/ s \in lost \cup pcpLost \/ s \in ghosts' \cup pcpGhosts'
    BY <1>2 DEF PcpOnlyByRace
  <2>1. CASE source[s] # Absent /\ source[s].pcp
    BY <2>1, <1>2 DEF IInv, PcpOnlyByRace
  <2>2. CASE s = p.src /\ p.code = "priority"
    BY <2>2, <1>2, <1>5
  <2> QED BY <2>1, <2>2, <1>1, <1>2, <1>4
<1> QED BY <1>6, <1>7, <1>8, <1>9 DEF IInv

-----------------------------------------------------------------------------
(* The router thread, and the steps that leave the records alone.          *)

LEMMA UntouchedIInv ==
  ASSUME IInv, sampling' \in BOOLEAN, rpc' # "recv" => lost = {} /\ pcpLost = {},
         UNCHANGED <<client, net, lost, pcpLost, source, ghostVars>>
  PROVE  IInv'
<1>1. UNCHANGED <<client, net, lost, pcpLost, source, orphans, pcpOrphans, ghosts, pcpGhosts>>
  BY DEF ghostVars
<1>2. RecordTypes' /\ NotificationsTracked'
  BY <1>1 DEF IInv, RecordTypes, NotificationsTracked
<1>3. GhostOnlyByRace' /\ PcpOnlyByRace'
  BY <1>1 DEF IInv, GhostOnlyByRace, PcpOnlyByRace
<1> QED BY <1>2, <1>3 DEF IInv

LEMMA PollIInv ==
  ASSUME IInv, StartLoopWithPoll PROVE IInv'
<1>1. /\ client \in [Sources -> Record \cup {None}] /\ net \in [Threads -> Packet \cup {None}]
      /\ sampling \in BOOLEAN /\ lost = {} /\ pcpLost = {}
  BY DEF IInv, RecordTypes, StartLoopWithPoll
<1>2. /\ rpc' = "recv" /\ lost' = ToNotify /\ pcpLost' = PrioritiesExpired
      /\ client' = [s \in Sources |->
           IF s \in DataExpired THEN None
           ELSE IF s \in PrioritiesExpired THEN [client[s] EXCEPT !.doingPcp = FALSE]
           ELSE client[s]]
      /\ sampling' \in {sampling, FALSE}
      /\ orphans' = orphans \cup {t \in Threads : net[t] # None /\ net[t].src \in DataExpired}
      /\ pcpOrphans' = pcpOrphans \cup
           {t \in Threads : /\ net[t] # None
                            /\ net[t].src \in PrioritiesExpired
                            /\ net[t].code = "priority"}
      /\ UNCHANGED <<net, source, ghosts, pcpGhosts>>
  BY DEF StartLoopWithPoll, recvVars
<1>3. ASSUME NEW s \in Sources
      PROVE  /\ s \in DataExpired => client[s] # None /\ (s \in ToNotify <=> client[s].doingDmx)
             /\ s \in PrioritiesExpired => client[s] # None /\ s \notin DataExpired
  BY DEF DataExpired, PrioritiesExpired, ToNotify
<1> DEFINE kept(s) ==
      /\ client'[s] # None /\ client'[s] \in Record
      /\ client'[s].doingDmx = client[s].doingDmx
      /\ client'[s].doingPcp = client[s].doingPcp \/ s \in PrioritiesExpired
<1>4. ASSUME NEW s \in Sources, client[s] # None, s \notin DataExpired
      PROVE  kept(s)
  <2>1. client[s] \in Record /\ None \notin Record
    BY <1>1, <1>4, NoneAssumption
  <2>2. CASE s \in PrioritiesExpired
    <3>1. client'[s] = [client[s] EXCEPT !.doingPcp = FALSE]
      BY <2>2, <1>2, <1>4
    <3>2. [client[s] EXCEPT !.doingPcp = FALSE] \in Record
      BY <2>1 DEF Record
    <3> QED BY <3>1, <3>2, <2>1, <2>2 DEF Record
  <2>3. CASE s \notin PrioritiesExpired
    BY <2>1, <2>3, <1>2, <1>4
  <2> QED BY <2>2, <2>3
<1>5. RecordTypes'
  <2>1. \A s \in Sources : client'[s] \in Record \cup {None}
    <3> TAKE s \in Sources
    <3>1. CASE client[s] # None /\ s \notin DataExpired
      BY <3>1, <1>4
    <3>2. CASE client[s] = None \/ s \in DataExpired
      BY <3>2, <1>2, <1>3
    <3> QED BY <3>1, <3>2
  <2> QED BY <2>1, <1>1, <1>2 DEF IInv, RecordTypes
<1>6. NotificationsTracked'
  <2> SUFFICES ASSUME NEW t \in Threads, net[t] # None
      PROVE  /\ \/ client'[net[t].src] # None /\ client'[net[t].src].doingDmx
                \/ t \in orphans'
             /\ net[t].code = "priority" =>
                  \/ client'[net[t].src] # None /\ client'[net[t].src].doingPcp
                  \/ t \in orphans' \cup pcpOrphans'
    BY <1>2 DEF NotificationsTracked
  <2>1. net[t].src \in Sources
    BY <1>1 DEF Packet
  <2>2. CASE net[t].src \in DataExpired
    BY <2>2, <1>2
  <2>3. CASE net[t].src \notin DataExpired
    BY <2>1, <2>3, <1>2, <1>4 DEF IInv, NotificationsTracked
  <2> QED BY <2>2, <2>3
<1>7. GhostOnlyByRace'
  <2> SUFFICES ASSUME NEW s \in Sources, source[s] # Absent
               PROVE  \/ client'[s] # None /\ client'[s].doingDmx
                      \/ s \in ToNotify \/ s \in ghosts
    BY <1>2 DEF GhostOnlyByRace
  <2>1. (client[s] # None /\ client[s].doingDmx) \/ s \in ghosts
    BY <1>1 DEF IInv, GhostOnlyByRace
  <2> QED BY <2>1, <1>3, <1>4
<1>8. PcpOnlyByRace'
  <2> SUFFICES ASSUME NEW s \in Sources, source[s] # Absent, source[s].pcp
               PROVE  \/ client'[s] # None /\ client'[s].doingPcp
                      \/ s \in ToNotify \cup PrioritiesExpired \/ s \in ghosts \cup pcpGhosts
    BY <1>2 DEF PcpOnlyByRace
  <2>1. /\ (client[s] # None /\ client[s].doingDmx) \/ s \in ghosts
        /\ (client[s] # None /\ client[s].doingPcp) \/ s \in ghosts \cup pcpGhosts
    BY <1>1 DEF IInv, GhostOnlyByRace, PcpOnlyByRace
  <2> QED BY <2>1, <1>3, <1>4
<1> QED BY <1>5, <1>6, <1>7, <1>8 DEF IInv

LEMMA SourceDisappearedIInv ==
  ASSUME IInv, NEW s \in Sources, SourceDisappeared(s) PROVE IInv'
<1>1. /\ rpc = "recv" /\ lost' = lost \ {s} /\ source' = [source EXCEPT ![s] = Absent]
      /\ ghosts' = ghosts \ {s} /\ pcpGhosts' = pcpGhosts \ {s}
      /\ UNCHANGED <<client, sampling, net, rpc, pcpLost, orphans, pcpOrphans>>
  BY DEF SourceDisappeared, clientVars
<1>2. /\ source' \in [Sources -> Universe \cup {Absent}] /\ source'[s] = Absent
      /\ \A r \in Sources : r # s => source'[r] = source[r]
  BY <1>1 DEF IInv, RecordTypes
<1>3. RecordTypes' /\ NotificationsTracked'
  BY <1>1, <1>2 DEF IInv, RecordTypes, NotificationsTracked
<1>4. GhostOnlyByRace' /\ PcpOnlyByRace'
  BY <1>1, <1>2 DEF IInv, GhostOnlyByRace, PcpOnlyByRace
<1> QED BY <1>3, <1>4 DEF IInv

LEMMA SourcePCPExpiredIInv ==
  ASSUME IInv, NEW s \in Sources, SourcePCPExpired(s) PROVE IInv'
<1> DEFINE expires == source[s] # Absent /\ source[s].pcp
<1>1. /\ rpc = "recv" /\ pcpLost' = pcpLost \ {s} /\ pcpGhosts' = pcpGhosts \ {s}
      /\ source' = IF expires THEN [source EXCEPT ![s].pcp = FALSE] ELSE source
      /\ UNCHANGED <<client, sampling, net, rpc, lost, orphans, pcpOrphans, ghosts>>
  BY DEF SourcePCPExpired, clientVars
<1>2. source \in [Sources -> Universe \cup {Absent}]
  BY DEF IInv, RecordTypes
<1>3. /\ source' \in [Sources -> Universe \cup {Absent}]
      /\ source'[s] # Absent => ~source'[s].pcp
      /\ \A r \in Sources : r # s => source'[r] = source[r]
      /\ \A r \in Sources : source'[r] # Absent => source[r] # Absent
  <2>1. CASE expires
    <3>1. [source[s] EXCEPT !.pcp = FALSE] \in Universe
      BY <2>1, <1>2 DEF Universe
    <3>2. source' = [source EXCEPT ![s] = [source[s] EXCEPT !.pcp = FALSE]]
      BY <2>1, <1>1
    <3>3. ~[source[s] EXCEPT !.pcp = FALSE].pcp
      BY <2>1, <1>2 DEF Universe
    <3> QED BY <3>1, <3>2, <3>3, <2>1, <1>2
  <2>2. CASE ~expires
    BY <2>2, <1>1, <1>2
  <2> QED BY <2>1, <2>2
<1> HIDE DEF expires
<1>4. RecordTypes' /\ NotificationsTracked'
  BY <1>1, <1>3 DEF IInv, RecordTypes, NotificationsTracked
<1>5. GhostOnlyByRace'
  BY <1>1, <1>3 DEF IInv, GhostOnlyByRace
<1>6. PcpOnlyByRace'
  BY <1>1, <1>3 DEF IInv, PcpOnlyByRace
<1> QED BY <1>4, <1>5, <1>6 DEF IInv

LEMMA NextIInv == ReceiveAssumption /\ IInv /\ [Next]_vars => IInv'
<1> SUFFICES ASSUME ReceiveAssumption, IInv, [Next]_vars PROVE IInv'
  OBVIOUS
<1>1. ASSUME NEW t \in Threads, NEW s \in Sources, ReceiveTerminated(t, s) PROVE IInv'
  BY <1>1, ReceiveTerminatedIInv
<1>2. ASSUME NEW t \in Threads, NEW p \in Packet, Receive(t, p) PROVE IInv'
  BY <1>2, ReceiveIInv
<1>3. ASSUME NEW t \in Threads, UniverseData(t) PROVE IInv'
  BY <1>3, UniverseDataIInv
<1>4. ASSUME NEW s \in Sources, DataTimer(s) \/ PriorityTimer(s) PROVE IInv'
  BY <1>4, TimerIInv
<1>5. sampling \in BOOLEAN /\ (rpc # "recv" => lost = {} /\ pcpLost = {})
  BY DEF IInv, RecordTypes
<1>6. CASE Sync \/ ListenUniverse \/ StartLoop \/ RecvsACN \/ RecvsACNClean
  <2>1. /\ sampling' \in BOOLEAN /\ (rpc' # "recv" => lost = {} /\ pcpLost = {})
        /\ UNCHANGED <<client, net, lost, pcpLost, source, ghostVars>>
    BY <1>5, <1>6 DEF Sync, ListenUniverse, StartLoop, RecvsACN, RecvsACNClean,
                      clientVars, routerVars, recvVars
  <2> QED BY <2>1, UntouchedIInv
<1>7. ASSUME NEW s \in Sources, GoSilent(s) PROVE IInv'
  <2>1. UNCHANGED <<client, sampling, net, rpc, lost, pcpLost, source, ghostVars>>
    BY <1>7 DEF GoSilent, clientVars, routerVars, recvVars
  <2> QED BY <2>1, <1>5, UntouchedIInv
<1>8. CASE StartLoopWithPoll
  BY <1>8, PollIInv
<1>9. ASSUME NEW s \in Sources, SourceDisappeared(s) \/ SourcePCPExpired(s) PROVE IInv'
  BY <1>9, SourceDisappearedIInv, SourcePCPExpiredIInv
<1>10. CASE UNCHANGED vars
  <2>1. UNCHANGED <<client, sampling, net, rpc, lost, pcpLost, source, ghostVars>>
    BY <1>10 DEF vars, clientVars, routerVars, recvVars
  <2> QED BY <2>1, <1>5, UntouchedIInv
<1> QED BY <1>1, <1>2, <1>3, <1>4, <1>6, <1>7, <1>8, <1>9, <1>10 DEF Next, Router

-----------------------------------------------------------------------------
(* The merge: its loop keeps the types, and what it starts from is not     *)
(* seen in what it ends with.                                              *)

\* The two agree in all that a universe shows and that the merge reads.
Same(m, w) ==
  /\ m.dmx = w.dmx /\ m.ip = w.ip /\ m.pcp = w.pcp
  /\ m.pcp => m.channelPriority = w.channelPriority
  /\ ~m.pcp => m.priority = w.priority

LEMMA FirstInstanceFields ==
  ASSUME NEW m \in Universe, NEW u \in Universe
  PROVE  LET f == FirstInstance(m, u)
         IN  /\ f \in Universe
             /\ f.ip = u.ip /\ f.dmx = u.dmx /\ f.pcp = u.pcp
             /\ u.pcp => f.channelPriority = u.channelPriority
             /\ ~u.pcp => f.priority = u.priority
<1>1. CASE u.pcp
  <2>1. FirstInstance(m, u) = [m EXCEPT !.ip = u.ip, !.dmx = u.dmx, !.pcp = u.pcp,
                                        !.channelPriority = u.channelPriority, !.priority = m.priority]
    BY <1>1 DEF FirstInstance, Universe
  <2> QED BY <1>1, <2>1 DEF Universe
<1>2. CASE ~u.pcp
  <2>1. FirstInstance(m, u) = [m EXCEPT !.ip = u.ip, !.dmx = u.dmx, !.pcp = u.pcp,
                                        !.channelPriority = m.channelPriority, !.priority = u.priority]
    BY <1>2 DEF FirstInstance, Universe
  <2> QED BY <1>2, <2>1 DEF Universe
<1> QED BY <1>1, <1>2

\* TakeWhere, field by field.
LEMMA TakeWhereFields ==
  ASSUME NEW m \in Universe, NEW u \in Universe, NEW wins \in SUBSET Channels,
         NEW chosen \in [Channels -> Priority]
  PROVE  LET f == TakeWhere(m, u, wins, chosen)
         IN  /\ f \in Universe /\ f.pcp /\ f.channelPriority = chosen
             /\ f.dmx = [c \in Channels |-> IF c \in wins THEN u.dmx[c] ELSE m.dmx[c]]
             /\ f.ip = IF wins # {} THEN u.ip ELSE m.ip
<1> DEFINE levels == [c \in Channels |-> IF c \in wins THEN u.dmx[c] ELSE m.dmx[c]]
           from == IF wins # {} THEN u.ip ELSE m.ip
<1>1. levels \in [Channels -> Levels] /\ from \in Ip BY DEF Universe
<1>2. TakeWhere(m, u, wins, chosen) =
        [m EXCEPT !.dmx = levels, !.channelPriority = chosen, !.pcp = TRUE, !.ip = from]
  BY DEF TakeWhere, Universe
<1> HIDE DEF levels, from
<1>3. [m EXCEPT !.dmx = levels, !.channelPriority = chosen, !.pcp = TRUE, !.ip = from] \in Universe
  BY <1>1 DEF Universe
<1>4. LET f == [m EXCEPT !.dmx = levels, !.channelPriority = chosen, !.pcp = TRUE, !.ip = from]
      IN  f.pcp /\ f.channelPriority = chosen /\ f.dmx = levels /\ f.ip = from
  BY DEF Universe
<1> QED BY <1>2, <1>3, <1>4 DEF levels, from

\* A further source changes the same in universes that show the same.
LEMMA MergeIntoSame ==
  ASSUME NEW m \in Universe, NEW w \in Universe, NEW u \in Universe, Same(m, w)
  PROVE  MergeInto(m, u) \in Universe /\ Same(MergeInto(m, u), MergeInto(w, u))
<1>0. /\ m.dmx = w.dmx /\ m.ip = w.ip /\ m.pcp = w.pcp
      /\ m.pcp => m.channelPriority = w.channelPriority
      /\ ~m.pcp => m.priority = w.priority
      /\ m.pcp \in BOOLEAN /\ u.pcp \in BOOLEAN
      /\ m.channelPriority \in [Channels -> Priority] /\ u.channelPriority \in [Channels -> Priority]
      /\ m.priority \in Priority /\ u.priority \in Priority
  BY DEF Same, Universe
<1>1. ASSUME NEW wins \in SUBSET Channels, NEW chosen \in [Channels -> Priority],
             MergeInto(m, u) = TakeWhere(m, u, wins, chosen),
             MergeInto(w, u) = TakeWhere(w, u, wins, chosen)
      PROVE  MergeInto(m, u) \in Universe /\ Same(MergeInto(m, u), MergeInto(w, u))
  <2> DEFINE f == TakeWhere(m, u, wins, chosen)
             h == TakeWhere(w, u, wins, chosen)
  <2>1. /\ f \in Universe /\ f.pcp /\ f.channelPriority = chosen
        /\ f.dmx = [c \in Channels |-> IF c \in wins THEN u.dmx[c] ELSE m.dmx[c]]
        /\ f.ip = IF wins # {} THEN u.ip ELSE m.ip
    BY TakeWhereFields
  <2>2. /\ h \in Universe /\ h.pcp /\ h.channelPriority = chosen
        /\ h.dmx = [c \in Channels |-> IF c \in wins THEN u.dmx[c] ELSE w.dmx[c]]
        /\ h.ip = IF wins # {} THEN u.ip ELSE w.ip
    BY TakeWhereFields
  <2> HIDE DEF f, h
  <2>3. f.pcp = TRUE /\ h.pcp = TRUE BY <2>1, <2>2 DEF Universe
  <2>4. f.dmx = h.dmx /\ f.ip = h.ip BY <2>1, <2>2, <1>0
  <2>5. Same(f, h) BY <2>1, <2>2, <2>3, <2>4 DEF Same
  <2> QED BY <2>1, <2>5, <1>1 DEF f, h
<1>2. CASE u.pcp /\ m.pcp
  <2> DEFINE wins == {c \in Channels : u.channelPriority[c] > m.channelPriority[c]}
             chosen == [c \in Channels |-> IF c \in wins THEN u.channelPriority[c] ELSE m.channelPriority[c]]
  <2>1. wins \in SUBSET Channels /\ chosen \in [Channels -> Priority] BY <1>0
  <2>2. /\ MergeInto(m, u) = TakeWhere(m, u, wins, chosen)
        /\ MergeInto(w, u) = TakeWhere(w, u, wins, chosen)
    BY <1>0, <1>2 DEF MergeInto, PcpIntoPcp
  <2> HIDE DEF wins, chosen
  <2> QED BY <2>1, <2>2, <1>1
<1>3. CASE u.pcp /\ ~m.pcp
  <2> DEFINE wins == {c \in Channels : u.channelPriority[c] > m.priority}
             chosen == [c \in Channels |-> IF c \in wins THEN u.channelPriority[c] ELSE m.priority]
  <2>1. wins \in SUBSET Channels /\ chosen \in [Channels -> Priority] BY <1>0
  <2>2. /\ MergeInto(m, u) = TakeWhere(m, u, wins, chosen)
        /\ MergeInto(w, u) = TakeWhere(w, u, wins, chosen)
    BY <1>0, <1>3 DEF MergeInto, PcpIntoBasic
  <2> HIDE DEF wins, chosen
  <2> QED BY <2>1, <2>2, <1>1
<1>4. CASE ~u.pcp /\ m.pcp
  <2> DEFINE wins == {c \in Channels : u.priority > m.channelPriority[c]}
             chosen == [c \in Channels |-> IF c \in wins THEN u.priority ELSE m.channelPriority[c]]
  <2>1. wins \in SUBSET Channels /\ chosen \in [Channels -> Priority] BY <1>0
  <2>2. /\ MergeInto(m, u) = TakeWhere(m, u, wins, chosen)
        /\ MergeInto(w, u) = TakeWhere(w, u, wins, chosen)
    BY <1>0, <1>4 DEF MergeInto, BasicIntoPcp
  <2> HIDE DEF wins, chosen
  <2> QED BY <2>1, <2>2, <1>1
<1>5. CASE ~u.pcp /\ ~m.pcp
  <2>1. MergeInto(m, u) = BasicIntoBasic(m, u) /\ MergeInto(w, u) = BasicIntoBasic(w, u)
    BY <1>0, <1>5 DEF MergeInto
  <2>2. CASE u.priority > m.priority
    <3> DEFINE f == [m EXCEPT !.dmx = u.dmx, !.priority = u.priority, !.ip = u.ip]
               h == [w EXCEPT !.dmx = u.dmx, !.priority = u.priority, !.ip = u.ip]
    <3>1. MergeInto(m, u) = f /\ MergeInto(w, u) = h BY <2>1, <2>2, <1>0, <1>5 DEF BasicIntoBasic
    <3>2. f \in Universe BY DEF Universe
    <3>3. /\ f.dmx = u.dmx /\ f.priority = u.priority /\ f.ip = u.ip /\ f.pcp = m.pcp
          /\ h.dmx = u.dmx /\ h.priority = u.priority /\ h.ip = u.ip /\ h.pcp = w.pcp
      BY DEF Universe
    <3> HIDE DEF f, h
    <3>4. Same(f, h) BY <3>3, <1>0, <1>5 DEF Same
    <3> QED BY <3>1, <3>2, <3>4
  <2>3. CASE ~(u.priority > m.priority)
    <3>1. MergeInto(m, u) = m /\ MergeInto(w, u) = w BY <2>1, <2>3, <1>0, <1>5 DEF BasicIntoBasic
    <3> QED BY <3>1
  <2> QED BY <2>2, <2>3
<1> QED BY <1>0, <1>2, <1>3, <1>4, <1>5

\* What the loop carries along, and one turn of it.
Carried == [active: BOOLEAN, merged: Universe]
Folded(before, u) ==
  IF u = Absent THEN before
  ELSE [active |-> TRUE,
        merged |-> IF before.active THEN MergeInto(before.merged, u) ELSE FirstInstance(before.merged, u)]
Begun(left) == [active |-> FALSE, merged |-> IF left = Absent THEN NoData ELSE left]

LEMMA FoldedCarried ==
  ASSUME NEW d \in Carried, NEW u \in Universe \cup {Absent}
  PROVE  Folded(d, u) \in Carried
<1>1. d.merged \in Universe /\ d.active \in BOOLEAN BY DEF Carried
<1>2. CASE u = Absent BY <1>2 DEF Folded
<1>3. CASE u # Absent
  <2>1. u \in Universe BY <1>3
  <2>2. Same(d.merged, d.merged) BY DEF Same
  <2>3. MergeInto(d.merged, u) \in Universe /\ FirstInstance(d.merged, u) \in Universe
    BY <1>1, <2>1, <2>2, MergeIntoSame, FirstInstanceFields
  <2> QED BY <1>3, <2>3 DEF Folded, Carried
<1> QED BY <1>2, <1>3

\* MergeAll is the end of such a loop.
LEMMA MergeAllLoops ==
  ASSUME ReceiveAssumption, NEW left \in Universe \cup {Absent},
         NEW src \in [Sources -> Universe \cup {Absent}]
  PROVE  \E g \in [0..N -> Carried] :
           /\ g[0] = Begun(left)
           /\ \A k \in 1..N : g[k] = Folded(g[k - 1], src[k])
           /\ MergeAll(left, src) = IF g[N].active THEN g[N].merged ELSE Absent
<1> DEFINE Turn(before, k) ==
             IF k = 0
             THEN [active |-> FALSE, merged |-> IF left = Absent THEN NoData ELSE left]
             ELSE CASE src[k] = Absent -> before
                    [] src[k] # Absent /\ ~before.active ->
                         [active |-> TRUE, merged |-> FirstInstance(before.merged, src[k])]
                    [] src[k] # Absent /\ before.active ->
                         [active |-> TRUE, merged |-> MergeInto(before.merged, src[k])]
           RunsAs(g) == g = [k \in 0..N |-> Turn(g[k - 1], k)]
           Loops(g) == g[0] = Begun(left) /\ \A k \in 1..N : g[k] = Folded(g[k - 1], src[k])
           step == [k \in 1..N |-> [d \in Carried |-> Folded(d, src[k])]]
           pass == CHOOSE g : RunsAs(g)
<1>1. N \in Nat /\ \A k \in 1..N : src[k] \in Universe \cup {Absent}
  BY DEF ReceiveAssumption, Sources
<1>2. Begun(left) \in Carried BY NoDataIsUniverse DEF Begun, Carried
<1>3. step \in Steps(N, Carried) BY <1>1, FoldedCarried DEF Steps
<1>4. PICK g : Runs(g, N, Carried, Begun(left), step)
  <2> HIDE DEF step
  <2> QED BY <1>1, <1>2, <1>3, IterationExists
<1>5. g \in [0..N -> Carried] /\ Loops(g)
  <2>1. \A k \in 1..N : k - 1 \in 0..N /\ g[k - 1] \in Carried BY <1>1, <1>4 DEF Runs
  <2>2. \A k \in 1..N : step[k][g[k - 1]] = Folded(g[k - 1], src[k]) BY <2>1
  <2> HIDE DEF step
  <2> QED BY <1>4, <2>2 DEF Runs
<1> HIDE DEF step
<1>6. ASSUME NEW d \in Carried, NEW k \in 0..N, k # 0
      PROVE  Folded(d, src[k]) = Turn(d, k)
  <2>1. d.active \in BOOLEAN BY DEF Carried
  <2>2. CASE src[k] = Absent BY <1>6, <2>2 DEF Folded
  <2>3. CASE src[k] # Absent /\ d.active BY <1>6, <2>3 DEF Folded
  <2>4. CASE src[k] # Absent /\ ~d.active BY <1>6, <2>4 DEF Folded
  <2> QED BY <2>1, <2>2, <2>3, <2>4
<1>7. \A d : Turn(d, 0) = Begun(left) BY DEF Begun
<1> HIDE DEF Turn
<1>8. \A k \in 0..N : g[k] = Turn(g[k - 1], k)
  <2> TAKE k \in 0..N
  <2>1. CASE k = 0 BY <2>1, <1>5, <1>7
  <2>2. CASE k # 0
    <3>1. k \in 1..N /\ k - 1 \in 0..N /\ g[k - 1] \in Carried BY <1>1, <1>5, <2>2
    <3> QED BY <3>1, <1>5, <1>6, <2>2
  <2> QED BY <2>1, <2>2
<1> HIDE DEF Loops
<1>9. RunsAs(pass)
  <2>1. g = [k \in 0..N |-> g[k]] BY <1>5
  <2>2. RunsAs(g) BY <1>8, <2>1
  <2> HIDE DEF RunsAs
  <2> QED BY <2>2
<1>10. pass = [k \in 0..N |-> pass[k]] /\ \A k \in 0..N : pass[k] = Turn(pass[k - 1], k)
  <2> HIDE DEF pass
  <2> QED BY <1>9
<1> HIDE DEF pass, RunsAs
<1>11. pass = g
  <2> DEFINE T == {k \in 0..N : pass[k] = g[k]}
  <2>1. 0 \in T
    <3>1. 0 \in 0..N BY <1>1
    <3>2. pass[0] = Turn(pass[0 - 1], 0) /\ g[0] = Turn(g[0 - 1], 0) BY <3>1, <1>8, <1>10
    <3>3. Turn(pass[0 - 1], 0) = Begun(left) /\ Turn(g[0 - 1], 0) = Begun(left) BY <1>7, Zenon
    <3> QED BY <3>1, <3>2, <3>3
  <2>2. ASSUME NEW k \in 0..N, k # N, k \in T PROVE k + 1 \in T
    <3>1. k + 1 \in 0..N /\ (k + 1) - 1 = k /\ pass[k] = g[k] BY <1>1, <2>2
    <3>2. pass[k + 1] = Turn(pass[k], k + 1) /\ g[k + 1] = Turn(g[k], k + 1) BY <1>8, <1>10, <3>1
    <3> QED BY <3>1, <3>2
  <2>3. 0..N \subseteq T
    <3> HIDE DEF T
    <3> QED BY <1>1, <2>1, <2>2, InductionUpTo
  <2>4. \A k \in 0..N : pass[k] = g[k] BY <2>3
  <2>5. g = [k \in 0..N |-> g[k]] BY <1>5
  <2> QED BY <1>10, <2>4, <2>5
<1>12. MergeAll(left, src) = IF pass[N].active THEN pass[N].merged ELSE Absent
  BY DEF MergeAll, pass, RunsAs, Turn
<1> QED BY <1>5, <1>11, <1>12 DEF Loops

LEMMA MergeAllIsUniverse ==
  ASSUME ReceiveAssumption, NEW left \in Universe \cup {Absent},
         NEW src \in [Sources -> Universe \cup {Absent}]
  PROVE  MergeAll(left, src) \in Universe \cup {Absent}
<1>1. PICK g \in [0..N -> Carried] :
        MergeAll(left, src) = IF g[N].active THEN g[N].merged ELSE Absent
  BY MergeAllLoops
<1>2. g[N] \in Carried BY DEF ReceiveAssumption
<1> QED BY <1>1, <1>2 DEF Carried

\* What an earlier merge has left is not seen: it is as if nothing had been there.
LEMMA MergeForgetsEarlier ==
  ASSUME ReceiveAssumption, NEW left \in Universe \cup {Absent},
         NEW src \in [Sources -> Universe \cup {Absent}]
  PROVE  Visible(MergeAll(left, src)) = Visible(MergeAll(Absent, src))
<1>0. N \in Nat /\ N \in 0..N /\ Absent \notin Universe
      /\ \A k \in 1..N : src[k] \in Universe \cup {Absent}
  BY DEF ReceiveAssumption, Sources
<1>1. PICK g \in [0..N -> Carried] :
        /\ g[0] = Begun(left)
        /\ \A k \in 1..N : g[k] = Folded(g[k - 1], src[k])
        /\ MergeAll(left, src) = IF g[N].active THEN g[N].merged ELSE Absent
  BY MergeAllLoops
<1>2. PICK h \in [0..N -> Carried] :
        /\ h[0] = Begun(Absent)
        /\ \A k \in 1..N : h[k] = Folded(h[k - 1], src[k])
        /\ MergeAll(Absent, src) = IF h[N].active THEN h[N].merged ELSE Absent
  BY MergeAllLoops
<1> DEFINE Alike(d, e) == d.active = e.active /\ (d.active => Same(d.merged, e.merged))
           T == {k \in 0..N : Alike(g[k], h[k])}
<1>3. 0 \in T
  <2>1. ~g[0].active /\ ~h[0].active /\ g[0].active = h[0].active BY <1>1, <1>2 DEF Begun
  <2>2. 0 \in 0..N BY <1>0
  <2> QED BY <2>1, <2>2
<1>4. ASSUME NEW d \in Carried, NEW e \in Carried, NEW u \in Universe \cup {Absent}, Alike(d, e)
      PROVE  Alike(Folded(d, u), Folded(e, u))
  <2>0. /\ d.merged \in Universe /\ e.merged \in Universe
        /\ d.active \in BOOLEAN /\ e.active \in BOOLEAN
    BY DEF Carried
  <2>1. CASE u = Absent BY <2>1, <1>4 DEF Folded
  <2>2. CASE u # Absent /\ d.active
    <3>1. u \in Universe /\ Same(d.merged, e.merged) /\ e.active BY <2>2, <1>4
    <3>2. Same(MergeInto(d.merged, u), MergeInto(e.merged, u)) BY <2>0, <3>1, MergeIntoSame
    <3>3. /\ Folded(d, u) = [active |-> TRUE, merged |-> MergeInto(d.merged, u)]
          /\ Folded(e, u) = [active |-> TRUE, merged |-> MergeInto(e.merged, u)]
      BY <2>2, <3>1 DEF Folded
    <3> QED BY <3>2, <3>3
  <2>3. CASE u # Absent /\ ~d.active
    <3>1. u \in Universe /\ ~e.active BY <2>3, <1>4, <2>0
    <3> DEFINE f == FirstInstance(d.merged, u)
               q == FirstInstance(e.merged, u)
    <3>4. /\ f.ip = u.ip /\ f.dmx = u.dmx /\ f.pcp = u.pcp
          /\ u.pcp => f.channelPriority = u.channelPriority
          /\ ~u.pcp => f.priority = u.priority
      BY <2>0, <3>1, FirstInstanceFields
    <3>5. /\ q.ip = u.ip /\ q.dmx = u.dmx /\ q.pcp = u.pcp
          /\ u.pcp => q.channelPriority = u.channelPriority
          /\ ~u.pcp => q.priority = u.priority
      BY <2>0, <3>1, FirstInstanceFields
    <3>2. Same(f, q)
      <4> HIDE DEF f, q
      <4> QED BY <3>4, <3>5 DEF Same
    <3>3. /\ Folded(d, u) = [active |-> TRUE, merged |-> FirstInstance(d.merged, u)]
          /\ Folded(e, u) = [active |-> TRUE, merged |-> FirstInstance(e.merged, u)]
      BY <2>3, <3>1 DEF Folded
    <3> QED BY <3>2, <3>3
  <2> QED BY <2>0, <2>1, <2>2, <2>3
<1>5. ASSUME NEW k \in 0..N, k # N, k \in T PROVE k + 1 \in T
  <2>1. k + 1 \in 1..N /\ k + 1 \in 0..N /\ (k + 1) - 1 = k BY <1>0, <1>5
  <2>2. g[k] \in Carried /\ h[k] \in Carried /\ Alike(g[k], h[k]) BY <1>5
  <2> HIDE DEF Alike
  <2>3. g[k + 1] = Folded(g[k], src[k + 1]) /\ h[k + 1] = Folded(h[k], src[k + 1])
    BY <1>1, <1>2, <2>1
  <2>4. Alike(g[k + 1], h[k + 1]) BY <1>0, <1>4, <2>1, <2>2, <2>3
  <2> QED BY <2>1, <2>4
<1>6. Alike(g[N], h[N])
  <2> HIDE DEF T
  <2>1. 0..N \subseteq T BY <1>0, <1>3, <1>5, InductionUpTo
  <2> QED BY <1>0, <2>1 DEF T
<1>7. g[N] \in Carried /\ h[N] \in Carried BY <1>0
<1>8. CASE ~g[N].active BY <1>1, <1>2, <1>6, <1>7, <1>8 DEF Carried
<1>9. CASE g[N].active
  <2> DEFINE m == MergeAll(left, src)
             w == MergeAll(Absent, src)
  <2>1. m \in Universe /\ w \in Universe /\ Same(m, w) BY <1>1, <1>2, <1>6, <1>7, <1>9 DEF Carried
  <2> HIDE DEF m, w
  <2>2. \A c \in Channels : Effective(m, c) = Effective(w, c) BY <2>1 DEF Same, Effective
  <2>3. m.dmx = w.dmx /\ m.ip = w.ip BY <2>1 DEF Same
  <2>4. Visible(m) = Visible(w) BY <1>0, <2>1, <2>2, <2>3 DEF Visible
  <2> QED BY <2>4 DEF m, w
<1> QED BY <1>7, <1>8, <1>9 DEF Carried

-----------------------------------------------------------------------------

THEOREM Inductive == Spec => []IInv
<1>1. IInv /\ [Next]_vars => IInv'
  BY NextIInv, ReceiveAssumption
<1> QED BY InitIInv, <1>1, PTL DEF Spec

\* The router has levels, and per-channel priorities, only of sources that the client tracks as
\* sending them or is about to report, or that an overtaken notification has brought back.
THEOREM OldDataOnlyByRace == Spec => []DataOnlyByRace
<1>1. IInv => DataOnlyByRace
  BY DEF IInv, DataOnlyByRace
<1> QED BY <1>1, Inductive, PTL

-----------------------------------------------------------------------------
(* What is merged and routed.                                              *)

\* The rest of TypeOK.
OutputTypes ==
  /\ rpc \in {"listen", "top", "recv"}
  /\ lost \subseteq Sources /\ pcpLost \subseteq Sources
  /\ dirty \in BOOLEAN
  /\ merged \in Universe \cup {Absent}
  /\ prev \in [Channels -> Levels] \cup {None}
  /\ muteIn \in BOOLEAN /\ muted \in BOOLEAN
  /\ routed \in [Channels -> Levels] \cup {None, Discarded}
  /\ silent \subseteq Sources
  /\ orphans \subseteq Threads /\ pcpOrphans \subseteq Threads
  /\ ghosts \subseteq Sources /\ pcpGhosts \subseteq Sources

LEMMA TypeParts == TypeOK <=> RecordTypes /\ OutputTypes
  BY DEF TypeOK, RecordTypes, OutputTypes

\* Levels that are not routed again because they are the previous ones were routed,
\* or discarded, when they became these.
PreviousRouted == prev # None => LevelChangesOnly /\ routed \in {prev, Discarded}

OutputInv == OutputTypes /\ PreviousRouted /\ CleanMerged /\ RoutedCurrent

LEMMA InitOutput == Init => OutputInv
<1> SUFFICES ASSUME Init PROVE OutputInv
  OBVIOUS
<1>1. OutputTypes /\ PreviousRouted /\ RoutedCurrent
  BY DEF Init, OutputTypes, PreviousRouted, RoutedCurrent
<1>2. CleanMerged
  <2> DEFINE nothing == [s \in Sources |-> Absent]
  <2>1. merged = Absent /\ source = nothing /\ nothing \in [Sources -> Universe \cup {Absent}]
    BY DEF Init
  <2>2. [s \in Sources |-> IF s \in {} THEN Absent ELSE source[s]] = nothing
    BY <2>1
  <2>3. MergeAll(Absent, nothing) = Absent
    <3>1. nothing \in [Sources -> Universe \cup {Absent}] /\ \A k \in 1..N : nothing[k] = Absent
      BY DEF Sources
    <3> HIDE DEF nothing
    <3>2. PICK g \in [0..N -> Carried] :
            /\ g[0] = Begun(Absent)
            /\ \A k \in 1..N : g[k] = Folded(g[k - 1], nothing[k])
            /\ MergeAll(Absent, nothing) = IF g[N].active THEN g[N].merged ELSE Absent
      BY <3>1, MergeAllLoops, ReceiveAssumption
    <3> DEFINE Untouched == {Begun(Absent)}
    <3>3. \A k \in 1..N : g[k - 1] \in Untouched => g[k] \in Untouched
      BY <3>1, <3>2 DEF Folded
    <3>4. \A k \in 0..N : g[k] \in Untouched
      <4>1. g[0] \in Untouched BY <3>2
      <4> HIDE DEF Untouched
      <4> QED BY <3>3, <4>1, IterationStays, ReceiveAssumption DEF ReceiveAssumption
    <3>5. g[N] = Begun(Absent) BY <3>4, ReceiveAssumption DEF ReceiveAssumption
    <3> QED BY <3>2, <3>5 DEF Begun
  <2>4. {} \in SUBSET {s \in Sources : source[s] = NoData}
    OBVIOUS
  <2> HIDE DEF nothing
  <2> QED BY <2>1, <2>2, <2>3, <2>4 DEF CleanMerged
<1> QED BY <1>1, <1>2 DEF OutputInv

\* Steps that neither merge nor change what is merged.
LEMMA QuietOutput ==
  ASSUME OutputInv, OutputTypes', UNCHANGED <<source, dirty, merged, prev, routed>>
  PROVE  OutputInv'
<1>1. PreviousRouted' /\ RoutedCurrent'
  BY DEF OutputInv, PreviousRouted, RoutedCurrent
<1>2. CleanMerged'
  BY DEF OutputInv, CleanMerged
<1> QED BY <1>1, <1>2 DEF OutputInv

\* Steps that change it and mark the universe as dirty.
LEMMA DirtyOutput ==
  ASSUME OutputInv, OutputTypes', dirty', UNCHANGED <<prev, routed>>
  PROVE  OutputInv'
<1>1. PreviousRouted'
  BY DEF OutputInv, PreviousRouted
<1>2. RoutedCurrent' /\ CleanMerged'
  BY DEF RoutedCurrent, CleanMerged
<1> QED BY <1>1, <1>2 DEF OutputInv

LEMMA UniverseDataOutput ==
  ASSUME ReceiveAssumption, RecordTypes, OutputInv, NEW t \in Threads, UniverseData(t)
  PROVE  OutputInv'
<1> DEFINE p == net[t]
           u == IF source[p.src] = Absent THEN NoData ELSE source[p.src]
<1>1. /\ source \in [Sources -> Universe \cup {Absent}] /\ p.src \in Sources
      /\ dirty \in BOOLEAN /\ Absent \notin Universe
      /\ p.code \in {"dmx", "priority", "other"}
  BY DEF RecordTypes, UniverseData, Packet, OutputInv, OutputTypes, ReceiveAssumption
<1>2. /\ source' = [source EXCEPT ![p.src] = Stored(u, p)]
      /\ dirty' = (dirty \/ CallsForMerge(p))
      /\ UNCHANGED <<rpc, lost, pcpLost, merged, prev, routed, muted, muteIn, silent>>
  BY DEF UniverseData, routerVars, outVars
<1>3. OutputTypes'
  <2>1. /\ orphans' = orphans \ {t} /\ pcpOrphans' = pcpOrphans \ {t}
        /\ ghosts' = IF t \in orphans THEN ghosts \cup {p.src} ELSE ghosts
        /\ pcpGhosts' = IF t \in pcpOrphans THEN pcpGhosts \cup {p.src} ELSE pcpGhosts
    BY DEF UniverseData, LeavesGhost
  <2> HIDE DEF p, u
  <2> QED BY <2>1, <1>1, <1>2 DEF OutputInv, OutputTypes, CallsForMerge
<1>4. CASE p.code # "other"
  <2>1. dirty'
    BY <1>2, <1>4 DEF CallsForMerge
  <2> QED BY <2>1, <1>2, <1>3, DirtyOutput
<1>5. CASE p.code = "other"
  <2>1. dirty' = dirty /\ Stored(u, p) = u
    BY <1>1, <1>2, <1>5 DEF CallsForMerge, Stored
  <2>2. CASE source[p.src] # Absent
    <3>1. source' = source
      BY <2>1, <2>2, <1>1, <1>2
    <3> QED BY <3>1, <2>1, <1>2, <1>3, QuietOutput
  <2>3. CASE source[p.src] = Absent
    <3>1. /\ source'[p.src] = NoData
          /\ \A s \in Sources : s # p.src => source'[s] = source[s]
      BY <2>1, <2>3, <1>1, <1>2
    <3>2. PreviousRouted' /\ RoutedCurrent'
      BY <2>1, <1>2 DEF OutputInv, PreviousRouted, RoutedCurrent
    <3>3. ASSUME ~dirty
          PROVE  \E missing \in SUBSET {s \in Sources : source'[s] = NoData} :
                   Visible(merged) =
                     Visible(MergeAll(Absent, [s \in Sources |->
                       IF s \in missing THEN Absent ELSE source'[s]]))
      <4>1. PICK missing \in SUBSET {s \in Sources : source[s] = NoData} :
              Visible(merged) =
                Visible(MergeAll(Absent, [s \in Sources |->
                  IF s \in missing THEN Absent ELSE source[s]]))
        BY <3>3 DEF OutputInv, CleanMerged
      <4> DEFINE more == missing \cup {p.src}
      <4>2. more \in SUBSET {s \in Sources : source'[s] = NoData}
        BY <3>1, <4>1, <2>3, <1>1
      <4>3. [s \in Sources |-> IF s \in missing THEN Absent ELSE source[s]]
              = [s \in Sources |-> IF s \in more THEN Absent ELSE source'[s]]
        BY <3>1, <2>3
      <4> HIDE DEF more
      <4> QED BY <4>1, <4>2, <4>3
    <3>4. CleanMerged'
      BY <3>3, <2>1, <1>2 DEF CleanMerged
    <3> QED BY <3>2, <3>4, <1>3 DEF OutputInv
  <2> QED BY <2>2, <2>3
<1> QED BY <1>4, <1>5

LEMMA SourceDisappearedOutput ==
  ASSUME RecordTypes, OutputInv, NEW s \in Sources, SourceDisappeared(s)
  PROVE  OutputInv'
<1>1. /\ source \in [Sources -> Universe \cup {Absent}]
      /\ source' = [source EXCEPT ![s] = Absent] /\ dirty' = (dirty \/ source[s] # Absent)
      /\ lost' = lost \ {s} /\ ghosts' = ghosts \ {s} /\ pcpGhosts' = pcpGhosts \ {s}
      /\ UNCHANGED <<rpc, pcpLost, merged, prev, routed, muted, muteIn, silent, orphans, pcpOrphans>>
  BY DEF SourceDisappeared, RecordTypes, outVars
<1>2. OutputTypes'
  BY <1>1 DEF OutputInv, OutputTypes
<1>3. CASE source[s] # Absent
  BY <1>1, <1>2, <1>3, DirtyOutput
<1>4. CASE source[s] = Absent
  <2>1. source' = source /\ dirty' = dirty
    BY <1>1, <1>4 DEF OutputInv, OutputTypes
  <2> QED BY <2>1, <1>1, <1>2, QuietOutput
<1> QED BY <1>3, <1>4

LEMMA SourcePCPExpiredOutput ==
  ASSUME RecordTypes, OutputInv, NEW s \in Sources, SourcePCPExpired(s)
  PROVE  OutputInv'
<1> DEFINE expires == source[s] # Absent /\ source[s].pcp
<1>1. /\ source' = IF expires THEN [source EXCEPT ![s].pcp = FALSE] ELSE source
      /\ dirty' = (dirty \/ expires)
      /\ pcpLost' = pcpLost \ {s} /\ pcpGhosts' = pcpGhosts \ {s}
      /\ UNCHANGED <<rpc, lost, merged, prev, routed, muted, muteIn, silent, orphans, pcpOrphans, ghosts>>
  BY DEF SourcePCPExpired, outVars
<1>2. dirty \in BOOLEAN
  BY DEF OutputInv, OutputTypes
<1>3. CASE expires
  <2>1. dirty'
    BY <1>1, <1>3
  <2>2. OutputTypes'
    BY <1>1, <2>1 DEF OutputInv, OutputTypes
  <2> QED BY <1>1, <2>1, <2>2, DirtyOutput
<1>4. CASE ~expires
  <2>1. source' = source /\ dirty' = dirty
    BY <1>1, <1>2, <1>4
  <2>2. OutputTypes'
    BY <1>1, <2>1 DEF OutputInv, OutputTypes
  <2> QED BY <1>1, <2>1, <2>2, QuietOutput
<1> QED BY <1>3, <1>4

LEMMA RecvsACNOutput ==
  ASSUME ReceiveAssumption, None \notin [Channels -> Levels], RecordTypes, OutputInv, RecvsACN
  PROVE  OutputInv'
<1> DEFINE m == MergeAll(merged, source)
           queued == m # Absent /\ ~(LevelChangesOnly /\ prev = m.dmx)
<1>1. /\ ~dirty' /\ dirty' = FALSE /\ merged' = m /\ prev' = Previous(m) /\ rpc' = "top"
      /\ routed' = CASE ~queued -> routed
                     [] queued /\ muted -> Discarded
                     [] queued /\ ~muted -> m.dmx
      /\ UNCHANGED <<lost, pcpLost, source, muted, muteIn, silent, ghostVars>>
  BY DEF RecvsACN
<1>2. /\ merged \in Universe \cup {Absent} /\ source \in [Sources -> Universe \cup {Absent}]
      /\ muted \in BOOLEAN /\ LevelChangesOnly \in BOOLEAN
      /\ prev \in [Channels -> Levels] \cup {None}
  BY DEF OutputInv, OutputTypes, RecordTypes, ReceiveAssumption
<1>3. m \in Universe \cup {Absent} /\ Visible(m) = Visible(MergeAll(Absent, source))
  BY <1>2, MergeAllIsUniverse, MergeForgetsEarlier
<1>4. m # Absent => m.dmx \in [Channels -> Levels] /\ m.dmx # None
  <2> HIDE DEF m
  <2> QED BY <1>3 DEF Universe
<1> HIDE DEF m
<1>5. \/ ~queued /\ routed' = routed
      \/ queued /\ muted /\ routed' = Discarded
      \/ queued /\ ~muted /\ routed' = m.dmx
  BY <1>1, <1>2
<1>6. /\ m = Absent => prev' = None
      /\ m # Absent /\ LevelChangesOnly => prev' = m.dmx
      /\ m # Absent /\ ~LevelChangesOnly => prev' = prev
  BY <1>1 DEF Previous
<1>7. PreviousRouted
  BY DEF OutputInv
<1>8. OutputTypes'
  <2>1. prev' \in [Channels -> Levels] \cup {None}
    BY <1>2, <1>4, <1>6
  <2>2. routed' \in [Channels -> Levels] \cup {None, Discarded}
    <3>1. routed \in [Channels -> Levels] \cup {None, Discarded}
      BY DEF OutputInv, OutputTypes
    <3> QED BY <3>1, <1>4, <1>5
  <2> HIDE DEF queued
  <2> QED BY <2>1, <2>2, <1>1, <1>3 DEF OutputInv, OutputTypes, ghostVars
<1>9. PreviousRouted'
  <2>1. CASE m = Absent
    BY <2>1, <1>6 DEF PreviousRouted
  <2>2. CASE m # Absent /\ LevelChangesOnly
    <3>1. prev' = m.dmx /\ (~queued => prev = m.dmx)
      BY <2>2, <1>6
    <3> QED BY <2>2, <3>1, <1>4, <1>5, <1>7 DEF PreviousRouted
  <2>3. CASE m # Absent /\ ~LevelChangesOnly
    BY <2>3, <1>6, <1>7 DEF PreviousRouted
  <2> QED BY <1>2, <2>1, <2>2, <2>3
<1>10. RoutedCurrent'
  <2> SUFFICES ASSUME m # Absent PROVE routed' \in {m.dmx, Discarded}
    BY <1>1 DEF RoutedCurrent
  <2>1. CASE queued
    BY <2>1, <1>5
  <2>2. CASE ~queued
    <3>1. prev = m.dmx /\ routed' = routed
      BY <2>2, <1>5
    <3> QED BY <3>1, <1>4, <1>7 DEF PreviousRouted
  <2> QED BY <2>1, <2>2
<1>11. CleanMerged'
  <2>1. [s \in Sources |-> IF s \in {} THEN Absent ELSE source'[s]] = source'
    BY <1>1, <1>2
  <2>2. {} \in SUBSET {s \in Sources : source'[s] = NoData}
    OBVIOUS
  <2> HIDE DEF queued
  <2>3. Visible(merged') = Visible(MergeAll(Absent, source'))
    BY <1>1, <1>3
  <2> QED BY <2>1, <2>2, <2>3 DEF CleanMerged
<1> QED BY <1>8, <1>9, <1>10, <1>11 DEF OutputInv

LEMMA NextOutput ==
  ASSUME ReceiveAssumption, None \notin [Channels -> Levels], RecordTypes, OutputInv, [Next]_vars
  PROVE  OutputInv'
<1>0. OutputTypes
  BY DEF OutputInv
<1>1. ASSUME OutputTypes', UNCHANGED <<recvVars, merged, prev, routed>> PROVE OutputInv'
  BY <1>1, QuietOutput DEF recvVars
<1>2. ASSUME UNCHANGED <<routerVars, recvVars, outVars, muteIn, silent, ghostVars>> PROVE OutputInv'
  <2>1. OutputTypes'
    BY <1>0, <1>2 DEF OutputTypes, routerVars, recvVars, outVars, ghostVars
  <2> QED BY <2>1, <1>1, <1>2 DEF outVars
<1>3. ASSUME NEW t \in Threads, NEW s \in Sources, ReceiveTerminated(t, s) PROVE OutputInv'
  BY <1>2, <1>3 DEF ReceiveTerminated
<1>4. ASSUME NEW t \in Threads, NEW p \in Packet, Receive(t, p) PROVE OutputInv'
  BY <1>2, <1>4 DEF Receive
<1>5. ASSUME NEW t \in Threads, UniverseData(t) PROVE OutputInv'
  BY <1>5, UniverseDataOutput
<1>6. ASSUME NEW s \in Sources, DataTimer(s) \/ PriorityTimer(s) PROVE OutputInv'
  BY <1>2, <1>6 DEF DataTimer, PriorityTimer
<1>7. ASSUME NEW s \in Sources, GoSilent(s) PROVE OutputInv'
  <2>1. /\ silent' = silent \cup {s}
        /\ UNCHANGED <<routerVars, recvVars, outVars, muteIn, ghostVars>>
    BY <1>7 DEF GoSilent
  <2>2. OutputTypes'
    BY <1>0, <2>1 DEF OutputTypes, routerVars, recvVars, outVars, ghostVars
  <2> QED BY <2>1, <2>2, <1>1 DEF outVars
<1>8. CASE Sync
  <2>1. /\ muteIn' \in BOOLEAN
        /\ UNCHANGED <<routerVars, recvVars, outVars, silent, ghostVars>>
    BY <1>8 DEF Sync, ReceiveAssumption
  <2>2. OutputTypes'
    BY <1>0, <2>1 DEF OutputTypes, routerVars, recvVars, outVars, ghostVars
  <2> QED BY <2>1, <2>2, <1>1 DEF outVars
<1>9. CASE ListenUniverse \/ StartLoop \/ RecvsACNClean
  <2>1. /\ rpc' \in {"listen", "top", "recv"} /\ muted' \in {muted, muteIn}
        /\ UNCHANGED <<lost, pcpLost, recvVars, merged, prev, routed, muteIn, silent, ghostVars>>
    BY <1>9 DEF ListenUniverse, StartLoop, RecvsACNClean, outVars
  <2>2. OutputTypes'
    BY <1>0, <2>1 DEF OutputTypes, recvVars, ghostVars
  <2> QED BY <2>1, <2>2, <1>1
<1>10. CASE StartLoopWithPoll
  <2>1. /\ rpc' = "recv" /\ muted' = muteIn
        /\ lost' = ToNotify /\ pcpLost' = PrioritiesExpired
        /\ orphans' \subseteq orphans \cup Threads /\ pcpOrphans' \subseteq pcpOrphans \cup Threads
        /\ UNCHANGED <<recvVars, merged, prev, routed, muteIn, silent, ghosts, pcpGhosts>>
    BY <1>10 DEF StartLoopWithPoll
  <2>2. ToNotify \subseteq Sources /\ PrioritiesExpired \subseteq Sources
    BY DEF ToNotify, DataExpired, PrioritiesExpired
  <2>3. OutputTypes'
    BY <1>0, <2>1, <2>2 DEF OutputTypes, recvVars
  <2> QED BY <2>1, <2>3, <1>1
<1>11. ASSUME NEW s \in Sources, SourceDisappeared(s) \/ SourcePCPExpired(s) PROVE OutputInv'
  BY <1>11, SourceDisappearedOutput, SourcePCPExpiredOutput
<1>12. CASE RecvsACN
  BY <1>12, RecvsACNOutput
<1>13. CASE UNCHANGED vars
  BY <1>2, <1>13 DEF vars
<1> QED BY <1>3, <1>4, <1>5, <1>6, <1>7, <1>8, <1>9, <1>10, <1>11, <1>12, <1>13 DEF Next, Router

THEOREM OutputInductive == Spec => []OutputInv
<1>1. IInv => RecordTypes
  BY DEF IInv
<1>2. IInv /\ OutputInv /\ [Next]_vars => OutputInv'
  BY <1>1, NextOutput, ReceiveAssumption, NoneAssumption
<1> QED BY InitOutput, <1>2, Inductive, PTL DEF Spec

\* The state of the client and of the router thread is always of its type, whatever
\* arrives and whoever is late.
THEOREM ReceiveTypes == Spec => []TypeOK
<1>1. IInv /\ OutputInv => TypeOK
  BY TypeParts DEF IInv, OutputInv
<1> QED BY <1>1, Inductive, OutputInductive, PTL

\* No update of a source is forgotten: while the universe is not dirty, what is merged
\* is the merge from nothing of the sources on record.
THEOREM NoUpdateForgotten == Spec => []CleanMerged
<1>1. OutputInv => CleanMerged
  BY DEF OutputInv
<1> QED BY <1>1, OutputInductive, PTL

\* With levelChangesOnly too, the levels last routed are those of the merge, or were
\* discarded by the mute.
THEOREM MergedIsRouted == Spec => []RoutedCurrent
<1>1. OutputInv => RoutedCurrent
  BY DEF OutputInv
<1> QED BY <1>1, OutputInductive, PTL

-----------------------------------------------------------------------------
(* The buffers below: who holds the lock.                                  *)

BufThreads   == BufWorkers \cup {BufApp}
AppSteps  == {"idle", "create", "createWaits", "creating", "destroy", "destroyWaits", "destroying",
              "send", "sending"}
WorkSteps == {"idle", "alloc", "notify", "inside", "handed", "refused", "drop", "close", "closeWaits",
              "closing", "delete"}
ReadSteps  == {"inside", "handed", "refused", "sending"}
WriteSteps == {"creating", "destroying", "closing"}
OwnSteps   == {"createWaits", "destroyWaits", "closeWaits"} \cup WriteSteps

Readers(thread) == {t \in BufThreads : thread[t].at \in ReadSteps}

BufTypes ==
  /\ bufThread \in [BufThreads -> [at: AppSteps \cup WorkSteps, sock: BufSocks \cup {NoSock}]]
  /\ bufThread[BufApp].at \in AppSteps /\ \A w \in BufWorkers : bufThread[w].at \in WorkSteps
  /\ bufOver \in [BufSocks -> [at: {"none", "start", "packet", "empty", "failed", "pending", "held", "lost"},
                               buffer: Buffers \cup {NoBuffer}]]
  /\ bufEntry \in [BufSocks -> {"none", "active", "inactive"}]
  /\ bufSockets \subseteq BufSocks
  /\ bufNext \in [Buffers -> 0..MaxBuffers + 1] /\ bufHead \in Buffers \cup {NoBuffer}
  /\ bufCount \in 0..MaxBuffers

\* The owner is the thread that waits for the readers or writes.
LockIs(thread, owner, readers) ==
  /\ owner \in BufThreads \cup {NoOwner} /\ readers = Cardinality(Readers(thread))
  /\ \A t \in BufThreads : thread[t].at \in OwnSteps <=> t = owner
  /\ \A t \in BufThreads : thread[t].at \in WriteSteps => Readers(thread) = {}

LEMMA BufConstants ==
  /\ Reserved \in Nat /\ MaxBuffers \in Nat /\ Reserved <= MaxBuffers
  /\ IsFiniteSet(BufWorkers) /\ BufApp \notin BufWorkers /\ NoOwner \notin BufThreads
  /\ NoSock \notin BufSocks /\ BufApp \in BufThreads /\ BufWorkers \subseteq BufThreads
  /\ IsFiniteSet(BufThreads)
<1>1. /\ Reserved \in Nat /\ MaxBuffers \in Nat /\ Reserved <= MaxBuffers
      /\ IsFiniteSet(BufWorkers) /\ BufApp \notin BufWorkers
      /\ NoOwner \notin BufWorkers \cup {BufApp} /\ NoSock \notin BufSocks
  BY BufAssumption
<1>2. IsFiniteSet(BufThreads) BY <1>1, FS_AddElement DEF BufThreads
<1> QED BY <1>1, <1>2 DEF BufThreads

\* What a thread does to the lock as it goes from the step a to the step b.
Moves(t, a, b, owner, readers, owner2, readers2) ==
  \/ /\ a \notin ReadSteps \cup OwnSteps /\ b \notin ReadSteps \cup OwnSteps
     /\ owner2 = owner /\ readers2 = readers
  \/ a \in ReadSteps /\ b \in ReadSteps /\ owner2 = owner /\ readers2 = readers
  \/ /\ a \notin ReadSteps \cup OwnSteps /\ b \in ReadSteps
     /\ owner = NoOwner /\ owner2 = owner /\ readers2 = readers + 1
  \/ /\ a \in ReadSteps /\ b \notin ReadSteps \cup OwnSteps
     /\ owner2 = owner /\ readers2 = readers - 1
  \/ /\ a \notin ReadSteps \cup OwnSteps /\ b \in OwnSteps \ WriteSteps
     /\ owner = NoOwner /\ owner2 = t /\ readers2 = readers
  \/ /\ a \in OwnSteps /\ b \in OwnSteps
     /\ readers = 0 /\ owner2 = owner /\ readers2 = readers
  \/ /\ a \in OwnSteps /\ b \notin ReadSteps \cup OwnSteps
     /\ owner2 = NoOwner /\ readers2 = readers

\* One thread goes from one step to the next.
LEMMA LockMoves ==
  ASSUME NEW thread, NEW owner, NEW readers, LockIs(thread, owner, readers),
         NEW t \in BufThreads, NEW after, NEW owner2, NEW readers2,
         \A x \in BufThreads : x # t => after[x] = thread[x],
         Moves(t, thread[t].at, after[t].at, owner, readers, owner2, readers2)
  PROVE  LockIs(after, owner2, readers2)
<1> DEFINE a == thread[t].at   b == after[t].at
           R == Readers(thread)   S == Readers(after)
<1>1. R \subseteq BufThreads /\ IsFiniteSet(R)
  <2>1. R \subseteq BufThreads BY DEF Readers
  <2> QED BY <2>1, BufConstants, FS_Subset
<1>2. Cardinality(R) \in Nat /\ readers = Cardinality(R) BY <1>1, FS_CardinalityType DEF LockIs
<1>3. /\ a \in ReadSteps <=> t \in R
      /\ b \in ReadSteps => S = R \cup {t}
      /\ b \notin ReadSteps => S = R \ {t}
  BY DEF Readers
<1>4. ReadSteps \cap OwnSteps = {} /\ WriteSteps \subseteq OwnSteps BY DEF ReadSteps, OwnSteps, WriteSteps
<1>5. /\ owner \in BufThreads \cup {NoOwner} /\ NoOwner \notin BufThreads
      /\ \A x \in BufThreads : thread[x].at \in OwnSteps <=> x = owner
      /\ \A x \in BufThreads : thread[x].at \in WriteSteps => R = {}
  BY BufConstants DEF LockIs
<1> DEFINE Goal == /\ owner2 \in BufThreads \cup {NoOwner} /\ readers2 = Cardinality(S)
                   /\ \A x \in BufThreads : after[x].at \in OwnSteps <=> x = owner2
                   /\ \A x \in BufThreads : after[x].at \in WriteSteps => S = {}
<1> SUFFICES Goal BY DEF LockIs
<1>6. \A x \in BufThreads : x # t => after[x].at = thread[x].at OBVIOUS
<1> HIDE DEF R, S, a, b
<1>7. CASE a \notin ReadSteps \cup OwnSteps /\ b \notin ReadSteps \cup OwnSteps
           /\ owner2 = owner /\ readers2 = readers
  <2>1. S = R BY <1>3, <1>7
  <2> QED BY <1>2, <1>4, <1>5, <1>6, <1>7, <2>1 DEF a, b
<1>8. CASE a \in ReadSteps /\ b \in ReadSteps /\ owner2 = owner /\ readers2 = readers
  <2>1. S = R BY <1>3, <1>8
  <2> QED BY <1>2, <1>4, <1>5, <1>6, <1>8, <2>1 DEF a, b
<1>9. CASE a \notin ReadSteps \cup OwnSteps /\ b \in ReadSteps
           /\ owner = NoOwner /\ owner2 = owner /\ readers2 = readers + 1
  <2>1. S = R \cup {t} /\ t \notin R BY <1>3, <1>9
  <2>2. Cardinality(S) = Cardinality(R) + 1 BY <1>1, <2>1, FS_AddElement
  <2>3. \A x \in BufThreads : after[x].at \notin OwnSteps BY <1>4, <1>5, <1>6, <1>9 DEF a, b
  <2> QED BY <1>2, <1>4, <1>5, <1>9, <2>2, <2>3
<1>10. CASE a \in ReadSteps /\ b \notin ReadSteps \cup OwnSteps
            /\ owner2 = owner /\ readers2 = readers - 1
  <2>1. S = R \ {t} /\ t \in R BY <1>3, <1>10
  <2>2. Cardinality(S) = Cardinality(R) - 1 BY <1>1, <2>1, FS_RemoveElement
  <2> QED BY <1>2, <1>4, <1>5, <1>6, <1>10, <2>1, <2>2 DEF a, b
<1>11. CASE a \notin ReadSteps \cup OwnSteps /\ b \in OwnSteps \ WriteSteps
            /\ owner = NoOwner /\ owner2 = t /\ readers2 = readers
  <2>1. S = R BY <1>3, <1>4, <1>11
  <2> QED BY <1>2, <1>4, <1>5, <1>6, <1>11, <2>1 DEF a, b
<1>12. CASE a \in OwnSteps /\ b \in OwnSteps /\ readers = 0 /\ owner2 = owner /\ readers2 = readers
  <2>1. R = {} BY <1>1, <1>2, <1>12, FS_EmptySet
  <2>2. S = R BY <1>3, <1>4, <1>12
  <2> QED BY <1>2, <1>4, <1>5, <1>6, <1>12, <2>1, <2>2 DEF a, b
<1>13. CASE a \in OwnSteps /\ b \notin ReadSteps \cup OwnSteps /\ owner2 = NoOwner /\ readers2 = readers
  <2>1. S = R BY <1>3, <1>4, <1>13
  <2> QED BY <1>2, <1>4, <1>5, <1>6, <1>13, <2>1 DEF a, b
<1> QED BY <1>7, <1>8, <1>9, <1>10, <1>11, <1>12, <1>13 DEF a, b, Moves

-----------------------------------------------------------------------------
(* Which buffers are free.                                                 *)

\* The free buffers in their order, and those of the sockets.
FreeList(free, n, head, next) ==
  /\ head = IF n = 0 THEN NoBuffer ELSE free[1]
  /\ \A k \in 1..n : next[free[k]] = IF k = n THEN NoBuffer ELSE free[k + 1]
  /\ \A j, k \in 1..n : free[j] = free[k] => j = k

FreeSet(free, n) == {free[k] : k \in 1..n}
HeldOf(over) == {over[s].buffer : s \in BufSocks} \ {NoBuffer}
Apart(over) == \A s, t \in BufSocks : s # t /\ over[s].buffer # NoBuffer => over[s].buffer # over[t].buffer

Divides(free, n, over, head, next, count) ==
  /\ FreeList(free, n, head, next)
  /\ FreeSet(free, n) \cup HeldOf(over) = 1..count /\ FreeSet(free, n) \cap HeldOf(over) = {}

PoolIs(over, head, next, count) ==
  /\ Apart(over)
  /\ \E n \in Nat : \E free \in [1..n -> Buffers] : Divides(free, n, over, head, next, count)

LEMMA BufferNumbers == MaxBuffers \in Nat /\ Buffers \subseteq Nat \ {0} /\ NoBuffer = 0 /\ NoBuffer \notin Buffers
  BY BufConstants DEF Buffers, NoBuffer

LEMMA PoolKept ==
  ASSUME NEW over, NEW head, NEW next, NEW count, PoolIs(over, head, next, count),
         NEW over2, \A s \in BufSocks : over2[s].buffer = over[s].buffer
  PROVE  PoolIs(over2, head, next, count)
<1>1. HeldOf(over2) = HeldOf(over) BY DEF HeldOf
<1>2. Apart(over2) BY DEF Apart, PoolIs
<1> QED BY <1>1, <1>2 DEF PoolIs, Divides

\* A packet is written into a buffer that is held.
LEMMA PoolWritten ==
  ASSUME NEW over, NEW head, NEW next \in [Buffers -> 0..MaxBuffers + 1], NEW count,
         PoolIs(over, head, next, count), NEW s \in BufSocks, NEW x
  PROVE  PoolIs(over, head, [next EXCEPT ![over[s].buffer] = x], count)
<1> DEFINE b == over[s].buffer
           next2 == [next EXCEPT ![b] = x]
<1>1. CASE b = NoBuffer
  <2>1. next2 = next BY <1>1, BufferNumbers
  <2> QED BY <2>1
<1>2. CASE b # NoBuffer
  <2>1. PICK n \in Nat : \E free \in [1..n -> Buffers] : Divides(free, n, over, head, next, count)
    BY DEF PoolIs
  <2>2. PICK free \in [1..n -> Buffers] : Divides(free, n, over, head, next, count) BY <2>1
  <2>3. b \in HeldOf(over) BY <1>2 DEF HeldOf
  <2>4. \A k \in 1..n : free[k] # b BY <2>2, <2>3 DEF Divides, FreeSet
  <2>5. \A k \in 1..n : next2[free[k]] = next[free[k]] BY <2>4
  <2> HIDE DEF next2
  <2>6. FreeList(free, n, head, next2) BY <2>2, <2>5 DEF Divides, FreeList
  <2>7. Divides(free, n, over, head, next2, count) BY <2>2, <2>6 DEF Divides
  <2> QED BY <2>7 DEF PoolIs, next2
<1> QED BY <1>1, <1>2

\* What one socket holds, and what the others do.
LEMMA HeldWithout ==
  ASSUME NEW over, Apart(over), NEW over2, NEW s \in BufSocks,
         \A t \in BufSocks : t # s => over2[t].buffer = over[t].buffer
  PROVE  /\ over[s].buffer # NoBuffer /\ over2[s].buffer = NoBuffer =>
              HeldOf(over2) = HeldOf(over) \ {over[s].buffer} /\ Apart(over2)
         /\ over[s].buffer = NoBuffer /\ over2[s].buffer # NoBuffer =>
              /\ HeldOf(over2) = HeldOf(over) \cup {over2[s].buffer}
              /\ over2[s].buffer \notin HeldOf(over) => Apart(over2)
<1>1. ASSUME over[s].buffer # NoBuffer, over2[s].buffer = NoBuffer
      PROVE  HeldOf(over2) = HeldOf(over) \ {over[s].buffer} /\ Apart(over2)
  BY <1>1 DEF HeldOf, Apart
<1>2. ASSUME over[s].buffer = NoBuffer, over2[s].buffer # NoBuffer
      PROVE  /\ HeldOf(over2) = HeldOf(over) \cup {over2[s].buffer}
             /\ over2[s].buffer \notin HeldOf(over) => Apart(over2)
  <2>1. HeldOf(over2) = HeldOf(over) \cup {over2[s].buffer} BY <1>2 DEF HeldOf
  <2>2. ASSUME over2[s].buffer \notin HeldOf(over) PROVE Apart(over2)
    <3>1. \A t \in BufSocks : t # s => over2[t].buffer # over2[s].buffer BY <1>2, <2>2 DEF HeldOf
    <3> QED BY <3>1 DEF Apart
  <2> QED BY <2>1, <2>2
<1> QED BY <1>1, <1>2

\* A buffer is given back.
LEMMA PoolFreed ==
  ASSUME NEW over, NEW head, NEW next \in [Buffers -> 0..MaxBuffers + 1], NEW count,
         PoolIs(over, head, next, count), NEW s \in BufSocks, over[s].buffer \in Buffers,
         NEW over2, over2[s].buffer = NoBuffer, \A t \in BufSocks : t # s => over2[t].buffer = over[t].buffer
  PROVE  PoolIs(over2, over[s].buffer, [next EXCEPT ![over[s].buffer] = head], count)
<1> DEFINE b == over[s].buffer
           next2 == [next EXCEPT ![b] = head]
<1>1. PICK n \in Nat : \E free \in [1..n -> Buffers] : Divides(free, n, over, head, next, count)
  BY DEF PoolIs
<1>2. PICK free \in [1..n -> Buffers] : Divides(free, n, over, head, next, count) BY <1>1
<1>3. b # NoBuffer BY BufferNumbers
<1>4. HeldOf(over2) = HeldOf(over) \ {b} /\ Apart(over2) /\ b \in HeldOf(over)
  <2>1. b \in HeldOf(over) BY <1>3 DEF HeldOf
  <2> QED BY <1>3, <2>1, HeldWithout DEF PoolIs
<1> DEFINE free2 == [k \in 1..n + 1 |-> IF k = 1 THEN b ELSE free[k - 1]]
<1>5. \A k \in 1..n : free[k] # b BY <1>2, <1>4 DEF Divides, FreeSet
<1>6. \A k \in 1..n : next2[free[k]] = next[free[k]] BY <1>5
<1>7. next2[b] = head OBVIOUS
<1> HIDE DEF b, next2
<1>8. b \in Buffers BY DEF b
<1>9. \A k \in 1..n + 1 : k # 1 => k - 1 \in 1..n OBVIOUS
<1>10. free2 \in [1..n + 1 -> Buffers] BY <1>8, <1>9
<1>11. free2[1] = b /\ \A k \in 1..n : free2[k + 1] = free[k]
  <2>1. 1 \in 1..n + 1 /\ \A k \in 1..n : k + 1 \in 1..n + 1 /\ k + 1 # 1 /\ (k + 1) - 1 = k OBVIOUS
  <2> QED BY <2>1
<1>12. \A k \in 1..n + 1 : k # 1 => free2[k] = free[k - 1] OBVIOUS
<1> HIDE DEF free2
<1>13. FreeList(free2, n + 1, b, next2)
  <2>1. n + 1 # 0 OBVIOUS
  <2>2. ASSUME NEW k \in 1..n + 1
        PROVE next2[free2[k]] = IF k = n + 1 THEN NoBuffer ELSE free2[k + 1]
    <3>1. CASE k = 1
      <4>1. next2[free2[k]] = head BY <1>7, <1>11, <3>1
      <4>2. head = IF n = 0 THEN NoBuffer ELSE free[1] BY <1>2 DEF Divides, FreeList
      <4>3. n # 0 => free2[1 + 1] = free[1] BY <1>11
      <4> QED BY <3>1, <4>1, <4>2, <4>3
    <3>2. CASE k # 1
      <4>1. k - 1 \in 1..n /\ free2[k] = free[k - 1] BY <1>9, <1>12, <3>2
      <4>2. next2[free[k - 1]] = IF k - 1 = n THEN NoBuffer ELSE free[(k - 1) + 1]
        BY <1>2, <1>6, <4>1 DEF Divides, FreeList
      <4>3. k # n + 1 => k \in 1..n /\ free2[k + 1] = free[k] BY <1>11
      <4>4. (k - 1) + 1 = k /\ (k - 1 = n <=> k = n + 1) OBVIOUS
      <4> QED BY <4>1, <4>2, <4>3, <4>4
    <3> QED BY <3>1, <3>2
  <2>3. ASSUME NEW j \in 1..n + 1, NEW k \in 1..n + 1, free2[j] = free2[k] PROVE j = k
    <3>1. CASE j = 1 /\ k # 1 BY <1>5, <1>9, <1>11, <1>12, <2>3, <3>1
    <3>2. CASE j # 1 /\ k = 1 BY <1>5, <1>9, <1>11, <1>12, <2>3, <3>2
    <3>3. CASE j # 1 /\ k # 1
      <4>1. free[j - 1] = free[k - 1] /\ j - 1 \in 1..n /\ k - 1 \in 1..n BY <1>9, <1>12, <2>3, <3>3
      <4>2. j - 1 = k - 1 BY <1>2, <4>1 DEF Divides, FreeList
      <4> QED BY <4>2
    <3> QED BY <3>1, <3>2, <3>3
  <2> QED BY <1>11, <2>1, <2>2, <2>3 DEF FreeList
<1>14. FreeSet(free2, n + 1) = FreeSet(free, n) \cup {b}
  <2>1. \A k \in 1..n + 1 : free2[k] \in FreeSet(free, n) \cup {b} BY <1>9, <1>11, <1>12 DEF FreeSet
  <2>2. b \in FreeSet(free2, n + 1)
    <3>1. 1 \in 1..n + 1 OBVIOUS
    <3> QED BY <1>11, <3>1 DEF FreeSet
  <2>3. \A k \in 1..n : free[k] \in FreeSet(free2, n + 1)
    <3>1. \A k \in 1..n : k + 1 \in 1..n + 1 OBVIOUS
    <3> QED BY <1>11, <3>1 DEF FreeSet
  <2> QED BY <2>1, <2>2, <2>3 DEF FreeSet
<1>15. Divides(free2, n + 1, over2, b, next2, count)
  <2>1. FreeSet(free, n) \cup HeldOf(over) = 1..count /\ FreeSet(free, n) \cap HeldOf(over) = {}
    BY <1>2 DEF Divides
  <2> QED BY <1>4, <1>13, <1>14, <2>1 DEF Divides
<1>16. n + 1 \in Nat OBVIOUS
<1>17. PoolIs(over2, b, next2, count) BY <1>4, <1>10, <1>15, <1>16 DEF PoolIs
<1> QED BY <1>17 DEF b, next2

\* The first free buffer is taken.
LEMMA PoolTaken ==
  ASSUME NEW over, NEW head, NEW next, NEW count, PoolIs(over, head, next, count), head # NoBuffer,
         NEW s \in BufSocks, over[s].buffer = NoBuffer,
         NEW over2, over2[s].buffer = head, \A t \in BufSocks : t # s => over2[t].buffer = over[t].buffer
  PROVE  PoolIs(over2, next[head], next, count) /\ head \in Buffers /\ next[head] \in Buffers \cup {NoBuffer}
<1>1. PICK n \in Nat : \E free \in [1..n -> Buffers] : Divides(free, n, over, head, next, count)
  BY DEF PoolIs
<1>2. PICK free \in [1..n -> Buffers] : Divides(free, n, over, head, next, count) BY <1>1
<1>3. n # 0 /\ head = free[1] BY <1>2 DEF Divides, FreeList
<1>4. 1 \in 1..n /\ head \in Buffers /\ head \in FreeSet(free, n) BY <1>3 DEF FreeSet
<1>5. HeldOf(over2) = HeldOf(over) \cup {head} /\ Apart(over2)
  <2>1. head \notin HeldOf(over) BY <1>2, <1>4 DEF Divides
  <2> QED BY <2>1, HeldWithout DEF PoolIs
<1> DEFINE m == n - 1
           free2 == [k \in 1..m |-> free[k + 1]]
<1>6. m \in Nat /\ \A k \in 1..m : k + 1 \in 1..n /\ k + 1 # 1 BY <1>3
<1>7. free2 \in [1..m -> Buffers] /\ \A k \in 1..m : free2[k] = free[k + 1] BY <1>6
<1>8. next[head] = IF 1 = n THEN NoBuffer ELSE free[1 + 1] BY <1>2, <1>3, <1>4 DEF Divides, FreeList
<1> HIDE DEF free2
<1>9. FreeList(free2, m, next[head], next)
  <2>1. next[head] = IF m = 0 THEN NoBuffer ELSE free2[1]
    <3>1. m # 0 => 1 \in 1..m BY <1>6
    <3>2. m = 0 <=> 1 = n BY <1>3
    <3> QED BY <1>7, <1>8, <3>1, <3>2
  <2>2. ASSUME NEW k \in 1..m PROVE next[free2[k]] = IF k = m THEN NoBuffer ELSE free2[k + 1]
    <3>1. next[free[k + 1]] = IF k + 1 = n THEN NoBuffer ELSE free[(k + 1) + 1]
      BY <1>2, <1>6 DEF Divides, FreeList
    <3>2. k # m => k + 1 \in 1..m BY <1>6
    <3>3. k = m <=> k + 1 = n BY <1>6
    <3> HIDE DEF m
    <3> QED BY <1>7, <3>1, <3>2, <3>3
  <2>3. ASSUME NEW j \in 1..m, NEW k \in 1..m, free2[j] = free2[k] PROVE j = k
    <3>1. free[j + 1] = free[k + 1] /\ j + 1 \in 1..n /\ k + 1 \in 1..n BY <1>6, <1>7, <2>3
    <3>2. j + 1 = k + 1 BY <1>2, <3>1 DEF Divides, FreeList
    <3> QED BY <1>6, <3>2
  <2> HIDE DEF m
  <2> QED BY <2>1, <2>2, <2>3 DEF FreeList
<1>10. FreeSet(free2, m) = FreeSet(free, n) \ {head}
  <2>1. \A k \in 1..m : free2[k] \in FreeSet(free, n) /\ free2[k] # head
    <3>1. \A k \in 1..m : free[k + 1] # free[1] BY <1>2, <1>4, <1>6 DEF Divides, FreeList
    <3> QED BY <1>3, <1>6, <1>7, <3>1 DEF FreeSet
  <2>2. \A k \in 1..n : free[k] # head => free[k] \in FreeSet(free2, m)
    <3>1. \A k \in 1..n : k # 1 => k - 1 \in 1..m /\ (k - 1) + 1 = k OBVIOUS
    <3> HIDE DEF m
    <3> QED BY <1>3, <1>7, <3>1 DEF FreeSet
  <2> HIDE DEF m
  <2> QED BY <2>1, <2>2 DEF FreeSet
<1>11. Divides(free2, m, over2, next[head], next, count)
  <2>1. FreeSet(free, n) \cup HeldOf(over) = 1..count /\ FreeSet(free, n) \cap HeldOf(over) = {}
    BY <1>2 DEF Divides
  <2> HIDE DEF m
  <2> QED BY <1>4, <1>5, <1>9, <1>10, <2>1 DEF Divides
<1>12. next[head] \in Buffers \cup {NoBuffer} BY <1>8, <1>3
<1> HIDE DEF m
<1> QED BY <1>4, <1>5, <1>6, <1>7, <1>11, <1>12 DEF PoolIs

\* With no free one, another is made.
LEMMA PoolGrown ==
  ASSUME NEW over, NEW next, NEW count \in Nat, PoolIs(over, NoBuffer, next, count),
         NEW s \in BufSocks, over[s].buffer = NoBuffer,
         NEW over2, over2[s].buffer = count + 1, \A t \in BufSocks : t # s => over2[t].buffer = over[t].buffer
  PROVE  PoolIs(over2, NoBuffer, next, count + 1)
<1>1. PICK n \in Nat : \E free \in [1..n -> Buffers] : Divides(free, n, over, NoBuffer, next, count)
  BY DEF PoolIs
<1>2. PICK free \in [1..n -> Buffers] : Divides(free, n, over, NoBuffer, next, count) BY <1>1
<1>3. count + 1 # NoBuffer /\ count + 1 \notin 1..count /\ 1..count + 1 = 1..count \cup {count + 1}
  BY BufferNumbers
<1>4. FreeSet(free, n) \cup HeldOf(over) = 1..count /\ FreeSet(free, n) \cap HeldOf(over) = {}
  BY <1>2 DEF Divides
<1>5. count + 1 \notin HeldOf(over) /\ count + 1 \notin FreeSet(free, n) BY <1>3, <1>4
<1>6. HeldOf(over2) = HeldOf(over) \cup {count + 1} /\ Apart(over2)
  BY <1>3, <1>5, HeldWithout DEF PoolIs
<1>7. Divides(free, n, over2, NoBuffer, next, count + 1) BY <1>2, <1>3, <1>4, <1>5, <1>6 DEF Divides
<1> QED BY <1>6, <1>7 DEF PoolIs

-----------------------------------------------------------------------------
(* Who holds which socket.                                                 *)

CreateSteps  == {"create", "createWaits", "creating"}
DestroySteps == {"destroy", "destroyWaits", "destroying"}

\* The router's thread has a socket until it has destroyed it, the workers as long as a read of
\* it can end: each of them takes the entry in the map one state further.
OwnedBy(thread, sockets, s) ==
  s \in sockets \/ (thread[BufApp].at \in DestroySteps /\ thread[BufApp].sock = s)
ReadOf(thread, over, s) ==
  over[s].at \notin {"none", "lost"} /\ \A w \in BufWorkers : thread[w] # Doing("delete", s)

HoldIs(thread, over, entry, sockets) ==
  /\ thread[BufApp].at # "idle" => thread[BufApp].sock \in BufSocks
  /\ thread[BufApp].at \in CreateSteps =>
       entry[thread[BufApp].sock] = "none" /\ over[thread[BufApp].sock] = NoOver
  /\ thread[BufApp].at \in DestroySteps => thread[BufApp].sock \notin sockets
  /\ \A w \in BufWorkers : thread[w].at # "idle" =>
       /\ thread[w].sock \in BufSocks /\ over[thread[w].sock].at = "held"
       /\ thread[w].at \in {"alloc", "handed"} => over[thread[w].sock].buffer = NoBuffer
  /\ \A v, w \in BufWorkers :
       v # w /\ thread[v].at # "idle" /\ thread[w].at # "idle" => thread[v].sock # thread[w].sock
  /\ \A s \in BufSocks : over[s].at \in {"none", "start", "lost"} => over[s].buffer = NoBuffer
  /\ \A s \in BufSocks :
       /\ OwnedBy(thread, sockets, s) \/ ReadOf(thread, over, s) => entry[s] # "none"
       /\ OwnedBy(thread, sockets, s) /\ ReadOf(thread, over, s) => entry[s] = "active"

\* The router's thread goes on with its socket.
LEMMA HoldApp ==
  ASSUME NEW th, NEW over, NEW entry, NEW sockets, HoldIs(th, over, entry, sockets),
         NEW after, \A x \in BufWorkers : after[x] = th[x], after[BufApp].sock = th[BufApp].sock,
         after[BufApp].at # "idle" => th[BufApp].at # "idle",
         after[BufApp].at \in CreateSteps => th[BufApp].at \in CreateSteps,
         after[BufApp].at \in DestroySteps <=> th[BufApp].at \in DestroySteps
  PROVE  HoldIs(after, over, entry, sockets)
<1>1. \A s : OwnedBy(after, sockets, s) <=> OwnedBy(th, sockets, s) BY DEF OwnedBy
<1>2. \A s : ReadOf(after, over, s) <=> ReadOf(th, over, s) BY DEF ReadOf
<1> QED BY <1>1, <1>2 DEF HoldIs

\* A worker goes on with its socket.
LEMMA HoldWorker ==
  ASSUME NEW th, NEW over, NEW entry, NEW sockets, HoldIs(th, over, entry, sockets),
         NEW after, NEW over2, NEW w \in BufWorkers,
         \A x \in BufThreads : x # w => after[x] = th[x], after[w].sock = th[w].sock,
         th[w].at # "idle", after[w].at # "idle", th[w].at # "delete", after[w].at # "delete",
         \A s \in BufSocks : s # th[w].sock => over2[s] = over[s],
         over2[th[w].sock].at = "held",
         after[w].at \in {"alloc", "handed"} => over2[th[w].sock].buffer = NoBuffer
  PROVE  HoldIs(after, over2, entry, sockets)
<1>0. /\ \A x \in BufWorkers : x # w => after[x] = th[x]
      /\ after[BufApp] = th[BufApp]
      /\ th[w].sock \in BufSocks /\ over[th[w].sock].at = "held"
      /\ \A x \in BufWorkers : x # w /\ th[x].at # "idle" => th[x].sock # th[w].sock
  BY BufConstants DEF HoldIs
<1>1. \A s : OwnedBy(after, sockets, s) <=> OwnedBy(th, sockets, s) BY <1>0 DEF OwnedBy
<1>2. \A s \in BufSocks : ReadOf(after, over2, s) <=> ReadOf(th, over, s)
  <2> SUFFICES ASSUME NEW s \in BufSocks PROVE ReadOf(after, over2, s) <=> ReadOf(th, over, s) OBVIOUS
  <2>1. after[w] # Doing("delete", s) /\ th[w] # Doing("delete", s) BY DEF Doing
  <2>2. over2[s].at \in {"none", "lost"} <=> over[s].at \in {"none", "lost"} BY <1>0
  <2> QED BY <1>0, <2>1, <2>2 DEF ReadOf
<1>3. th[BufApp].at \in CreateSteps => th[BufApp].sock # th[w].sock BY <1>0 DEF HoldIs, NoOver
<1>4. \A x \in BufWorkers : after[x].at # "idle" =>
       /\ after[x].sock \in BufSocks /\ over2[after[x].sock].at = "held"
       /\ after[x].at \in {"alloc", "handed"} => over2[after[x].sock].buffer = NoBuffer
  BY <1>0 DEF HoldIs
<1>5. \A v, x \in BufWorkers :
       v # x /\ after[v].at # "idle" /\ after[x].at # "idle" => after[v].sock # after[x].sock
  BY <1>0 DEF HoldIs
<1>6. \A s \in BufSocks : over2[s].at \in {"none", "start", "lost"} => over2[s].buffer = NoBuffer
  BY DEF HoldIs
<1>7. after[BufApp].at \in CreateSteps =>
       entry[after[BufApp].sock] = "none" /\ over2[after[BufApp].sock] = NoOver
  <2>1. th[BufApp].at \in CreateSteps => th[BufApp].at # "idle" BY DEF CreateSteps
  <2> QED BY <1>0, <1>3, <2>1 DEF HoldIs
<1> QED BY <1>0, <1>1, <1>2, <1>4, <1>5, <1>6, <1>7 DEF HoldIs

\* A worker leaves its socket, to a read or to nothing.
LEMMA HoldLeft ==
  ASSUME NEW th, NEW over, NEW entry, NEW sockets, HoldIs(th, over, entry, sockets),
         NEW after, NEW over2, NEW w \in BufWorkers,
         \A x \in BufThreads : x # w => after[x] = th[x], after[w] = Idle, th[w].at # "idle",
         \A s \in BufSocks : s # th[w].sock => over2[s] = over[s],
         \/ over2[th[w].sock].at = "pending" /\ th[w].at # "delete"
         \/ over2[th[w].sock].at \in {"none", "lost"} /\ over2[th[w].sock].buffer = NoBuffer
  PROVE  HoldIs(after, over2, entry, sockets)
<1>0. /\ \A x \in BufWorkers : x # w => after[x] = th[x]
      /\ after[BufApp] = th[BufApp] /\ after[w].at = "idle"
      /\ th[w].sock \in BufSocks /\ over[th[w].sock].at = "held"
      /\ \A x \in BufWorkers : x # w /\ th[x].at # "idle" => th[x].sock # th[w].sock
  BY BufConstants DEF HoldIs, Idle, Doing
<1>1. \A s : OwnedBy(after, sockets, s) <=> OwnedBy(th, sockets, s) BY <1>0 DEF OwnedBy
<1>2. \A s \in BufSocks : ReadOf(after, over2, s) => ReadOf(th, over, s)
  <2> SUFFICES ASSUME NEW s \in BufSocks, ReadOf(after, over2, s) PROVE ReadOf(th, over, s) OBVIOUS
  <2>1. CASE s = th[w].sock
    <3>1. over2[s].at = "pending" /\ th[w].at # "delete" BY <2>1 DEF ReadOf
    <3>2. \A x \in BufWorkers : th[x] # Doing("delete", s)
      <4>1. \A x \in BufWorkers : th[x] = Doing("delete", s) => th[x].at # "idle" /\ th[x].sock = s
        BY DEF Doing
      <4>2. th[w] # Doing("delete", s) BY <3>1 DEF Doing
      <4> QED BY <1>0, <2>1, <4>1, <4>2
    <3> QED BY <1>0, <2>1, <3>2 DEF ReadOf
  <2>2. CASE s # th[w].sock
    <3>1. th[w] # Doing("delete", s) BY <2>2 DEF Doing
    <3> QED BY <1>0, <2>2, <3>1 DEF ReadOf
  <2> QED BY <2>1, <2>2
<1>3. th[BufApp].at \in CreateSteps => th[BufApp].sock # th[w].sock BY <1>0 DEF HoldIs, NoOver
<1>4. \A x \in BufWorkers : after[x].at # "idle" =>
       /\ after[x].sock \in BufSocks /\ over2[after[x].sock].at = "held"
       /\ after[x].at \in {"alloc", "handed"} => over2[after[x].sock].buffer = NoBuffer
  BY <1>0 DEF HoldIs
<1>5. \A v, x \in BufWorkers :
       v # x /\ after[v].at # "idle" /\ after[x].at # "idle" => after[v].sock # after[x].sock
  BY <1>0 DEF HoldIs
<1>6. \A s \in BufSocks : over2[s].at \in {"none", "start", "lost"} => over2[s].buffer = NoBuffer
  BY DEF HoldIs
<1>7. after[BufApp].at \in CreateSteps =>
       entry[after[BufApp].sock] = "none" /\ over2[after[BufApp].sock] = NoOver
  <2>1. th[BufApp].at \in CreateSteps => th[BufApp].at # "idle" BY DEF CreateSteps
  <2> QED BY <1>0, <1>3, <2>1 DEF HoldIs
<1> QED BY <1>0, <1>1, <1>2, <1>4, <1>5, <1>6, <1>7 DEF HoldIs

\* A worker takes a read that has ended, or a socket whose first read is to be started.
LEMMA HoldTakes ==
  ASSUME NEW th, NEW over, NEW entry, NEW sockets, HoldIs(th, over, entry, sockets),
         NEW after, NEW over2, NEW w \in BufWorkers, NEW s \in BufSocks, NEW at,
         \A x \in BufThreads : x # w => after[x] = th[x], after[w] = Doing(at, s), th[w].at = "idle",
         at \notin {"idle", "delete", "handed"}, over[s].at \notin {"none", "lost", "held"},
         at = "alloc" => over[s].at = "start",
         \A t \in BufSocks : t # s => over2[t] = over[t],
         over2[s].at = "held", over2[s].buffer = over[s].buffer
  PROVE  HoldIs(after, over2, entry, sockets)
<1>0. /\ \A x \in BufWorkers : x # w => after[x] = th[x]
      /\ after[BufApp] = th[BufApp] /\ after[w].at = at /\ after[w].sock = s
      /\ \A x \in BufWorkers : th[x].at # "idle" => th[x].sock # s
      /\ at = "alloc" => over2[s].buffer = NoBuffer
  BY BufConstants DEF HoldIs, Doing
<1>1. \A t : OwnedBy(after, sockets, t) <=> OwnedBy(th, sockets, t) BY <1>0 DEF OwnedBy
<1>2. \A t \in BufSocks : ReadOf(after, over2, t) => ReadOf(th, over, t)
  <2> SUFFICES ASSUME NEW t \in BufSocks, ReadOf(after, over2, t) PROVE ReadOf(th, over, t) OBVIOUS
  <2>1. th[w] # Doing("delete", t) BY DEF Doing
  <2>2. over[t].at \notin {"none", "lost"} BY DEF ReadOf
  <2> QED BY <1>0, <2>1, <2>2 DEF ReadOf
<1>3. th[BufApp].at \in CreateSteps => th[BufApp].sock # s BY DEF HoldIs, NoOver
<1>4. \A x \in BufWorkers : after[x].at # "idle" =>
       /\ after[x].sock \in BufSocks /\ over2[after[x].sock].at = "held"
       /\ after[x].at \in {"alloc", "handed"} => over2[after[x].sock].buffer = NoBuffer
  BY <1>0 DEF HoldIs
<1>5. \A v, x \in BufWorkers :
       v # x /\ after[v].at # "idle" /\ after[x].at # "idle" => after[v].sock # after[x].sock
  BY <1>0 DEF HoldIs
<1>6. \A t \in BufSocks : over2[t].at \in {"none", "start", "lost"} => over2[t].buffer = NoBuffer
  BY DEF HoldIs
<1>7. after[BufApp].at \in CreateSteps =>
       entry[after[BufApp].sock] = "none" /\ over2[after[BufApp].sock] = NoOver
  <2>1. th[BufApp].at \in CreateSteps => th[BufApp].at # "idle" BY DEF CreateSteps
  <2> QED BY <1>0, <1>3, <2>1 DEF HoldIs
<1> QED BY <1>0, <1>1, <1>2, <1>4, <1>5, <1>6, <1>7 DEF HoldIs

\* A worker has taken the entry of its socket one state further.
LEMMA HoldClosed ==
  ASSUME NEW th, NEW over, NEW entry, NEW sockets, HoldIs(th, over, entry, sockets),
         NEW after, NEW entry2, NEW w \in BufWorkers,
         \A x \in BufThreads : x # w => after[x] = th[x], after[w] = Doing("delete", th[w].sock),
         th[w].at = "closing",
         \A s \in BufSocks : s # th[w].sock => entry2[s] = entry[s],
         entry2[th[w].sock] = AfterDestruction(entry[th[w].sock])
  PROVE  HoldIs(after, over, entry2, sockets)
<1>0. /\ \A x \in BufWorkers : x # w => after[x] = th[x]
      /\ after[BufApp] = th[BufApp] /\ after[w].at = "delete" /\ after[w].sock = th[w].sock
      /\ th[w].sock \in BufSocks /\ over[th[w].sock].at = "held"
      /\ \A x \in BufWorkers : x # w /\ th[x].at # "idle" => th[x].sock # th[w].sock
  BY BufConstants DEF HoldIs, Doing
<1>1. \A s : OwnedBy(after, sockets, s) <=> OwnedBy(th, sockets, s) BY <1>0 DEF OwnedBy
<1>2. \A s \in BufSocks : ReadOf(after, over, s) => ReadOf(th, over, s) /\ s # th[w].sock
  <2> SUFFICES ASSUME NEW s \in BufSocks, ReadOf(after, over, s) PROVE ReadOf(th, over, s) /\ s # th[w].sock
    OBVIOUS
  <2>1. s # th[w].sock BY DEF ReadOf
  <2>2. th[w] # Doing("delete", s) BY DEF Doing
  <2> QED BY <1>0, <2>1, <2>2 DEF ReadOf
<1>3. ReadOf(th, over, th[w].sock)
  <2>1. \A x \in BufWorkers : th[x] # Doing("delete", th[w].sock)
    <3>1. \A x \in BufWorkers : th[x] = Doing("delete", th[w].sock) =>
            th[x].at = "delete" /\ th[x].sock = th[w].sock
      BY DEF Doing
    <3> QED BY <1>0, <3>1
  <2> QED BY <1>0, <2>1 DEF ReadOf
<1>4. \A s \in BufSocks :
       /\ OwnedBy(after, sockets, s) \/ ReadOf(after, over, s) => entry2[s] # "none"
       /\ OwnedBy(after, sockets, s) /\ ReadOf(after, over, s) => entry2[s] = "active"
  <2> SUFFICES ASSUME NEW s \in BufSocks
               PROVE  /\ OwnedBy(th, sockets, s) \/ ReadOf(after, over, s) => entry2[s] # "none"
                      /\ OwnedBy(th, sockets, s) /\ ReadOf(after, over, s) => entry2[s] = "active"
    BY <1>1
  <2>1. CASE s = th[w].sock
    <3>1. ~ReadOf(after, over, s) BY <1>2, <2>1
    <3>2. OwnedBy(th, sockets, s) => entry[s] = "active" BY <1>3, <2>1 DEF HoldIs
    <3> QED BY <2>1, <3>1, <3>2 DEF AfterDestruction
  <2>2. CASE s # th[w].sock BY <1>2, <2>2 DEF HoldIs
  <2> QED BY <2>1, <2>2
<1>5. th[BufApp].at \in CreateSteps => th[BufApp].sock # th[w].sock BY <1>0 DEF HoldIs, NoOver
<1>6. after[BufApp].at \in CreateSteps =>
       entry2[after[BufApp].sock] = "none" /\ over[after[BufApp].sock] = NoOver
  <2>1. th[BufApp].at \in CreateSteps => th[BufApp].at # "idle" BY DEF CreateSteps
  <2> QED BY <1>0, <1>5, <2>1 DEF HoldIs
<1>7. \A x \in BufWorkers : after[x].at # "idle" =>
       /\ after[x].sock \in BufSocks /\ over[after[x].sock].at = "held"
       /\ after[x].at \in {"alloc", "handed"} => over[after[x].sock].buffer = NoBuffer
  BY <1>0 DEF HoldIs
<1>8. \A v, x \in BufWorkers :
       v # x /\ after[v].at # "idle" /\ after[x].at # "idle" => after[v].sock # after[x].sock
  BY <1>0 DEF HoldIs
<1> QED BY <1>0, <1>4, <1>6, <1>7, <1>8 DEF HoldIs

-----------------------------------------------------------------------------
(* The invariant is kept.                                                  *)

BufInv ==
  /\ BufTypes
  /\ LockIs(bufThread, bufOwner, bufReaders)
  /\ HoldIs(bufThread, bufOver, bufEntry, bufSockets)
  /\ PoolIs(bufOver, bufHead, bufNext, bufCount)

ThreadStates == [at: AppSteps \cup WorkSteps, sock: BufSocks \cup {NoSock}]
Overlapped ==
  [at: {"none", "start", "packet", "empty", "failed", "pending", "held", "lost"}, buffer: Buffers \cup {NoBuffer}]

LEMMA NextInv ==
  ASSUME BufTypes', LockIs(bufThread', bufOwner', bufReaders'),
         HoldIs(bufThread', bufOver', bufEntry', bufSockets'),
         PoolIs(bufOver', bufHead', bufNext', bufCount')
  PROVE  BufInv'
  BY DEF BufInv, LockIs, HoldIs, PoolIs, Readers, BufThreads, Divides, FreeList, FreeSet, HeldOf, Apart, OwnedBy, ReadOf, Buffers

\* One thread goes to another step, with the same socket.
LEMMA ThreadGoes ==
  ASSUME BufTypes, NEW t \in BufThreads, NEW at, bufThread' = [bufThread EXCEPT ![t].at = at],
         t = BufApp => at \in AppSteps, t # BufApp => at \in WorkSteps
  PROVE  /\ \A x \in BufThreads : x # t => bufThread'[x] = bufThread[x]
         /\ bufThread'[t].at = at /\ bufThread'[t].sock = bufThread[t].sock
         /\ bufThread' \in [BufThreads -> ThreadStates]
         /\ bufThread'[BufApp].at \in AppSteps /\ \A w \in BufWorkers : bufThread'[w].at \in WorkSteps
<1>1. bufThread \in [BufThreads -> ThreadStates] BY DEF BufTypes, ThreadStates
<1>2. t = BufApp \/ t \in BufWorkers BY DEF BufThreads
<1>3. at \in AppSteps \cup WorkSteps BY <1>2
<1>4. [bufThread[t] EXCEPT !.at = at] \in ThreadStates
      /\ [bufThread[t] EXCEPT !.at = at].at = at /\ [bufThread[t] EXCEPT !.at = at].sock = bufThread[t].sock
  BY <1>1, <1>3 DEF ThreadStates
<1>5. bufThread'[t] = [bufThread[t] EXCEPT !.at = at]
      /\ \A x \in BufThreads : x # t => bufThread'[x] = bufThread[x]
  BY <1>1
<1>6. bufThread' \in [BufThreads -> ThreadStates] BY <1>1, <1>4
<1>7. bufThread'[BufApp].at \in AppSteps
  BY <1>4, <1>5, BufConstants DEF BufTypes
<1>8. \A w \in BufWorkers : bufThread'[w].at \in WorkSteps
  BY <1>4, <1>5, BufConstants DEF BufTypes
<1> QED BY <1>4, <1>5, <1>6, <1>7, <1>8

\* One thread goes to a step with a socket of its own.
LEMMA ThreadDoes ==
  ASSUME BufTypes, NEW t \in BufThreads, NEW at, NEW s \in BufSocks \cup {NoSock},
         bufThread' = [bufThread EXCEPT ![t] = Doing(at, s)],
         t = BufApp => at \in AppSteps, t # BufApp => at \in WorkSteps
  PROVE  /\ \A x \in BufThreads : x # t => bufThread'[x] = bufThread[x]
         /\ bufThread'[t] = Doing(at, s) /\ bufThread'[t].at = at /\ bufThread'[t].sock = s
         /\ bufThread' \in [BufThreads -> ThreadStates]
         /\ bufThread'[BufApp].at \in AppSteps /\ \A w \in BufWorkers : bufThread'[w].at \in WorkSteps
<1>1. bufThread \in [BufThreads -> ThreadStates] BY DEF BufTypes, ThreadStates
<1>2. t = BufApp \/ t \in BufWorkers BY DEF BufThreads
<1>3. Doing(at, s) \in ThreadStates /\ Doing(at, s).at = at /\ Doing(at, s).sock = s
  BY <1>2 DEF ThreadStates, Doing
<1>4. bufThread'[t] = Doing(at, s) /\ \A x \in BufThreads : x # t => bufThread'[x] = bufThread[x]
  BY <1>1
<1>5. bufThread' \in [BufThreads -> ThreadStates] BY <1>1, <1>3
<1>6. bufThread'[BufApp].at \in AppSteps BY <1>3, <1>4, BufConstants DEF BufTypes
<1>7. \A w \in BufWorkers : bufThread'[w].at \in WorkSteps BY <1>3, <1>4, BufConstants DEF BufTypes
<1> QED BY <1>3, <1>4, <1>5, <1>6, <1>7

\* The lock of the map is asked for and waited for.
LEMMA LocksKeeps ==
  ASSUME BufInv, NEW t \in BufThreads, NEW wants, NEW waits, NEW writes, Locks(t, wants, waits, writes),
         \/ t = BufApp /\ wants = "create" /\ waits = "createWaits" /\ writes = "creating"
         \/ t = BufApp /\ wants = "destroy" /\ waits = "destroyWaits" /\ writes = "destroying"
         \/ t \in BufWorkers /\ wants = "close" /\ waits = "closeWaits" /\ writes = "closing"
  PROVE  BufInv'
<1>1. bufOver' = bufOver /\ bufEntry' = bufEntry /\ bufSockets' = bufSockets
      /\ bufNext' = bufNext /\ bufHead' = bufHead /\ bufCount' = bufCount
  BY DEF Locks, bufPool
<1>2. PICK at \in {waits, writes} :
        /\ bufThread' = [bufThread EXCEPT ![t].at = at]
        /\ \/ /\ bufThread[t].at = wants /\ at = waits
              /\ bufOwner = NoOwner /\ bufOwner' = t /\ bufReaders' = bufReaders
           \/ /\ bufThread[t].at = waits /\ at = writes
              /\ bufReaders = 0 /\ bufOwner' = bufOwner /\ bufReaders' = bufReaders
  BY DEF Locks, WriteLockBy, ReadersGone, Goes, bufLock
<1>3. BufApp \notin BufWorkers BY BufConstants
<1>4. (t = BufApp => at \in AppSteps) /\ (t # BufApp => at \in WorkSteps) BY <1>3 DEF AppSteps, WorkSteps
<1>5. BufTypes BY DEF BufInv
<1>6. /\ \A x \in BufThreads : x # t => bufThread'[x] = bufThread[x]
      /\ bufThread'[t].at = at /\ bufThread'[t].sock = bufThread[t].sock
      /\ bufThread' \in [BufThreads -> ThreadStates]
      /\ bufThread'[BufApp].at \in AppSteps /\ \A w \in BufWorkers : bufThread'[w].at \in WorkSteps
  BY <1>2, <1>4, <1>5, ThreadGoes
<1>7. BufTypes' BY <1>1, <1>5, <1>6 DEF BufTypes, ThreadStates, BufThreads, Buffers
<1>8. LockIs(bufThread', bufOwner', bufReaders')
  <2>1. LockIs(bufThread, bufOwner, bufReaders) BY DEF BufInv
  <2>2. wants \notin ReadSteps \cup OwnSteps /\ waits \in OwnSteps \ WriteSteps /\ writes \in OwnSteps
    BY DEF ReadSteps, OwnSteps, WriteSteps
  <2>3. Moves(t, bufThread[t].at, at, bufOwner, bufReaders, bufOwner', bufReaders') BY <1>2, <2>2 DEF Moves
  <2> QED BY <1>6, <2>1, <2>3, LockMoves
<1>9. HoldIs(bufThread', bufOver, bufEntry, bufSockets)
  <2>1. HoldIs(bufThread, bufOver, bufEntry, bufSockets) BY DEF BufInv
  <2>2. CASE t = BufApp
    <3>1. \A x \in BufWorkers : bufThread'[x] = bufThread[x] BY <1>3, <1>6, <2>2 DEF BufThreads
    <3>2. /\ bufThread[BufApp].at # "idle"
          /\ at \in CreateSteps => bufThread[BufApp].at \in CreateSteps
          /\ at \in DestroySteps <=> bufThread[BufApp].at \in DestroySteps
      BY <1>2, <1>3, <2>2 DEF CreateSteps, DestroySteps
    <3> QED BY <1>6, <2>1, <2>2, <3>1, <3>2, HoldApp
  <2>3. CASE t \in BufWorkers
    <3>1. bufThread[t].at \in {"close", "closeWaits"} /\ at \in {"closeWaits", "closing"}
      BY <1>2, <1>3, <2>3
    <3>2. bufOver[bufThread[t].sock].at = "held" BY <2>1, <2>3, <3>1 DEF HoldIs
    <3> QED BY <1>6, <2>1, <2>3, <3>1, <3>2, HoldWorker
  <2> QED BY <2>2, <2>3 DEF BufThreads
<1>10. PoolIs(bufOver, bufHead, bufNext, bufCount) BY DEF BufInv
<1> QED BY <1>1, <1>7, <1>8, <1>9, <1>10, NextInv

LEMMA SendPacketKeeps ==
  ASSUME BufInv, SendPacket PROVE BufInv'
<1>1. bufOver' = bufOver /\ bufEntry' = bufEntry /\ bufSockets' = bufSockets
      /\ bufNext' = bufNext /\ bufHead' = bufHead /\ bufCount' = bufCount
  BY DEF SendPacket, bufPool
<1>2. PICK at \in {"sending", "idle"} :
        /\ bufThread' = [bufThread EXCEPT ![BufApp].at = at]
        /\ \/ /\ bufThread[BufApp].at = "send" /\ at = "sending"
              /\ bufOwner = NoOwner /\ bufOwner' = bufOwner /\ bufReaders' = bufReaders + 1
           \/ /\ bufThread[BufApp].at = "sending" /\ at = "idle"
              /\ bufOwner' = bufOwner /\ bufReaders' = bufReaders - 1
  BY DEF SendPacket, ReadLock, ReadUnlock, Goes
<1>3. BufApp \notin BufWorkers /\ BufApp \in BufThreads BY BufConstants
<1>5. BufTypes BY DEF BufInv
<1>6. /\ \A x \in BufThreads : x # BufApp => bufThread'[x] = bufThread[x]
      /\ bufThread'[BufApp].at = at /\ bufThread'[BufApp].sock = bufThread[BufApp].sock
      /\ bufThread' \in [BufThreads -> ThreadStates]
      /\ bufThread'[BufApp].at \in AppSteps /\ \A w \in BufWorkers : bufThread'[w].at \in WorkSteps
  <2>1. at \in AppSteps BY DEF AppSteps
  <2> QED BY <1>2, <1>3, <1>5, <2>1, ThreadGoes
<1>7. BufTypes' BY <1>1, <1>5, <1>6 DEF BufTypes, ThreadStates, BufThreads, Buffers
<1>8. LockIs(bufThread', bufOwner', bufReaders')
  <2>1. LockIs(bufThread, bufOwner, bufReaders) BY DEF BufInv
  <2>2. {"send", "idle"} \cap (ReadSteps \cup OwnSteps) = {} /\ "sending" \in ReadSteps
    BY DEF ReadSteps, OwnSteps, WriteSteps
  <2>3. "send" \notin ReadSteps \cup OwnSteps /\ "idle" \notin ReadSteps \cup OwnSteps BY <2>2
  <2>4. Moves(BufApp, bufThread[BufApp].at, at, bufOwner, bufReaders, bufOwner', bufReaders')
    BY <1>2, <2>2, <2>3 DEF Moves
  <2> QED BY <1>3, <1>6, <2>1, <2>4, LockMoves
<1>9. HoldIs(bufThread', bufOver, bufEntry, bufSockets)
  <2>1. HoldIs(bufThread, bufOver, bufEntry, bufSockets) BY DEF BufInv
  <2>2. \A x \in BufWorkers : bufThread'[x] = bufThread[x] BY <1>3, <1>6 DEF BufThreads
  <2>3. /\ bufThread[BufApp].at # "idle" /\ at \notin CreateSteps
        /\ at \in DestroySteps <=> bufThread[BufApp].at \in DestroySteps
    BY <1>2 DEF CreateSteps, DestroySteps
  <2> QED BY <1>6, <2>1, <2>2, <2>3, HoldApp
<1>10. PoolIs(bufOver, bufHead, bufNext, bufCount) BY DEF BufInv
<1> QED BY <1>1, <1>7, <1>8, <1>9, <1>10, NextInv

LEMMA AppCallsKeeps ==
  ASSUME BufInv, NEW s \in BufSocks, NEW what \in {"create", "destroy", "send"}, AppCalls(what, s)
  PROVE  BufInv'
<1>1. /\ bufOver' = bufOver /\ bufEntry' = bufEntry /\ bufOwner' = bufOwner /\ bufReaders' = bufReaders
      /\ bufNext' = bufNext /\ bufHead' = bufHead /\ bufCount' = bufCount
      /\ bufSockets' = IF what = "destroy" THEN bufSockets \ {s} ELSE bufSockets
      /\ bufThread[BufApp].at = "idle" /\ bufThread' = [bufThread EXCEPT ![BufApp] = Doing(what, s)]
      /\ (what = "create" => bufEntry[s] = "none" /\ bufOver[s] = NoOver)
      /\ (what # "create" => s \in bufSockets)
  BY DEF AppCalls, bufPool, bufLock
<1>3. BufApp \notin BufWorkers /\ BufApp \in BufThreads BY BufConstants
<1>5. BufTypes BY DEF BufInv
<1>6. /\ \A x \in BufThreads : x # BufApp => bufThread'[x] = bufThread[x]
      /\ bufThread'[BufApp].at = what /\ bufThread'[BufApp].sock = s
      /\ bufThread' \in [BufThreads -> ThreadStates]
      /\ bufThread'[BufApp].at \in AppSteps /\ \A w \in BufWorkers : bufThread'[w].at \in WorkSteps
  <2>1. what \in AppSteps /\ s \in BufSocks \cup {NoSock} BY DEF AppSteps
  <2>2. bufThread' = [bufThread EXCEPT ![BufApp] = Doing(what, s)] BY <1>1
  <2>3. (BufApp = BufApp => what \in AppSteps) /\ (BufApp # BufApp => what \in WorkSteps) BY <2>1
  <2>4. BufApp \in BufThreads BY <1>3
  <2>5. /\ \A x \in BufThreads : x # BufApp => bufThread'[x] = bufThread[x]
        /\ bufThread'[BufApp] = Doing(what, s) /\ bufThread'[BufApp].at = what /\ bufThread'[BufApp].sock = s
        /\ bufThread' \in [BufThreads -> ThreadStates]
        /\ bufThread'[BufApp].at \in AppSteps /\ \A w \in BufWorkers : bufThread'[w].at \in WorkSteps
    BY <1>5, <2>1, <2>2, <2>3, <2>4, ThreadDoes
  <2> QED BY <2>5
<1>7. BufTypes' BY <1>1, <1>5, <1>6 DEF BufTypes, ThreadStates, BufThreads, Buffers
<1>8. LockIs(bufThread', bufOwner', bufReaders')
  <2>1. LockIs(bufThread, bufOwner, bufReaders) BY DEF BufInv
  <2>2. "idle" \notin ReadSteps \cup OwnSteps /\ what \notin ReadSteps \cup OwnSteps
    BY DEF ReadSteps, OwnSteps, WriteSteps
  <2>3. Moves(BufApp, bufThread[BufApp].at, what, bufOwner, bufReaders, bufOwner', bufReaders')
    BY <1>1, <2>2 DEF Moves
  <2> QED BY <1>3, <1>6, <2>1, <2>3, LockMoves
<1>9. HoldIs(bufThread', bufOver, bufEntry, bufSockets')
  <2>1. HoldIs(bufThread, bufOver, bufEntry, bufSockets) BY DEF BufInv
  <2>2. \A x \in BufWorkers : bufThread'[x] = bufThread[x] BY <1>3, <1>6 DEF BufThreads
  <2>3. \A u \in BufSocks : ReadOf(bufThread', bufOver, u) <=> ReadOf(bufThread, bufOver, u)
    BY <2>2 DEF ReadOf
  <2>4. \A u : OwnedBy(bufThread', bufSockets', u) => OwnedBy(bufThread, bufSockets, u)
    BY <1>1, <1>6 DEF OwnedBy, DestroySteps
  <2>5. bufThread'[BufApp].at \in CreateSteps => what = "create" BY <1>6 DEF CreateSteps
  <2>6. bufThread'[BufApp].at \in DestroySteps => what = "destroy" BY <1>6 DEF DestroySteps
  <2>7. /\ bufThread'[BufApp].sock \in BufSocks
        /\ bufThread'[BufApp].at \in CreateSteps => bufEntry[s] = "none" /\ bufOver[s] = NoOver
        /\ bufThread'[BufApp].at \in DestroySteps => s \notin bufSockets'
    BY <1>1, <1>6, <2>5, <2>6
  <2>8. \A u \in BufSocks :
       /\ OwnedBy(bufThread', bufSockets', u) \/ ReadOf(bufThread', bufOver, u) => bufEntry[u] # "none"
       /\ OwnedBy(bufThread', bufSockets', u) /\ ReadOf(bufThread', bufOver, u) => bufEntry[u] = "active"
    BY <2>1, <2>3, <2>4 DEF HoldIs
  <2>9. \A w \in BufWorkers : bufThread'[w].at # "idle" =>
          /\ bufThread'[w].sock \in BufSocks /\ bufOver[bufThread'[w].sock].at = "held"
          /\ bufThread'[w].at \in {"alloc", "handed"} => bufOver[bufThread'[w].sock].buffer = NoBuffer
    BY <2>1, <2>2 DEF HoldIs
  <2>10. \A v, w \in BufWorkers : v # w /\ bufThread'[v].at # "idle" /\ bufThread'[w].at # "idle" =>
          bufThread'[v].sock # bufThread'[w].sock
    BY <2>1, <2>2 DEF HoldIs
  <2>11. \A u \in BufSocks : bufOver[u].at \in {"none", "start", "lost"} => bufOver[u].buffer = NoBuffer
    BY <2>1 DEF HoldIs
  <2> QED BY <1>6, <2>7, <2>8, <2>9, <2>10, <2>11 DEF HoldIs
<1>10. PoolIs(bufOver, bufHead, bufNext, bufCount) BY DEF BufInv
<1> QED BY <1>1, <1>7, <1>8, <1>9, <1>10, NextInv

LEMMA CreatedKeeps ==
  ASSUME BufInv, Created PROVE BufInv'
<1> DEFINE s == bufThread[BufApp].sock
<1>1. bufThread[BufApp].at = "creating" /\ bufOwner' = NoOwner /\ bufReaders' = bufReaders
      /\ bufNext' = bufNext /\ bufHead' = bufHead /\ bufCount' = bufCount
      /\ bufThread' = [bufThread EXCEPT ![BufApp] = Doing("idle", NoSock)]
      /\ \/ /\ bufEntry' = [bufEntry EXCEPT ![s] = "active"]
            /\ bufOver' = [bufOver EXCEPT ![s] = [NoOver EXCEPT !.at = "start"]]
            /\ bufSockets' = bufSockets \cup {s}
         \/ /\ bufEntry' = [bufEntry EXCEPT ![s] = "inactive"]
            /\ bufOver' = bufOver /\ bufSockets' = bufSockets
  BY DEF Created, bufPool, Idle
<1>2. HoldIs(bufThread, bufOver, bufEntry, bufSockets) /\ BufTypes BY DEF BufInv
<1>3. BufApp \notin BufWorkers /\ BufApp \in BufThreads BY BufConstants
<1>4. "creating" \in CreateSteps /\ "creating" \notin DestroySteps BY DEF CreateSteps, DestroySteps
<1>5. s \in BufSocks /\ bufEntry[s] = "none" /\ bufOver[s] = NoOver BY <1>1, <1>2, <1>4 DEF HoldIs
<1>6. /\ \A x \in BufThreads : x # BufApp => bufThread'[x] = bufThread[x]
      /\ bufThread'[BufApp].at = "idle"
      /\ bufThread' \in [BufThreads -> ThreadStates]
      /\ bufThread'[BufApp].at \in AppSteps /\ \A w \in BufWorkers : bufThread'[w].at \in WorkSteps
  <2>1. "idle" \in AppSteps BY DEF AppSteps
  <2> QED BY <1>1, <1>2, <1>3, <2>1, ThreadDoes
<1> DEFINE o == [NoOver EXCEPT !.at = "start"]
<1>7. o \in Overlapped /\ o.at = "start" /\ o.buffer = NoBuffer BY DEF NoOver, Overlapped
<1>8. bufOver \in [BufSocks -> Overlapped] /\ bufEntry \in [BufSocks -> {"none", "active", "inactive"}]
  BY <1>2 DEF BufTypes, Overlapped
<1> HIDE DEF o
<1>9. BufTypes'
  <2>1. bufOver' \in [BufSocks -> Overlapped] BY <1>1, <1>7, <1>8 DEF o
  <2>2. bufEntry' \in [BufSocks -> {"none", "active", "inactive"}] BY <1>1, <1>8
  <2>3. bufSockets' \subseteq BufSocks BY <1>1, <1>2, <1>5 DEF BufTypes
  <2> QED BY <1>1, <1>2, <1>6, <2>1, <2>2, <2>3 DEF BufTypes, ThreadStates, BufThreads, Buffers, Overlapped
<1>10. LockIs(bufThread', bufOwner', bufReaders')
  <2>1. LockIs(bufThread, bufOwner, bufReaders) BY DEF BufInv
  <2>2. "idle" \notin ReadSteps \cup OwnSteps /\ "creating" \in OwnSteps
    BY DEF ReadSteps, OwnSteps, WriteSteps
  <2>3. Moves(BufApp, bufThread[BufApp].at, "idle", bufOwner, bufReaders, bufOwner', bufReaders')
    BY <1>1, <2>2 DEF Moves
  <2> QED BY <1>3, <1>6, <2>1, <2>3, LockMoves
<1>11. \A x \in BufWorkers : bufThread'[x] = bufThread[x] /\ (bufThread[x].at # "idle" => bufThread[x].sock # s)
  <2>1. \A x \in BufWorkers : bufThread[x].at # "idle" => bufThread[x].sock # s
    BY <1>2, <1>5 DEF HoldIs, NoOver
  <2> QED BY <1>3, <1>6, <2>1 DEF BufThreads
<1>12. \A u \in BufSocks : u # s => /\ bufOver'[u] = bufOver[u] /\ bufEntry'[u] = bufEntry[u]
                                    /\ u \in bufSockets' <=> u \in bufSockets
  BY <1>1, <1>8
<1>13. bufEntry'[s] # "none" /\ (bufEntry'[s] = "active" \/ (bufOver' = bufOver /\ bufSockets' = bufSockets))
       /\ bufOver'[s].at \in {"none", "start"} /\ bufOver'[s].buffer = NoBuffer
  <2>1. NoOver.at = "none" /\ NoOver.buffer = NoBuffer BY DEF NoOver
  <2> QED BY <1>1, <1>5, <1>7, <1>8, <2>1 DEF o
<1>14. HoldIs(bufThread', bufOver', bufEntry', bufSockets')
  <2>1. ~OwnedBy(bufThread, bufSockets, s) BY <1>2, <1>5 DEF HoldIs
  <2>2. \A u : OwnedBy(bufThread', bufSockets, u) => OwnedBy(bufThread, bufSockets, u)
    BY <1>6 DEF OwnedBy, DestroySteps
  <2>3. \A u \in BufSocks : u # s =>
          /\ OwnedBy(bufThread', bufSockets', u) => OwnedBy(bufThread, bufSockets, u)
          /\ ReadOf(bufThread', bufOver', u) => ReadOf(bufThread, bufOver, u)
    BY <1>6, <1>11, <1>12 DEF OwnedBy, ReadOf, DestroySteps
  <2>4. \A u \in BufSocks :
       /\ OwnedBy(bufThread', bufSockets', u) \/ ReadOf(bufThread', bufOver', u) => bufEntry'[u] # "none"
       /\ OwnedBy(bufThread', bufSockets', u) /\ ReadOf(bufThread', bufOver', u) => bufEntry'[u] = "active"
    <3> SUFFICES ASSUME NEW u \in BufSocks
                 PROVE  /\ OwnedBy(bufThread', bufSockets', u) \/ ReadOf(bufThread', bufOver', u) => bufEntry'[u] # "none"
                        /\ OwnedBy(bufThread', bufSockets', u) /\ ReadOf(bufThread', bufOver', u) => bufEntry'[u] = "active"
      OBVIOUS
    <3>1. CASE u = s BY <1>13, <2>1, <2>2, <3>1
    <3>2. CASE u # s BY <1>2, <1>12, <2>3, <3>2 DEF HoldIs
    <3> QED BY <3>1, <3>2
  <2>5. \A w \in BufWorkers : bufThread'[w].at # "idle" =>
          /\ bufThread'[w].sock \in BufSocks /\ bufOver'[bufThread'[w].sock].at = "held"
          /\ bufThread'[w].at \in {"alloc", "handed"} => bufOver'[bufThread'[w].sock].buffer = NoBuffer
    BY <1>2, <1>11, <1>12 DEF HoldIs
  <2>6. \A v, w \in BufWorkers : v # w /\ bufThread'[v].at # "idle" /\ bufThread'[w].at # "idle" =>
          bufThread'[v].sock # bufThread'[w].sock
    BY <1>2, <1>11 DEF HoldIs
  <2>7. \A u \in BufSocks : bufOver'[u].at \in {"none", "start", "lost"} => bufOver'[u].buffer = NoBuffer
    BY <1>2, <1>12, <1>13 DEF HoldIs
  <2>8. bufThread'[BufApp].at \notin CreateSteps \cup DestroySteps BY <1>6 DEF CreateSteps, DestroySteps
  <2> QED BY <1>6, <2>4, <2>5, <2>6, <2>7, <2>8 DEF HoldIs
<1>15. PoolIs(bufOver', bufHead, bufNext, bufCount)
  <2>1. \A u \in BufSocks : bufOver'[u].buffer = bufOver[u].buffer
    <3>1. bufOver[s].buffer = NoBuffer BY <1>5 DEF NoOver
    <3> QED BY <1>12, <1>13, <3>1
  <2>2. PoolIs(bufOver, bufHead, bufNext, bufCount) BY DEF BufInv
  <2> QED BY <2>1, <2>2, PoolKept
<1> QED BY <1>1, <1>9, <1>10, <1>14, <1>15, NextInv

LEMMA DestroysKeeps ==
  ASSUME BufInv, DestroysSocket PROVE BufInv'
<1> DEFINE s == bufThread[BufApp].sock
<1>1. bufThread[BufApp].at = "destroying" /\ bufOwner' = NoOwner /\ bufReaders' = bufReaders
      /\ bufNext' = bufNext /\ bufHead' = bufHead /\ bufCount' = bufCount
      /\ bufThread' = [bufThread EXCEPT ![BufApp] = Doing("idle", NoSock)]
      /\ bufEntry' = [bufEntry EXCEPT ![s] = AfterDestruction(@)]
      /\ bufOver' = bufOver /\ bufSockets' = bufSockets
  BY DEF DestroysSocket, bufPool, Idle
<1>2. HoldIs(bufThread, bufOver, bufEntry, bufSockets) /\ BufTypes BY DEF BufInv
<1>3. BufApp \notin BufWorkers /\ BufApp \in BufThreads BY BufConstants
<1>4. "destroying" \notin CreateSteps /\ "destroying" \in DestroySteps BY DEF CreateSteps, DestroySteps
<1>5. s \in BufSocks /\ s \notin bufSockets /\ OwnedBy(bufThread, bufSockets, s)
  BY <1>1, <1>2, <1>4 DEF HoldIs, OwnedBy
<1>6. /\ \A x \in BufThreads : x # BufApp => bufThread'[x] = bufThread[x]
      /\ bufThread'[BufApp].at = "idle"
      /\ bufThread' \in [BufThreads -> ThreadStates]
      /\ bufThread'[BufApp].at \in AppSteps /\ \A w \in BufWorkers : bufThread'[w].at \in WorkSteps
  <2>1. "idle" \in AppSteps BY DEF AppSteps
  <2> QED BY <1>1, <1>2, <1>3, <2>1, ThreadDoes
<1>8. bufEntry \in [BufSocks -> {"none", "active", "inactive"}] BY <1>2 DEF BufTypes
<1>9. BufTypes'
  <2>1. bufEntry' \in [BufSocks -> {"none", "active", "inactive"}] BY <1>1, <1>8 DEF AfterDestruction
  <2> QED BY <1>1, <1>2, <1>6, <2>1 DEF BufTypes, ThreadStates, BufThreads, Buffers
<1>10. LockIs(bufThread', bufOwner', bufReaders')
  <2>1. LockIs(bufThread, bufOwner, bufReaders) BY DEF BufInv
  <2>2. "idle" \notin ReadSteps \cup OwnSteps /\ "destroying" \in OwnSteps
    BY DEF ReadSteps, OwnSteps, WriteSteps
  <2>3. Moves(BufApp, bufThread[BufApp].at, "idle", bufOwner, bufReaders, bufOwner', bufReaders')
    BY <1>1, <2>2 DEF Moves
  <2> QED BY <1>3, <1>6, <2>1, <2>3, LockMoves
<1>11. \A x \in BufWorkers : bufThread'[x] = bufThread[x] BY <1>3, <1>6 DEF BufThreads
<1>12. \A u \in BufSocks : u # s => bufEntry'[u] = bufEntry[u] BY <1>8, <1>1
<1>13. bufEntry'[s] = AfterDestruction(bufEntry[s]) BY <1>1, <1>5, <1>8
<1>14. HoldIs(bufThread', bufOver', bufEntry', bufSockets')
  <2>1. \A u : /\ OwnedBy(bufThread', bufSockets, u) => OwnedBy(bufThread, bufSockets, u) /\ u # s
               /\ ReadOf(bufThread', bufOver, u) <=> ReadOf(bufThread, bufOver, u)
    BY <1>5, <1>6, <1>11 DEF OwnedBy, ReadOf, DestroySteps
  <2>2. ReadOf(bufThread, bufOver, s) => bufEntry'[s] # "none"
    BY <1>2, <1>5, <1>13 DEF HoldIs, AfterDestruction
  <2>3. \A u \in BufSocks :
       /\ OwnedBy(bufThread', bufSockets, u) \/ ReadOf(bufThread', bufOver, u) => bufEntry'[u] # "none"
       /\ OwnedBy(bufThread', bufSockets, u) /\ ReadOf(bufThread', bufOver, u) => bufEntry'[u] = "active"
    BY <1>2, <1>12, <2>1, <2>2 DEF HoldIs
  <2>4. bufThread'[BufApp].at \notin CreateSteps \cup DestroySteps BY <1>6 DEF CreateSteps, DestroySteps
  <2>5. \A w \in BufWorkers : bufThread'[w].at # "idle" =>
          /\ bufThread'[w].sock \in BufSocks /\ bufOver[bufThread'[w].sock].at = "held"
          /\ bufThread'[w].at \in {"alloc", "handed"} => bufOver[bufThread'[w].sock].buffer = NoBuffer
    BY <1>2, <1>11 DEF HoldIs
  <2>6. \A v, w \in BufWorkers : v # w /\ bufThread'[v].at # "idle" /\ bufThread'[w].at # "idle" =>
          bufThread'[v].sock # bufThread'[w].sock
    BY <1>2, <1>11 DEF HoldIs
  <2>7. \A u \in BufSocks : bufOver[u].at \in {"none", "start", "lost"} => bufOver[u].buffer = NoBuffer
    BY <1>2 DEF HoldIs
  <2>8. HoldIs(bufThread', bufOver, bufEntry', bufSockets)
    BY <1>6, <2>3, <2>4, <2>5, <2>6, <2>7 DEF HoldIs
  <2> QED BY <1>1, <2>8
<1>15. PoolIs(bufOver, bufHead, bufNext, bufCount) BY DEF BufInv
<1> QED BY <1>1, <1>9, <1>10, <1>14, <1>15, NextInv

\* What a step of a worker does to its overlapped structure.
LEMMA OverGoes ==
  ASSUME BufTypes, NEW s \in BufSocks, NEW o \in Overlapped, bufOver' = [bufOver EXCEPT ![s] = o]
  PROVE  /\ bufOver' \in [BufSocks -> Overlapped] /\ bufOver'[s] = o
         /\ \A u \in BufSocks : u # s => bufOver'[u] = bufOver[u]
  BY DEF BufTypes, Overlapped

\* The socket of a worker that is not idle.
LEMMA WorkerHolds ==
  ASSUME BufInv, NEW w \in BufWorkers, bufThread[w].at # "idle"
  PROVE  /\ w \in BufThreads /\ w # BufApp /\ bufThread[w].sock \in BufSocks
         /\ Over(w) \in Overlapped /\ Over(w).at = "held"
         /\ bufThread[w].at \in {"alloc", "handed"} => Over(w).buffer = NoBuffer
  BY BufConstants DEF BufInv, HoldIs, BufTypes, Overlapped, Over

\* The pool after a buffer, or none, is given back by the socket that held it.
LEMMA FreeKeeps ==
  ASSUME BufInv, NEW s \in BufSocks, Free(bufOver[s].buffer), NEW over2,
         over2[s].buffer = NoBuffer, \A u \in BufSocks : u # s => over2[u].buffer = bufOver[u].buffer
  PROVE  /\ PoolIs(over2, bufHead', bufNext', bufCount')
         /\ bufNext' \in [Buffers -> 0..MaxBuffers + 1] /\ bufHead' \in Buffers \cup {NoBuffer}
         /\ bufCount' \in 0..MaxBuffers
<1>1. PoolIs(bufOver, bufHead, bufNext, bufCount) BY DEF BufInv
<1>2. /\ bufNext \in [Buffers -> 0..MaxBuffers + 1] /\ bufHead \in Buffers \cup {NoBuffer}
      /\ bufCount \in 0..MaxBuffers /\ bufOver[s].buffer \in Buffers \cup {NoBuffer}
  BY DEF BufInv, BufTypes
<1>3. CASE bufOver[s].buffer = NoBuffer
  <2>1. bufNext' = bufNext /\ bufHead' = bufHead /\ bufCount' = bufCount BY <1>3 DEF Free, bufPool
  <2>2. \A u \in BufSocks : over2[u].buffer = bufOver[u].buffer BY <1>3
  <2>3. PoolIs(over2, bufHead, bufNext, bufCount) BY <1>1, <2>2, PoolKept
  <2> QED BY <1>2, <2>1, <2>3
<1>4. CASE bufOver[s].buffer # NoBuffer
  <2>1. /\ bufNext' = [bufNext EXCEPT ![bufOver[s].buffer] = bufHead] /\ bufHead' = bufOver[s].buffer
        /\ bufCount' = bufCount
    BY <1>4 DEF Free
  <2>2. bufOver[s].buffer \in Buffers BY <1>2, <1>4
  <2>3. PoolIs(over2, bufOver[s].buffer, [bufNext EXCEPT ![bufOver[s].buffer] = bufHead], bufCount)
    BY <1>1, <1>2, <2>2, PoolFreed
  <2>4. bufHead \in 0..MaxBuffers + 1 BY <1>2, BufferNumbers DEF Buffers, NoBuffer
  <2> QED BY <1>2, <2>1, <2>2, <2>3, <2>4
<1> QED BY <1>3, <1>4

\* The pool after a socket without a buffer has got one.
LEMMA AllocKeeps ==
  ASSUME BufInv, NEW s \in BufSocks, bufOver[s].buffer = NoBuffer, NEW b \in Buffers, Alloc(b), NEW over2,
         over2[s].buffer = b, \A u \in BufSocks : u # s => over2[u].buffer = bufOver[u].buffer
  PROVE  /\ PoolIs(over2, bufHead', bufNext', bufCount')
         /\ bufNext' = bufNext /\ bufHead' \in Buffers \cup {NoBuffer} /\ bufCount' \in 0..MaxBuffers
<1>1. PoolIs(bufOver, bufHead, bufNext, bufCount) BY DEF BufInv
<1>2. /\ bufNext \in [Buffers -> 0..MaxBuffers + 1] /\ bufHead \in Buffers \cup {NoBuffer}
      /\ bufCount \in 0..MaxBuffers
  BY DEF BufInv, BufTypes
<1>3. CASE bufHead = NoBuffer
  <2>1. b = bufCount + 1 /\ bufCount' = b /\ bufNext' = bufNext /\ bufHead' = bufHead BY <1>3 DEF Alloc
  <2>2. bufCount \in Nat BY <1>2
  <2>3. PoolIs(over2, NoBuffer, bufNext, bufCount + 1) BY <1>1, <1>3, <2>1, <2>2, PoolGrown
  <2>4. b \in 0..MaxBuffers BY BufferNumbers DEF Buffers
  <2> QED BY <1>2, <1>3, <2>1, <2>3, <2>4
<1>4. CASE bufHead # NoBuffer
  <2>1. b = bufHead /\ bufHead' = bufNext[bufHead] /\ bufNext' = bufNext /\ bufCount' = bufCount
    BY <1>4 DEF Alloc
  <2>2. PoolIs(over2, bufNext[bufHead], bufNext, bufCount) /\ bufNext[bufHead] \in Buffers \cup {NoBuffer}
    BY <1>1, <1>4, <2>1, PoolTaken
  <2> QED BY <1>2, <2>1, <2>2
<1> QED BY <1>3, <1>4

LEMMA ReadEndsKeeps ==
  ASSUME BufInv, NEW s \in BufSocks, NEW how \in {"packet", "empty", "failed"}, ReadEnds(s, how)
  PROVE  BufInv'
<1>1. /\ bufOver[s].at = "pending" /\ bufOver' = [bufOver EXCEPT ![s].at = how]
      /\ bufThread' = bufThread /\ bufEntry' = bufEntry /\ bufSockets' = bufSockets
      /\ bufOwner' = bufOwner /\ bufReaders' = bufReaders /\ bufHead' = bufHead /\ bufCount' = bufCount
      /\ bufNext' = IF how = "packet" THEN [bufNext EXCEPT ![bufOver[s].buffer] = Written] ELSE bufNext
  BY DEF ReadEnds, bufLock
<1>2. BufTypes /\ HoldIs(bufThread, bufOver, bufEntry, bufSockets) BY DEF BufInv
<1>3. bufOver \in [BufSocks -> Overlapped] BY <1>2 DEF BufTypes, Overlapped
<1> DEFINE o == [bufOver[s] EXCEPT !.at = how]
<1>4. o \in Overlapped /\ o.at = how /\ o.buffer = bufOver[s].buffer BY <1>3 DEF Overlapped
<1>5. bufOver' = [bufOver EXCEPT ![s] = o] BY <1>1
<1> HIDE DEF o
<1>6. /\ bufOver' \in [BufSocks -> Overlapped] /\ bufOver'[s] = o
      /\ \A u \in BufSocks : u # s => bufOver'[u] = bufOver[u]
  BY <1>2, <1>4, <1>5, OverGoes
<1>7. bufNext' \in [Buffers -> 0..MaxBuffers + 1]
  <2>1. Written \in 0..MaxBuffers + 1 BY BufferNumbers DEF Written
  <2> QED BY <1>1, <1>2, <2>1 DEF BufTypes
<1>8. BufTypes' BY <1>1, <1>2, <1>6, <1>7 DEF BufTypes, Overlapped, Buffers
<1>9. \A w \in BufWorkers : bufThread[w].at # "idle" => bufThread[w].sock # s BY <1>1, <1>2 DEF HoldIs
<1>10. HoldIs(bufThread, bufOver', bufEntry, bufSockets)
  <2>1. \A u \in BufSocks : ReadOf(bufThread, bufOver', u) => ReadOf(bufThread, bufOver, u)
    BY <1>1, <1>6 DEF ReadOf
  <2>2. bufThread[BufApp].at \in CreateSteps => bufThread[BufApp].sock # s BY <1>1, <1>2 DEF HoldIs, NoOver
  <2>3. bufThread[BufApp].at \in CreateSteps => bufThread[BufApp].sock \in BufSocks
    BY <1>2 DEF HoldIs, CreateSteps
  <2>4. bufThread[BufApp].at \in CreateSteps =>
          bufEntry[bufThread[BufApp].sock] = "none" /\ bufOver'[bufThread[BufApp].sock] = NoOver
    BY <1>2, <1>6, <2>2, <2>3 DEF HoldIs
  <2>5. \A w \in BufWorkers : bufThread[w].at # "idle" =>
          /\ bufThread[w].sock \in BufSocks /\ bufOver'[bufThread[w].sock].at = "held"
          /\ bufThread[w].at \in {"alloc", "handed"} => bufOver'[bufThread[w].sock].buffer = NoBuffer
    BY <1>2, <1>6, <1>9 DEF HoldIs
  <2>6. \A u \in BufSocks : bufOver'[u].at \in {"none", "start", "lost"} => bufOver'[u].buffer = NoBuffer
    BY <1>2, <1>4, <1>6 DEF HoldIs
  <2> QED BY <1>2, <2>1, <2>4, <2>5, <2>6 DEF HoldIs
<1>11. PoolIs(bufOver', bufHead, bufNext', bufCount)
  <2>1. PoolIs(bufOver, bufHead, bufNext, bufCount) BY DEF BufInv
  <2>2. \A u \in BufSocks : bufOver'[u].buffer = bufOver[u].buffer BY <1>4, <1>6
  <2>3. PoolIs(bufOver', bufHead, bufNext, bufCount) BY <2>1, <2>2, PoolKept
  <2>4. bufNext \in [Buffers -> 0..MaxBuffers + 1] BY <1>2 DEF BufTypes
  <2>5. PoolIs(bufOver, bufHead, [bufNext EXCEPT ![bufOver[s].buffer] = Written], bufCount)
    BY <2>1, <2>4, PoolWritten
  <2>6. PoolIs(bufOver', bufHead, [bufNext EXCEPT ![bufOver[s].buffer] = Written], bufCount)
    BY <2>2, <2>5, PoolKept
  <2> QED BY <1>1, <2>3, <2>6
<1>12. LockIs(bufThread, bufOwner, bufReaders) BY DEF BufInv
<1> QED BY <1>1, <1>8, <1>10, <1>11, <1>12, NextInv

LEMMA TakesKeeps ==
  ASSUME BufInv, NEW w \in BufWorkers, NEW s \in BufSocks, Takes(w, s)
  PROVE  BufInv'
<1>1. PICK step \in {<<"start", "alloc">>, <<"packet", "notify">>, <<"empty", "drop">>, <<"failed", "close">>} :
        bufOver[s].at = step[1] /\ bufThread' = [bufThread EXCEPT ![w] = Doing(step[2], s)]
  BY DEF Takes
<1> DEFINE at == step[2]
<1>2. /\ bufThread[w].at = "idle" /\ bufOver' = [bufOver EXCEPT ![s].at = "held"]
      /\ bufEntry' = bufEntry /\ bufSockets' = bufSockets /\ bufOwner' = bufOwner
      /\ bufReaders' = bufReaders /\ bufNext' = bufNext /\ bufHead' = bufHead /\ bufCount' = bufCount
  BY DEF Takes, bufLock, bufPool
<1>3. /\ at \in {"alloc", "notify", "drop", "close"} /\ bufOver[s].at \in {"start", "packet", "empty", "failed"}
      /\ at = "alloc" => bufOver[s].at = "start"
      /\ bufThread' = [bufThread EXCEPT ![w] = Doing(at, s)]
  BY <1>1
<1> HIDE DEF at
<1>4. BufTypes /\ HoldIs(bufThread, bufOver, bufEntry, bufSockets) BY DEF BufInv
<1>5. w \in BufThreads /\ w # BufApp BY BufConstants
<1>6. /\ \A x \in BufThreads : x # w => bufThread'[x] = bufThread[x]
      /\ bufThread'[w] = Doing(at, s) /\ bufThread'[w].at = at
      /\ bufThread' \in [BufThreads -> ThreadStates]
      /\ bufThread'[BufApp].at \in AppSteps /\ \A v \in BufWorkers : bufThread'[v].at \in WorkSteps
  <2>1. at \in WorkSteps BY <1>3 DEF WorkSteps
  <2> QED BY <1>3, <1>4, <1>5, <2>1, ThreadDoes
<1>7. bufOver \in [BufSocks -> Overlapped] BY <1>4 DEF BufTypes, Overlapped
<1> DEFINE o == [bufOver[s] EXCEPT !.at = "held"]
<1>8. o \in Overlapped /\ o.at = "held" /\ o.buffer = bufOver[s].buffer BY <1>7 DEF Overlapped
<1>9. bufOver' = [bufOver EXCEPT ![s] = o] BY <1>2
<1> HIDE DEF o
<1>10. /\ bufOver' \in [BufSocks -> Overlapped] /\ bufOver'[s] = o
       /\ \A u \in BufSocks : u # s => bufOver'[u] = bufOver[u]
  BY <1>4, <1>8, <1>9, OverGoes
<1>11. BufTypes' BY <1>2, <1>4, <1>6, <1>10 DEF BufTypes, Overlapped, ThreadStates, BufThreads, Buffers
<1>12. LockIs(bufThread', bufOwner', bufReaders')
  <2>1. Moves(w, bufThread[w].at, at, bufOwner, bufReaders, bufOwner', bufReaders')
    BY <1>2, <1>3 DEF Moves, ReadSteps, OwnSteps, WriteSteps
  <2>2. LockIs(bufThread, bufOwner, bufReaders) BY DEF BufInv
  <2> QED BY <1>5, <1>6, <2>1, <2>2, LockMoves
<1>13. HoldIs(bufThread', bufOver', bufEntry, bufSockets)
  <2>1. at \notin {"idle", "delete", "handed"} /\ bufOver[s].at \notin {"none", "lost", "held"} BY <1>3
  <2>2. bufOver'[s].at = "held" /\ bufOver'[s].buffer = bufOver[s].buffer BY <1>8, <1>10
  <2>3. \A x \in BufThreads : x # w => bufThread'[x] = bufThread[x] BY <1>6
  <2>4. bufThread'[w] = Doing(at, s) /\ bufThread[w].at = "idle" BY <1>2, <1>6
  <2>5. at = "alloc" => bufOver[s].at = "start" BY <1>3
  <2>6. \A u \in BufSocks : u # s => bufOver'[u] = bufOver[u] BY <1>10
  <2> QED BY <1>4, <2>1, <2>2, <2>3, <2>4, <2>5, <2>6, HoldTakes
<1>14. PoolIs(bufOver', bufHead, bufNext, bufCount)
  <2>1. PoolIs(bufOver, bufHead, bufNext, bufCount) BY DEF BufInv
  <2>2. \A u \in BufSocks : bufOver'[u].buffer = bufOver[u].buffer BY <1>8, <1>10
  <2> QED BY <2>1, <2>2, PoolKept
<1> QED BY <1>2, <1>11, <1>12, <1>13, <1>14, NextInv

\* A worker inside the lock of readers, on its way in or out: nothing else changes.
LEMMA PassesKeeps ==
  ASSUME BufInv, NEW w \in BufWorkers, NEW at,
         \/ bufThread[w].at = "notify" /\ at = "inside" /\ ReadLock(w, "inside")
         \/ bufThread[w].at = "handed" /\ at = "alloc" /\ ReadUnlock(w, "alloc")
         \/ bufThread[w].at = "refused" /\ at = "drop" /\ ReadUnlock(w, "drop"),
         UNCHANGED <<bufOver, bufEntry, bufSockets, bufPool>>
  PROVE  BufInv'
<1>1. bufOver' = bufOver /\ bufEntry' = bufEntry /\ bufSockets' = bufSockets
      /\ bufNext' = bufNext /\ bufHead' = bufHead /\ bufCount' = bufCount
  BY DEF bufPool
<1>2. /\ bufThread' = [bufThread EXCEPT ![w].at = at]
      /\ \/ /\ bufThread[w].at = "notify" /\ at = "inside"
            /\ bufOwner = NoOwner /\ bufOwner' = bufOwner /\ bufReaders' = bufReaders + 1
         \/ /\ bufThread[w].at \in {"handed", "refused"} /\ at \in {"alloc", "drop"}
            /\ at = "alloc" => bufThread[w].at = "handed"
            /\ bufOwner' = bufOwner /\ bufReaders' = bufReaders - 1
  BY DEF ReadLock, ReadUnlock, Goes
<1>3. BufTypes /\ HoldIs(bufThread, bufOver, bufEntry, bufSockets) BY DEF BufInv
<1>4. bufThread[w].at # "idle" BY <1>2
<1>5. /\ w \in BufThreads /\ w # BufApp /\ bufThread[w].sock \in BufSocks
      /\ Over(w) \in Overlapped /\ Over(w).at = "held"
      /\ bufThread[w].at \in {"alloc", "handed"} => Over(w).buffer = NoBuffer
  BY <1>4, WorkerHolds
<1>6. /\ \A x \in BufThreads : x # w => bufThread'[x] = bufThread[x]
      /\ bufThread'[w].at = at /\ bufThread'[w].sock = bufThread[w].sock
      /\ bufThread' \in [BufThreads -> ThreadStates]
      /\ bufThread'[BufApp].at \in AppSteps /\ \A v \in BufWorkers : bufThread'[v].at \in WorkSteps
  <2>1. at \in WorkSteps BY <1>2 DEF WorkSteps
  <2> QED BY <1>2, <1>3, <1>5, <2>1, ThreadGoes
<1>7. BufTypes' BY <1>1, <1>3, <1>6 DEF BufTypes, ThreadStates, BufThreads, Buffers
<1>8. LockIs(bufThread', bufOwner', bufReaders')
  <2>1. Moves(w, bufThread[w].at, at, bufOwner, bufReaders, bufOwner', bufReaders')
    BY <1>2 DEF Moves, ReadSteps, OwnSteps, WriteSteps
  <2>2. LockIs(bufThread, bufOwner, bufReaders) BY DEF BufInv
  <2> QED BY <1>5, <1>6, <2>1, <2>2, LockMoves
<1>9. HoldIs(bufThread', bufOver, bufEntry, bufSockets)
  <2>1. bufOver[bufThread[w].sock].at = "held" BY <1>5 DEF Over
  <2>2. bufThread[w].at # "delete" /\ at # "idle" /\ at # "delete" BY <1>2
  <2>3. at \in {"alloc", "handed"} => bufOver[bufThread[w].sock].buffer = NoBuffer
    BY <1>2, <1>5 DEF Over
  <2> QED BY <1>3, <1>4, <1>6, <2>1, <2>2, <2>3, HoldWorker
<1>10. PoolIs(bufOver, bufHead, bufNext, bufCount) BY DEF BufInv
<1> QED BY <1>1, <1>7, <1>8, <1>9, <1>10, NextInv

\* A worker goes on inside or outside the lock, and gives its buffer back or keeps it.
LEMMA GivesKeeps ==
  ASSUME BufInv, NEW w \in BufWorkers, NEW at, Goes(w, at), UNCHANGED <<bufEntry, bufSockets, bufLock>>,
         \/ bufThread[w].at = "inside" /\ at \in {"handed", "refused"}
         \/ bufThread[w].at = "drop" /\ at = "alloc",
         \/ /\ Free(Over(w).buffer) /\ OverBecomes(w, [Over(w) EXCEPT !.buffer = NoBuffer])
         \/ at = "refused" /\ UNCHANGED <<bufOver, bufPool>>
  PROVE  BufInv'
<1>1. bufEntry' = bufEntry /\ bufSockets' = bufSockets /\ bufOwner' = bufOwner /\ bufReaders' = bufReaders
      /\ bufThread' = [bufThread EXCEPT ![w].at = at]
  BY DEF bufLock, Goes
<1>2. bufThread[w].at \in {"inside", "drop"} /\ at \in {"handed", "refused", "alloc"} OBVIOUS
<1>3. BufTypes /\ HoldIs(bufThread, bufOver, bufEntry, bufSockets) BY DEF BufInv
<1>4. bufThread[w].at # "idle" BY <1>2
<1> DEFINE s == bufThread[w].sock
<1>5. /\ w \in BufThreads /\ w # BufApp /\ s \in BufSocks /\ Over(w) \in Overlapped /\ Over(w).at = "held"
  BY <1>4, WorkerHolds
<1>6. /\ \A x \in BufThreads : x # w => bufThread'[x] = bufThread[x]
      /\ bufThread'[w].at = at /\ bufThread'[w].sock = s
      /\ bufThread' \in [BufThreads -> ThreadStates]
      /\ bufThread'[BufApp].at \in AppSteps /\ \A v \in BufWorkers : bufThread'[v].at \in WorkSteps
  <2>1. at \in WorkSteps BY <1>2 DEF WorkSteps
  <2> QED BY <1>1, <1>3, <1>5, <2>1, ThreadGoes
<1>7. /\ bufOver' \in [BufSocks -> Overlapped] /\ \A u \in BufSocks : u # s => bufOver'[u] = bufOver[u]
      /\ bufOver'[s].at = "held" /\ (at # "refused" => bufOver'[s].buffer = NoBuffer)
      /\ PoolIs(bufOver', bufHead', bufNext', bufCount')
      /\ bufNext' \in [Buffers -> 0..MaxBuffers + 1] /\ bufHead' \in Buffers \cup {NoBuffer}
      /\ bufCount' \in 0..MaxBuffers
  <2>1. CASE Free(Over(w).buffer) /\ OverBecomes(w, [Over(w) EXCEPT !.buffer = NoBuffer])
    <3> DEFINE o == [Over(w) EXCEPT !.buffer = NoBuffer]
    <3>1. o \in Overlapped /\ o.at = "held" /\ o.buffer = NoBuffer BY <1>5 DEF Overlapped
    <3>2. bufOver' = [bufOver EXCEPT ![s] = o] BY <2>1 DEF OverBecomes
    <3> HIDE DEF o
    <3>3. /\ bufOver' \in [BufSocks -> Overlapped] /\ bufOver'[s] = o
          /\ \A u \in BufSocks : u # s => bufOver'[u] = bufOver[u]
      BY <1>3, <1>5, <3>1, <3>2, OverGoes
    <3>4. Free(bufOver[s].buffer) BY <2>1 DEF Over
    <3>5. \A u \in BufSocks : u # s => bufOver'[u].buffer = bufOver[u].buffer BY <3>3
    <3>6. bufOver'[s].buffer = NoBuffer BY <3>1, <3>3
    <3> HIDE DEF s
    <3>7. /\ PoolIs(bufOver', bufHead', bufNext', bufCount')
          /\ bufNext' \in [Buffers -> 0..MaxBuffers + 1] /\ bufHead' \in Buffers \cup {NoBuffer}
          /\ bufCount' \in 0..MaxBuffers
      BY <1>5, <3>4, <3>5, <3>6, FreeKeeps
    <3> QED BY <3>1, <3>3, <3>7
  <2>2. CASE at = "refused" /\ UNCHANGED <<bufOver, bufPool>>
    <3>1. bufOver' = bufOver /\ bufNext' = bufNext /\ bufHead' = bufHead /\ bufCount' = bufCount
      BY <2>2 DEF bufPool
    <3>2. PoolIs(bufOver, bufHead, bufNext, bufCount) BY DEF BufInv
    <3>3. bufOver[s].at = "held" BY <1>5 DEF Over
    <3> QED BY <1>3, <2>2, <3>1, <3>2, <3>3 DEF BufTypes, Overlapped
  <2> QED BY <2>1, <2>2
<1>8. BufTypes' BY <1>1, <1>3, <1>6, <1>7 DEF BufTypes, ThreadStates, Overlapped, BufThreads, Buffers
<1>9. LockIs(bufThread', bufOwner', bufReaders')
  <2>1. Moves(w, bufThread[w].at, at, bufOwner, bufReaders, bufOwner', bufReaders')
    BY <1>1 DEF Moves, ReadSteps, OwnSteps, WriteSteps
  <2>2. LockIs(bufThread, bufOwner, bufReaders) BY DEF BufInv
  <2> QED BY <1>5, <1>6, <2>1, <2>2, LockMoves
<1>10. HoldIs(bufThread', bufOver', bufEntry, bufSockets)
  <2>1. bufThread[w].at # "delete" /\ at # "idle" /\ at # "delete" BY <1>2
  <2>2. at \in {"alloc", "handed"} => bufOver'[bufThread[w].sock].buffer = NoBuffer BY <1>7
  <2> QED BY <1>3, <1>4, <1>6, <1>7, <2>1, <2>2, HoldWorker
<1> QED BY <1>1, <1>7, <1>8, <1>9, <1>10, NextInv

LEMMA NotifyKeeps ==
  ASSUME BufInv, NEW w \in BufWorkers, NotifyReceivePacket(w) PROVE BufInv'
<1>1. CASE bufThread[w].at = "notify" /\ ReadLock(w, "inside")
           /\ UNCHANGED <<bufOver, bufEntry, bufSockets, bufPool>>
  BY <1>1, PassesKeeps
<1>2. CASE /\ bufThread[w].at = "inside" /\ UNCHANGED <<bufEntry, bufSockets, bufLock>>
           /\ IF bufEntry[bufThread[w].sock] = "active"
              THEN /\ Free(Over(w).buffer) /\ OverBecomes(w, [Over(w) EXCEPT !.buffer = NoBuffer])
                   /\ Goes(w, "handed")
              ELSE Goes(w, "refused") /\ UNCHANGED <<bufOver, bufPool>>
  <2>1. CASE bufEntry[bufThread[w].sock] = "active" BY <1>2, <2>1, GivesKeeps
  <2>2. CASE bufEntry[bufThread[w].sock] # "active" BY <1>2, <2>2, GivesKeeps
  <2> QED BY <2>1, <2>2
<1>3. CASE /\ \E step \in {<<"handed", "alloc">>, <<"refused", "drop">>} :
                bufThread[w].at = step[1] /\ ReadUnlock(w, step[2])
           /\ UNCHANGED <<bufOver, bufEntry, bufSockets, bufPool>>
  <2>1. \/ bufThread[w].at = "handed" /\ ReadUnlock(w, "alloc")
        \/ bufThread[w].at = "refused" /\ ReadUnlock(w, "drop")
    BY <1>3
  <2>2. CASE bufThread[w].at = "handed" /\ ReadUnlock(w, "alloc") BY <1>3, <2>2, PassesKeeps
  <2>3. CASE bufThread[w].at = "refused" /\ ReadUnlock(w, "drop") BY <1>3, <2>3, PassesKeeps
  <2> QED BY <2>1, <2>2, <2>3
<1> QED BY <1>1, <1>2, <1>3 DEF NotifyReceivePacket

LEMMA DropsKeeps ==
  ASSUME BufInv, NEW w \in BufWorkers, Drops(w) PROVE BufInv'
  BY GivesKeeps DEF Drops

LEMMA StartsReadKeeps ==
  ASSUME BufInv, NEW w \in BufWorkers, StartsRead(w) PROVE BufInv'
<1> DEFINE s == bufThread[w].sock
<1>1. PICK b \in Buffers :
        /\ Alloc(b)
        /\ \/ /\ bufEntry[s] = "active"
              /\ OverBecomes(w, [at |-> "pending", buffer |-> b])
              /\ bufThread' = [bufThread EXCEPT ![w] = Idle]
           \/ OverBecomes(w, [at |-> "held", buffer |-> b]) /\ Goes(w, "close")
  BY DEF StartsRead
<1>2. /\ bufThread[w].at = "alloc" /\ bufEntry' = bufEntry /\ bufSockets' = bufSockets
      /\ bufOwner' = bufOwner /\ bufReaders' = bufReaders
  BY DEF StartsRead, bufLock
<1>3. BufTypes /\ HoldIs(bufThread, bufOver, bufEntry, bufSockets) BY DEF BufInv
<1>4. /\ w \in BufThreads /\ w # BufApp /\ s \in BufSocks
      /\ bufOver[s].at = "held" /\ bufOver[s].buffer = NoBuffer
  BY <1>2, WorkerHolds DEF Over
<1>5. PICK o \in Overlapped : bufOver' = [bufOver EXCEPT ![s] = o] /\ o.buffer = b /\ o.at \in {"pending", "held"}
        /\ (o.at = "pending" => bufThread' = [bufThread EXCEPT ![w] = Doing("idle", NoSock)])
        /\ (o.at = "held" => bufThread' = [bufThread EXCEPT ![w].at = "close"])
  <2>1. CASE OverBecomes(w, [at |-> "pending", buffer |-> b]) /\ bufThread' = [bufThread EXCEPT ![w] = Idle]
    <3>1. [at |-> "pending", buffer |-> b] \in Overlapped BY DEF Overlapped
    <3> QED BY <2>1, <3>1 DEF OverBecomes, Idle
  <2>2. CASE OverBecomes(w, [at |-> "held", buffer |-> b]) /\ Goes(w, "close")
    <3>1. [at |-> "held", buffer |-> b] \in Overlapped BY DEF Overlapped
    <3> QED BY <2>2, <3>1 DEF OverBecomes, Goes
  <2> QED BY <1>1, <2>1, <2>2
<1>6. /\ bufOver' \in [BufSocks -> Overlapped] /\ bufOver'[s] = o
      /\ \A u \in BufSocks : u # s => bufOver'[u] = bufOver[u]
  BY <1>3, <1>4, <1>5, OverGoes
<1>7. /\ PoolIs(bufOver', bufHead', bufNext', bufCount')
      /\ bufNext' = bufNext /\ bufHead' \in Buffers \cup {NoBuffer} /\ bufCount' \in 0..MaxBuffers
  <2>1. bufOver'[s].buffer = b /\ \A u \in BufSocks : u # s => bufOver'[u].buffer = bufOver[u].buffer
    BY <1>5, <1>6
  <2> HIDE DEF s
  <2> QED BY <1>1, <1>4, <2>1, AllocKeeps
<1>8. CASE o.at = "pending"
  <2>1. bufThread' = [bufThread EXCEPT ![w] = Doing("idle", NoSock)] BY <1>5, <1>8
  <2>2. /\ \A x \in BufThreads : x # w => bufThread'[x] = bufThread[x]
        /\ bufThread'[w] = Doing("idle", NoSock) /\ bufThread'[w].at = "idle"
        /\ bufThread' \in [BufThreads -> ThreadStates]
        /\ bufThread'[BufApp].at \in AppSteps /\ \A v \in BufWorkers : bufThread'[v].at \in WorkSteps
    <3>1. "idle" \in WorkSteps BY DEF WorkSteps
    <3> QED BY <1>3, <1>4, <2>1, <3>1, ThreadDoes
  <2>3. BufTypes' BY <1>2, <1>3, <1>6, <1>7, <2>2 DEF BufTypes, Overlapped, ThreadStates, BufThreads, Buffers
  <2>4. LockIs(bufThread', bufOwner', bufReaders')
    <3>1. Moves(w, bufThread[w].at, bufThread'[w].at, bufOwner, bufReaders, bufOwner', bufReaders')
      BY <1>2, <2>2 DEF Moves, ReadSteps, OwnSteps, WriteSteps
    <3>2. LockIs(bufThread, bufOwner, bufReaders) BY DEF BufInv
    <3> QED BY <1>4, <2>2, <3>1, <3>2, LockMoves
  <2>5. HoldIs(bufThread', bufOver', bufEntry, bufSockets)
    <3>1. bufThread'[w] = Idle BY <2>2 DEF Idle
    <3>2. bufOver'[s].at = "pending" /\ bufThread[w].at # "delete" /\ bufThread[w].at # "idle"
      BY <1>2, <1>6, <1>8
    <3> QED BY <1>3, <1>6, <2>2, <3>1, <3>2, HoldLeft
  <2> QED BY <1>2, <1>7, <2>3, <2>4, <2>5, NextInv
<1>9. CASE o.at = "held"
  <2>1. bufThread' = [bufThread EXCEPT ![w].at = "close"] BY <1>5, <1>9
  <2>2. /\ \A x \in BufThreads : x # w => bufThread'[x] = bufThread[x]
        /\ bufThread'[w].at = "close" /\ bufThread'[w].sock = s
        /\ bufThread' \in [BufThreads -> ThreadStates]
        /\ bufThread'[BufApp].at \in AppSteps /\ \A v \in BufWorkers : bufThread'[v].at \in WorkSteps
    <3>1. "close" \in WorkSteps BY DEF WorkSteps
    <3> QED BY <1>3, <1>4, <2>1, <3>1, ThreadGoes
  <2>3. BufTypes' BY <1>2, <1>3, <1>6, <1>7, <2>2 DEF BufTypes, Overlapped, ThreadStates, BufThreads, Buffers
  <2>4. LockIs(bufThread', bufOwner', bufReaders')
    <3>1. Moves(w, bufThread[w].at, bufThread'[w].at, bufOwner, bufReaders, bufOwner', bufReaders')
      BY <1>2, <2>2 DEF Moves, ReadSteps, OwnSteps, WriteSteps
    <3>2. LockIs(bufThread, bufOwner, bufReaders) BY DEF BufInv
    <3> QED BY <1>4, <2>2, <3>1, <3>2, LockMoves
  <2>5. HoldIs(bufThread', bufOver', bufEntry, bufSockets)
    <3>1. /\ bufOver'[s].at = "held" /\ bufThread[w].at # "delete" /\ bufThread[w].at # "idle"
          /\ bufThread'[w].at \notin {"idle", "delete", "alloc", "handed"}
      BY <1>2, <1>6, <1>9, <2>2
    <3>2. \A x \in BufThreads : x # w => bufThread'[x] = bufThread[x] BY <2>2
    <3>3. bufThread'[w].sock = s /\ bufThread'[w].at # "idle" /\ bufThread'[w].at # "delete" BY <2>2
    <3>4. \A u \in BufSocks : u # s => bufOver'[u] = bufOver[u] BY <1>6
    <3>5. bufThread'[w].at \in {"alloc", "handed"} => bufOver'[s].buffer = NoBuffer BY <3>1
    <3> QED BY <1>3, <3>1, <3>2, <3>3, <3>4, <3>5, HoldWorker
  <2> QED BY <1>2, <1>7, <2>3, <2>4, <2>5, NextInv
<1> QED BY <1>5, <1>8, <1>9

LEMMA FailsOutKeeps ==
  ASSUME BufInv, NEW w \in BufWorkers, FailsOut(w) PROVE BufInv'
<1> DEFINE s == bufThread[w].sock
           o == [NoOver EXCEPT !.at = "lost"]
<1>1. /\ bufThread[w].at = "alloc" /\ bufOver' = [bufOver EXCEPT ![s] = o]
      /\ bufThread' = [bufThread EXCEPT ![w] = Doing("idle", NoSock)]
      /\ bufEntry' = bufEntry /\ bufSockets' = bufSockets /\ bufOwner' = bufOwner
      /\ bufReaders' = bufReaders /\ bufNext' = bufNext /\ bufHead' = bufHead /\ bufCount' = bufCount
  BY DEF FailsOut, OverBecomes, Idle, bufLock, bufPool
<1>2. o \in Overlapped /\ o.at = "lost" /\ o.buffer = NoBuffer BY DEF NoOver, Overlapped
<1> HIDE DEF o
<1>3. BufTypes /\ HoldIs(bufThread, bufOver, bufEntry, bufSockets) BY DEF BufInv
<1>4. /\ w \in BufThreads /\ w # BufApp /\ s \in BufSocks
      /\ bufOver[s].at = "held" /\ bufOver[s].buffer = NoBuffer
  BY <1>1, WorkerHolds DEF Over
<1>5. /\ bufOver' \in [BufSocks -> Overlapped] /\ bufOver'[s] = o
      /\ \A u \in BufSocks : u # s => bufOver'[u] = bufOver[u]
  BY <1>1, <1>2, <1>3, <1>4, OverGoes
<1>6. /\ \A x \in BufThreads : x # w => bufThread'[x] = bufThread[x]
      /\ bufThread'[w] = Doing("idle", NoSock) /\ bufThread'[w].at = "idle"
      /\ bufThread' \in [BufThreads -> ThreadStates]
      /\ bufThread'[BufApp].at \in AppSteps /\ \A v \in BufWorkers : bufThread'[v].at \in WorkSteps
  <2>1. "idle" \in WorkSteps BY DEF WorkSteps
  <2> QED BY <1>1, <1>3, <1>4, <2>1, ThreadDoes
<1>7. BufTypes' BY <1>1, <1>3, <1>5, <1>6 DEF BufTypes, Overlapped, ThreadStates, BufThreads, Buffers
<1>8. LockIs(bufThread', bufOwner', bufReaders')
  <2>1. Moves(w, bufThread[w].at, bufThread'[w].at, bufOwner, bufReaders, bufOwner', bufReaders')
    BY <1>1, <1>6 DEF Moves, ReadSteps, OwnSteps, WriteSteps
  <2>2. LockIs(bufThread, bufOwner, bufReaders) BY DEF BufInv
  <2> QED BY <1>4, <1>6, <2>1, <2>2, LockMoves
<1>9. HoldIs(bufThread', bufOver', bufEntry, bufSockets)
  <2>1. bufThread'[w] = Idle BY <1>6 DEF Idle
  <2>2. bufOver'[s].at = "lost" /\ bufOver'[s].buffer = NoBuffer /\ bufThread[w].at # "idle"
    BY <1>1, <1>2, <1>5
  <2> QED BY <1>3, <1>5, <1>6, <2>1, <2>2, HoldLeft
<1>10. PoolIs(bufOver', bufHead, bufNext, bufCount)
  <2>1. PoolIs(bufOver, bufHead, bufNext, bufCount) BY DEF BufInv
  <2>2. \A u \in BufSocks : bufOver'[u].buffer = bufOver[u].buffer BY <1>2, <1>4, <1>5
  <2> QED BY <2>1, <2>2, PoolKept
<1> QED BY <1>1, <1>7, <1>8, <1>9, <1>10, NextInv

LEMMA DetectCloseKeeps ==
  ASSUME BufInv, NEW w \in BufWorkers, WorkerDetectClose(w) PROVE BufInv'
<1> DEFINE s == bufThread[w].sock
<1>1. /\ bufThread[w].at = "closing" /\ bufEntry' = [bufEntry EXCEPT ![s] = AfterDestruction(@)]
      /\ bufThread' = [bufThread EXCEPT ![w].at = "delete"]
      /\ bufOver' = bufOver /\ bufSockets' = bufSockets /\ bufOwner' = NoOwner
      /\ bufReaders' = bufReaders /\ bufNext' = bufNext /\ bufHead' = bufHead /\ bufCount' = bufCount
  BY DEF WorkerDetectClose, Goes, bufPool
<1>2. BufTypes /\ HoldIs(bufThread, bufOver, bufEntry, bufSockets) BY DEF BufInv
<1>3. w \in BufThreads /\ w # BufApp /\ s \in BufSocks BY <1>1, WorkerHolds
<1>4. /\ \A x \in BufThreads : x # w => bufThread'[x] = bufThread[x]
      /\ bufThread'[w].at = "delete" /\ bufThread'[w].sock = s
      /\ bufThread' \in [BufThreads -> ThreadStates]
      /\ bufThread'[BufApp].at \in AppSteps /\ \A v \in BufWorkers : bufThread'[v].at \in WorkSteps
  <2>1. "delete" \in WorkSteps BY DEF WorkSteps
  <2> QED BY <1>1, <1>2, <1>3, <2>1, ThreadGoes
<1>5. bufThread'[w] = Doing("delete", s)
  <2>1. bufThread'[w] \in ThreadStates BY <1>3, <1>4
  <2> QED BY <1>4, <2>1 DEF ThreadStates, Doing
<1>6. bufEntry \in [BufSocks -> {"none", "active", "inactive"}] BY <1>2 DEF BufTypes
<1>7. BufTypes'
  <2>1. bufEntry' \in [BufSocks -> {"none", "active", "inactive"}] BY <1>1, <1>6 DEF AfterDestruction
  <2> QED BY <1>1, <1>2, <1>4, <2>1 DEF BufTypes, ThreadStates, BufThreads, Buffers
<1>8. LockIs(bufThread', bufOwner', bufReaders')
  <2>1. Moves(w, bufThread[w].at, bufThread'[w].at, bufOwner, bufReaders, bufOwner', bufReaders')
    BY <1>1, <1>4 DEF Moves, ReadSteps, OwnSteps, WriteSteps
  <2>2. LockIs(bufThread, bufOwner, bufReaders) BY DEF BufInv
  <2> QED BY <1>3, <1>4, <2>1, <2>2, LockMoves
<1>9. HoldIs(bufThread', bufOver, bufEntry', bufSockets)
  <2>1. \A u \in BufSocks : u # s => bufEntry'[u] = bufEntry[u] BY <1>1, <1>6
  <2>2. bufEntry'[s] = AfterDestruction(bufEntry[s]) BY <1>1, <1>3, <1>6
  <2>3. \A x \in BufThreads : x # w => bufThread'[x] = bufThread[x] BY <1>4
  <2>4. bufThread[w].at = "closing" /\ HoldIs(bufThread, bufOver, bufEntry, bufSockets) BY <1>1, <1>2
  <2> QED BY <1>5, <2>1, <2>2, <2>3, <2>4, HoldClosed
<1>10. PoolIs(bufOver, bufHead, bufNext, bufCount) BY DEF BufInv
<1> QED BY <1>1, <1>7, <1>8, <1>9, <1>10, NextInv

LEMMA DeletesKeeps ==
  ASSUME BufInv, NEW w \in BufWorkers, DeletesOver(w) PROVE BufInv'
<1> DEFINE s == bufThread[w].sock
<1>1. /\ bufThread[w].at = "delete" /\ bufOver' = [bufOver EXCEPT ![s] = NoOver]
      /\ bufThread' = [bufThread EXCEPT ![w] = Doing("idle", NoSock)] /\ Free(bufOver[s].buffer)
      /\ bufEntry' = bufEntry /\ bufSockets' = bufSockets /\ bufOwner' = bufOwner
      /\ bufReaders' = bufReaders
  BY DEF DeletesOver, OverBecomes, Over, Idle, bufLock
<1>2. NoOver \in Overlapped /\ NoOver.at = "none" /\ NoOver.buffer = NoBuffer BY DEF NoOver, Overlapped
<1>3. BufTypes /\ HoldIs(bufThread, bufOver, bufEntry, bufSockets) BY DEF BufInv
<1>4. w \in BufThreads /\ w # BufApp /\ s \in BufSocks BY <1>1, WorkerHolds
<1>5. /\ bufOver' \in [BufSocks -> Overlapped] /\ bufOver'[s] = NoOver
      /\ \A u \in BufSocks : u # s => bufOver'[u] = bufOver[u]
  BY <1>1, <1>2, <1>3, <1>4, OverGoes
<1>6. /\ \A x \in BufThreads : x # w => bufThread'[x] = bufThread[x]
      /\ bufThread'[w] = Doing("idle", NoSock) /\ bufThread'[w].at = "idle"
      /\ bufThread' \in [BufThreads -> ThreadStates]
      /\ bufThread'[BufApp].at \in AppSteps /\ \A v \in BufWorkers : bufThread'[v].at \in WorkSteps
  <2>1. "idle" \in WorkSteps BY DEF WorkSteps
  <2> QED BY <1>1, <1>3, <1>4, <2>1, ThreadDoes
<1>7. /\ PoolIs(bufOver', bufHead', bufNext', bufCount')
      /\ bufNext' \in [Buffers -> 0..MaxBuffers + 1] /\ bufHead' \in Buffers \cup {NoBuffer}
      /\ bufCount' \in 0..MaxBuffers
  <2>1. bufOver'[s].buffer = NoBuffer /\ \A u \in BufSocks : u # s => bufOver'[u].buffer = bufOver[u].buffer
    BY <1>2, <1>5
  <2> HIDE DEF s
  <2> QED BY <1>1, <1>4, <2>1, FreeKeeps
<1>8. BufTypes' BY <1>1, <1>3, <1>5, <1>6, <1>7 DEF BufTypes, Overlapped, ThreadStates, BufThreads, Buffers
<1>9. LockIs(bufThread', bufOwner', bufReaders')
  <2>1. Moves(w, bufThread[w].at, bufThread'[w].at, bufOwner, bufReaders, bufOwner', bufReaders')
    BY <1>1, <1>6 DEF Moves, ReadSteps, OwnSteps, WriteSteps
  <2>2. LockIs(bufThread, bufOwner, bufReaders) BY DEF BufInv
  <2> QED BY <1>4, <1>6, <2>1, <2>2, LockMoves
<1>10. HoldIs(bufThread', bufOver', bufEntry, bufSockets)
  <2>1. bufThread'[w] = Idle BY <1>6 DEF Idle
  <2>2. bufOver'[s].at = "none" /\ bufOver'[s].buffer = NoBuffer /\ bufThread[w].at # "idle"
    BY <1>1, <1>2, <1>5
  <2> QED BY <1>3, <1>5, <1>6, <2>1, <2>2, HoldLeft
<1> QED BY <1>1, <1>7, <1>8, <1>9, <1>10, NextInv

LEMMA WorkThreadKeeps ==
  ASSUME BufInv, NEW w \in BufWorkers, WorkThread(w) PROVE BufInv'
<1>1. w \in BufThreads BY BufConstants
<1>2. CASE \E s \in BufSocks : Takes(w, s) BY <1>2, TakesKeeps
<1>3. CASE NotifyReceivePacket(w) BY <1>3, NotifyKeeps
<1>4. CASE Drops(w) BY <1>4, DropsKeeps
<1>5. CASE StartsRead(w) BY <1>5, StartsReadKeeps
<1>6. CASE FailsOut(w) BY <1>6, FailsOutKeeps
<1>7. CASE Locks(w, "close", "closeWaits", "closing") BY <1>1, <1>7, LocksKeeps
<1>8. CASE WorkerDetectClose(w) BY <1>8, DetectCloseKeeps
<1>9. CASE DeletesOver(w) BY <1>9, DeletesKeeps
<1> QED BY <1>2, <1>3, <1>4, <1>5, <1>6, <1>7, <1>8, <1>9 DEF WorkThread

LEMMA AppActsKeeps ==
  ASSUME BufInv, AppActs PROVE BufInv'
<1>1. BufApp \in BufThreads BY BufConstants
<1>2. CASE \E s \in BufSocks, what \in {"create", "destroy", "send"} : AppCalls(what, s)
  BY <1>2, AppCallsKeeps
<1>3. CASE Locks(BufApp, "create", "createWaits", "creating") BY <1>1, <1>3, LocksKeeps
<1>4. CASE Created BY <1>4, CreatedKeeps
<1>5. CASE Locks(BufApp, "destroy", "destroyWaits", "destroying") BY <1>1, <1>5, LocksKeeps
<1>6. CASE DestroysSocket BY <1>6, DestroysKeeps
<1>7. CASE SendPacket BY <1>7, SendPacketKeeps
<1> QED BY <1>2, <1>3, <1>4, <1>5, <1>6, <1>7 DEF AppActs

LEMMA BufInitHolds ==
  ASSUME BufInit PROVE BufInv
<1>1. /\ Reserved \in Nat /\ MaxBuffers \in Nat /\ Reserved <= MaxBuffers
      /\ BufApp \in BufThreads /\ BufWorkers \subseteq BufThreads /\ NoOwner \notin BufThreads
  BY BufConstants
<1>2. /\ bufThread = [t \in BufThreads |-> Idle] /\ bufOver = [s \in BufSocks |-> NoOver]
      /\ bufEntry = [s \in BufSocks |-> "none"] /\ bufSockets = {} /\ bufOwner = NoOwner /\ bufReaders = 0
      /\ bufNext = [b \in Buffers |-> IF b <= Reserved THEN b - 1 ELSE Written]
      /\ bufHead = Reserved /\ bufCount = Reserved
  BY DEF BufInit, BufThreads
<1>3. /\ Idle \in ThreadStates /\ Idle.at = "idle" /\ "idle" \in AppSteps /\ "idle" \in WorkSteps
      /\ "idle" \notin ReadSteps \cup OwnSteps \cup WriteSteps \cup CreateSteps \cup DestroySteps
  BY DEF Idle, Doing, ThreadStates, AppSteps, WorkSteps, ReadSteps, OwnSteps, WriteSteps, CreateSteps, DestroySteps
<1>4. NoOver \in Overlapped /\ NoOver.at = "none" /\ NoOver.buffer = NoBuffer BY DEF NoOver, Overlapped
<1>5. BufTypes
  <2>1. bufThread \in [BufThreads -> ThreadStates] /\ bufOver \in [BufSocks -> Overlapped] BY <1>2, <1>3, <1>4
  <2>2. bufThread[BufApp].at \in AppSteps /\ \A w \in BufWorkers : bufThread[w].at \in WorkSteps
    BY <1>1, <1>2, <1>3
  <2>3. bufNext \in [Buffers -> 0..MaxBuffers + 1]
    <3>1. \A b \in Buffers : b <= Reserved => b - 1 \in 0..MaxBuffers + 1 BY <1>1 DEF Buffers
    <3>2. Written \in 0..MaxBuffers + 1 BY <1>1 DEF Written
    <3> QED BY <1>2, <3>1, <3>2
  <2>4. bufHead \in Buffers \cup {NoBuffer} /\ bufCount \in 0..MaxBuffers BY <1>1, <1>2 DEF Buffers, NoBuffer
  <2> QED BY <1>2, <2>1, <2>2, <2>3, <2>4 DEF BufTypes, ThreadStates, Overlapped
<1>6. LockIs(bufThread, bufOwner, bufReaders)
  <2>1. \A t \in BufThreads : bufThread[t].at = "idle" BY <1>2, <1>3
  <2>2. Readers(bufThread) = {} BY <1>3, <2>1 DEF Readers
  <2>3. \A t \in BufThreads : t # NoOwner BY <1>1
  <2> QED BY <1>2, <1>3, <2>1, <2>2, <2>3, FS_EmptySet DEF LockIs
<1>7. HoldIs(bufThread, bufOver, bufEntry, bufSockets)
  <2>1. \A t \in BufThreads : bufThread[t].at = "idle" BY <1>2, <1>3
  <2>2. \A s \in BufSocks : ~OwnedBy(bufThread, bufSockets, s) /\ ~ReadOf(bufThread, bufOver, s)
    BY <1>1, <1>2, <1>3, <1>4, <2>1 DEF OwnedBy, ReadOf
  <2> QED BY <1>1, <1>2, <1>3, <1>4, <2>1, <2>2 DEF HoldIs
<1>8. PoolIs(bufOver, bufHead, bufNext, bufCount)
  <2>1. Apart(bufOver) /\ HeldOf(bufOver) = {} BY <1>2, <1>4 DEF Apart, HeldOf
  <2> DEFINE n == Reserved
             free == [k \in 1..n |-> n + 1 - k]
  <2>2. \A k \in 1..n : n + 1 - k \in Buffers /\ n + 1 - k \in 1..n /\ n + 1 - k <= n /\ (n + 1 - k) - 1 = n - k
    BY <1>1 DEF Buffers
  <2>3. free \in [1..n -> Buffers] /\ \A k \in 1..n : free[k] = n + 1 - k BY <2>2
  <2>4. \A k \in 1..n : bufNext[free[k]] = n - k BY <1>2, <2>2, <2>3
  <2>5. FreeList(free, n, bufHead, bufNext)
    <3>1. bufHead = IF n = 0 THEN NoBuffer ELSE free[1]
      <4>1. n # 0 => 1 \in 1..n /\ n + 1 - 1 = n BY <1>1
      <4> QED BY <1>2, <2>3, <4>1 DEF NoBuffer
    <3>2. \A k \in 1..n : bufNext[free[k]] = IF k = n THEN NoBuffer ELSE free[k + 1]
      <4>1. \A k \in 1..n : k # n => k + 1 \in 1..n /\ n + 1 - (k + 1) = n - k BY <1>1
      <4>2. \A k \in 1..n : k = n => n - k = NoBuffer BY <1>1 DEF NoBuffer
      <4> HIDE DEF free, n
      <4> QED BY <2>3, <2>4, <4>1, <4>2
    <3>3. \A j, k \in 1..n : free[j] = free[k] => j = k
      <4>1. \A j, k \in 1..n : n + 1 - j = n + 1 - k => j = k BY <1>1
      <4> HIDE DEF free, n
      <4> QED BY <2>3, <4>1
    <3> HIDE DEF free, n
    <3> QED BY <3>1, <3>2, <3>3 DEF FreeList
  <2>6. FreeSet(free, n) = 1..n
    <3>1. \A k \in 1..n : free[k] \in 1..n BY <2>2, <2>3
    <3>2. \A b \in 1..n : n + 1 - b \in 1..n /\ n + 1 - (n + 1 - b) = b BY <1>1
    <3>3. \A b \in 1..n : free[n + 1 - b] = b BY <2>3, <3>2
    <3> HIDE DEF free, n
    <3> QED BY <3>1, <3>2, <3>3 DEF FreeSet
  <2>7. Divides(free, n, bufOver, bufHead, bufNext, n) BY <2>1, <2>5, <2>6 DEF Divides
  <2>8. n \in Nat /\ bufCount = n BY <1>1, <1>2
  <2> HIDE DEF free, n
  <2> QED BY <2>1, <2>3, <2>7, <2>8 DEF PoolIs
<1> QED BY <1>5, <1>6, <1>7, <1>8 DEF BufInv

-----------------------------------------------------------------------------
(* What it says of the buffers.                                            *)

\* No list is longer than there are buffers.
LEMMA ListFits ==
  ASSUME NEW n \in Nat, NEW count \in Nat, NEW free \in [1..n -> Buffers],
         \A j, k \in 1..n : free[j] = free[k] => j = k, FreeSet(free, n) \subseteq 1..count
  PROVE  n <= count
<1>1. free \in [1..n -> 1..count]
  <2>1. \A k \in 1..n : free[k] \in 1..count BY DEF FreeSet
  <2>2. free = [k \in 1..n |-> free[k]] OBVIOUS
  <2> QED BY <2>1, <2>2
<1>2. free \in Injection(1..n, 1..count) BY <1>1 DEF Injection, IsInjective
<1>3. /\ IsFiniteSet(1..n) /\ Cardinality(1..n) = n
      /\ IsFiniteSet(1..count) /\ Cardinality(1..count) = count
  <2>1. n \in Int /\ count \in Int /\ 1 \in Int OBVIOUS
  <2>2. \A a, b \in Int : IsFiniteSet(a..b) /\ Cardinality(a..b) = IF a > b THEN 0 ELSE b - a + 1 BY FS_Interval
  <2>3. IsFiniteSet(1..n) /\ Cardinality(1..n) = IF 1 > n THEN 0 ELSE n - 1 + 1 BY <2>1, <2>2
  <2>4. IsFiniteSet(1..count) /\ Cardinality(1..count) = IF 1 > count THEN 0 ELSE count - 1 + 1 BY <2>1, <2>2
  <2>5. \A m \in Nat : (IF 1 > m THEN 0 ELSE m - 1 + 1) = m OBVIOUS
  <2> QED BY <2>3, <2>4, <2>5
<1>4. Cardinality(1..n) <= Cardinality(1..count) BY <1>2, <1>3, FS_Injection
<1> QED BY <1>3, <1>4

\* The buffers one finds from the head are those of the list, then none.
LEMMA ChainIsFree ==
  ASSUME BufTypes, NEW n \in 0..MaxBuffers, NEW free \in [1..n -> Buffers],
         FreeList(free, n, bufHead, bufNext)
  PROVE  \A k \in 0..MaxBuffers : Chain[k] = IF k < n THEN free[k + 1] ELSE NoBuffer
<1>1. MaxBuffers \in Nat /\ NoBuffer \notin Buffers BY BufferNumbers
<1> DEFINE Limit == MaxBuffers
           Made(g) ==
             g = [k \in 0..Limit |->
                    IF k = 0 THEN bufHead
                    ELSE IF g[k - 1] \in Buffers THEN bufNext[g[k - 1]] ELSE g[k - 1]]
           f == CHOOSE g : Made(g)
           Is(k) == IF k < n THEN free[k + 1] ELSE NoBuffer
           g0 == [k \in 0..Limit |-> Is(k)]
<1>2. Chain = f BY DEF Chain
<1>3. Is(0) = bufHead BY DEF FreeList
<1>4. \A k \in 1..Limit : Is(k) = IF Is(k - 1) \in Buffers THEN bufNext[Is(k - 1)] ELSE Is(k - 1)
  <2> SUFFICES ASSUME NEW k \in 1..Limit
               PROVE  Is(k) = IF Is(k - 1) \in Buffers THEN bufNext[Is(k - 1)] ELSE Is(k - 1)
    OBVIOUS
  <2>1. CASE k - 1 < n
    <3>1. k \in 1..n /\ (k - 1) + 1 = k /\ (k < n <=> k # n) BY <1>1, <2>1
    <3>2. Is(k - 1) = free[k] /\ free[k] \in Buffers BY <2>1, <3>1
    <3>3. bufNext[free[k]] = IF k = n THEN NoBuffer ELSE free[k + 1] BY <3>1 DEF FreeList
    <3>4. Is(k) = IF k = n THEN NoBuffer ELSE free[k + 1] BY <3>1
    <3> HIDE DEF Is
    <3> QED BY <3>2, <3>3, <3>4
  <2>2. CASE ~(k - 1 < n)
    <3>1. ~(k < n) BY <1>1, <2>2
    <3>2. Is(k) = NoBuffer /\ Is(k - 1) = NoBuffer BY <2>2, <3>1
    <3> HIDE DEF Is
    <3> QED BY <1>1, <3>2
  <2> QED BY <2>1, <2>2
<1>5. Made(g0)
  <2>1. \A k \in 0..Limit : k # 0 => k \in 1..Limit /\ k - 1 \in 0..Limit BY <1>1
  <2>2. \A k \in 0..Limit : g0[k] = Is(k) OBVIOUS
  <2> HIDE DEF Is
  <2>3. \A k \in 0..Limit : Is(k) = IF k = 0 THEN bufHead
                                ELSE IF g0[k - 1] \in Buffers THEN bufNext[g0[k - 1]] ELSE g0[k - 1]
    BY <1>3, <1>4, <2>1, <2>2
  <2> QED BY <2>3
<1>6. Made(f)
  <2> HIDE DEF Made, g0
  <2> QED BY <1>5
<1> HIDE DEF f, Is
<1>7. f[0] = Is(0) BY <1>1, <1>3, <1>6
<1>8. \A k \in 1..Limit : f[k - 1] = Is(k - 1) => f[k] = Is(k) BY <1>1, <1>4, <1>6
<1> DEFINE T == {k \in 0..Limit : f[k] = Is(k)}
<1>9. 0..Limit \subseteq T
  <2>1. 0 \in T BY <1>1, <1>7
  <2>2. ASSUME NEW k \in 0..Limit, k # Limit /\ k \in T PROVE k + 1 \in T
    <3>1. k + 1 \in 1..Limit /\ k + 1 \in 0..Limit /\ (k + 1) - 1 = k BY <1>1, <2>2
    <3> QED BY <1>8, <2>2, <3>1
  <2> HIDE DEF T
  <2> QED BY <1>1, <2>1, <2>2, InductionUpTo
<1> QED BY <1>2, <1>9 DEF Is

LEMMA InvAccounts ==
  ASSUME BufInv PROVE BuffersAccounted
<1>1. PICK n \in Nat : \E free \in [1..n -> Buffers] : Divides(free, n, bufOver, bufHead, bufNext, bufCount)
  BY DEF BufInv, PoolIs
<1>2. PICK free \in [1..n -> Buffers] : Divides(free, n, bufOver, bufHead, bufNext, bufCount) BY <1>1
<1>3. /\ FreeList(free, n, bufHead, bufNext)
      /\ FreeSet(free, n) \cup HeldOf(bufOver) = 1..bufCount /\ FreeSet(free, n) \cap HeldOf(bufOver) = {}
  BY <1>2 DEF Divides
<1>4. MaxBuffers \in Nat /\ NoBuffer \notin Buffers /\ bufCount \in 0..MaxBuffers /\ BufTypes
  BY BufferNumbers DEF BufInv, BufTypes
<1>5. n \in 0..MaxBuffers
  <2>1. \A j, k \in 1..n : free[j] = free[k] => j = k BY <1>3 DEF FreeList
  <2>2. FreeSet(free, n) \subseteq 1..bufCount /\ bufCount \in Nat BY <1>3, <1>4
  <2>3. n <= bufCount BY <2>1, <2>2, ListFits
  <2> QED BY <1>4, <2>3
<1>6. \A k \in 0..MaxBuffers : Chain[k] = IF k < n THEN free[k + 1] ELSE NoBuffer
  BY <1>3, <1>4, <1>5, ChainIsFree
<1>7. Chain[MaxBuffers] = NoBuffer BY <1>4, <1>5, <1>6
<1>8. {Chain[k] : k \in 0..MaxBuffers} \ {NoBuffer} = FreeSet(free, n)
  <2>1. \A k \in 0..MaxBuffers : k < n => k + 1 \in 1..n BY <1>5
  <2>2. \A j \in 1..n : j - 1 \in 0..MaxBuffers /\ j - 1 < n /\ (j - 1) + 1 = j BY <1>4, <1>5
  <2>3. \A j \in 1..n : free[j] # NoBuffer /\ Chain[j - 1] = free[j] BY <1>4, <1>6, <2>2
  <2>4. \A k \in 0..MaxBuffers : Chain[k] # NoBuffer => Chain[k] \in FreeSet(free, n)
    BY <1>6, <2>1 DEF FreeSet
  <2>5. FreeSet(free, n) \subseteq {Chain[k] : k \in 0..MaxBuffers} BY <2>2, <2>3 DEF FreeSet
  <2>6. NoBuffer \notin FreeSet(free, n) BY <2>3 DEF FreeSet
  <2> QED BY <2>4, <2>5, <2>6
<1>9. Apart(bufOver) BY DEF BufInv, PoolIs
<1> QED BY <1>3, <1>7, <1>8, <1>9 DEF BuffersAccounted, HeldOf, Apart

LEMMA InvSound ==
  ASSUME BufInv PROVE BuffersSound
<1>1. bufThread \in [BufThreads -> ThreadStates] BY DEF BufInv, BufTypes, ThreadStates
<1>2. DOMAIN bufThread = BufThreads BY <1>1
<1>3. LockIs(bufThread, bufOwner, bufReaders) BY DEF BufInv
<1>4. Inside = Readers(bufThread) BY <1>2 DEF Inside, Readers, ReadSteps
<1>5. MapIsLocked
  <2>1. bufReaders = Cardinality(Inside) BY <1>3, <1>4 DEF LockIs
  <2>2. ReadSteps \cap OwnSteps = {} /\ WriteSteps \subseteq OwnSteps BY DEF ReadSteps, OwnSteps, WriteSteps
  <2>3. bufOwner \notin Inside BY <1>3, <1>4, <2>2 DEF LockIs, Readers
  <2>4. \A t \in Writing : t = bufOwner /\ Inside = {}
    BY <1>2, <1>3, <1>4, <2>2 DEF Writing, WriteSteps, LockIs
  <2> QED BY <2>1, <2>3, <2>4 DEF MapIsLocked
<1>6. EntryOutlivesReads
  <2>1. HoldIs(bufThread, bufOver, bufEntry, bufSockets) BY DEF BufInv
  <2> QED BY <2>1 DEF EntryOutlivesReads, HoldIs, ReadOf
<1> QED BY <1>5, <1>6, InvAccounts DEF BuffersSound

\* BuffersSound for any number of workers, sockets and buffers: who changes the map of sockets is
\* alone with it, every buffer is free or one socket's, and a socket stays in the map as long as
\* a read of it can end (CXReadWriteLock, CMemPool, WorkThread, NotifyReceivePacket,
\* CreateUnicastSocket and DestroySocket).
THEOREM BuffersAreSound == BufSpec => []BuffersSound
<1>1. BufInit => BufInv BY BufInitHolds
<1>2. BufInv /\ [BufNext]_bufVars => BufInv'
  <2> SUFFICES ASSUME BufInv, [BufNext]_bufVars PROVE BufInv' OBVIOUS
  <2>1. CASE AppActs BY <2>1, AppActsKeeps
  <2>2. CASE \E s \in BufSocks, how \in {"packet", "empty", "failed"} : ReadEnds(s, how)
    BY <2>2, ReadEndsKeeps
  <2>3. CASE \E w \in BufWorkers : WorkThread(w) BY <2>3, WorkThreadKeeps
  <2>4. CASE UNCHANGED bufVars
    <3>1. /\ bufThread' = bufThread /\ bufOver' = bufOver /\ bufEntry' = bufEntry
          /\ bufSockets' = bufSockets /\ bufOwner' = bufOwner /\ bufReaders' = bufReaders
          /\ bufNext' = bufNext /\ bufHead' = bufHead /\ bufCount' = bufCount
      BY <2>4 DEF bufVars
    <3>2. BufTypes' BY <3>1 DEF BufInv, BufTypes, BufThreads, Buffers
    <3> QED BY <3>1, <3>2, NextInv DEF BufInv
  <2> QED BY <2>1, <2>2, <2>3, <2>4 DEF BufNext
<1>3. BufInv => BuffersSound BY InvSound
<1> QED BY <1>1, <1>2, <1>3, PTL DEF BufSpec

-----------------------------------------------------------------------------
(* The sockets of sACN: what holds of them, and of the threads on them.    *)

Opening == router.at \in {"listen", "server", "run"}
Closing == {"stopServer", "silence", "stopClient", "join", "stopNet", "joinNet", "end"}
Listener == [pc: {"none", "lookup", "receive", "failed", "ended"}] \cup [pc: {"check", "notify"}, address: Addresses]
SetUniverses == UNION {ToSet(s.universes) : s \in Setups}

OverlapStates == UnderWay \cup {"none", "lost", "failed", "ended"}

SockTypes ==
  /\ setup \in Setups
  /\ sockmap \in [Ids -> Entry \cup {NoEntry}]
  /\ buffer \in [Ids -> Seq(Addresses)] /\ \A id \in Ids : Len(buffer[id]) <= QueueBound
  /\ subs \subseteq Addresses \X Ids
  /\ listeners \in [Ids -> Listener]
  /\ reader \in [pc: {"idle", "selected", "reading", "ended"}, ready: SUBSET Ids]
  /\ overlaps \in [Ids -> OverlapStates]
  /\ router \in [at: {"listen", "server", "run"} \cup Closing, universe: Nat, iface: Nat]
  /\ router.at = "listen" => router.universe \in DOMAIN setup.universes /\ router.iface \in DOMAIN Targets
  /\ router.at = "server" => router.iface \in DOMAIN setup.ifaces
  /\ pnotify \in BOOLEAN /\ nullCall \in BOOLEAN /\ connected \subseteq SetUniverses

\* How many sockets can have been made.
Made(r) == IF r.at = "listen" THEN (r.universe - 1) * Len(Targets) + r.iface - 1
           ELSE Len(setup.universes) * Len(Targets) + r.iface - 1
IdsBelow == router.at \in {"listen", "server"} => \A id \in Ids : id >= Made(router) => ~Exists(id)

\* What has not been asked for yet has no subscription.
Before(n, k) == n < router.universe \/ (n = router.universe /\ k < router.iface)
FreshLeft ==
  router.at = "listen" =>
    \A n \in DOMAIN setup.universes, k \in DOMAIN Targets :
      ~Before(n, k) => \A s \in subs : s[1] # <<setup.universes[n], Targets[k]>>

JoinedAsked == \A id \in Ids : Exists(id) => \A a \in sockmap[id].joined : <<a, id>> \in subs

RoomKept == \A id \in Ids : Exists(id) => IsFiniteSet(sockmap[id].sublist) /\ Cardinality(sockmap[id].sublist) <= Room

\* Each socket of the client has a thread until it is shut down, or until a read has failed.
Serving(t) == t.pc \notin {"none", "ended"}
ThreadsServe ==
  /\ \A id \in Ids : listeners[id].pc # "none" /\ Exists(id) => sockmap[id].manual
  /\ Opening => /\ \A id \in Ids : Open(id) /\ sockmap[id].manual => Serving(listeners[id])
                /\ \A s \in subs : Open(s[2]) /\ sockmap[s[2]].manual
                /\ \A id \in Ids : listeners[id].pc # "none" => Open(id)

\* Where groups are joined, what comes has been asked for.
Asked(a) == setup.platform = "linux" \/ \E s \in subs : s[1] = a
QueuesAsked ==
  /\ \A id \in Ids : Exists(id) /\ sockmap[id].manual => \A p \in ToSet(buffer[id]) : Asked(p)
  /\ Opening => \A id \in Ids : ~Exists(id) => buffer[id] = <<>>
  /\ \A id \in Ids : listeners[id].pc \in {"check", "notify"} => Asked(listeners[id].address)

ReaderHolds ==
  /\ \A id \in reader.ready : /\ Open(id) => ~sockmap[id].manual /\ buffer[id] # <<>>
                              /\ Opening => Open(id)
  /\ ~Select => reader = [pc |-> "idle", ready |-> {}]

\* The reads of the worker threads, and the sockets of the server that are not open.
OverlapFits(id) ==
  /\ overlaps[id] \in UnderWay => Exists(id) /\ (Opening => Open(id))
  /\ Exists(id) /\ overlaps[id] # "none" => ~sockmap[id].manual
  /\ Exists(id) /\ ~sockmap[id].manual /\ ~Select /\ overlaps[id] \notin UnderWay =>
       overlaps[id] = "lost" \/ (~Open(id) /\ overlaps[id] \in {"none", "failed"})
  /\ Opening /\ ~Exists(id) => overlaps[id] = "none"
  /\ Select => overlaps[id] = "none"
ServerLeft(id) == Exists(id) /\ ~sockmap[id].manual /\ ~Select => ~Open(id) /\ overlaps[id] # "failed"
Early == router.at \in {"listen", "server", "run", "stopServer"}
WorkersHold == \A id \in Ids : OverlapFits(id) /\ (Early \/ ServerLeft(id))

StagesHold ==
  /\ router.at \in {"stopNet", "joinNet", "end"} => \A id \in Ids : Ended(listeners[id])
  /\ ~pnotify => router.at \in Closing \ {"stopServer", "silence"}

\* What has been listened to so far is joined where it is connected.
Held(a) == \E id \in Ids : Exists(id) /\ a \in sockmap[id].joined
Settled(n) ==
  \A i \in ToSet(setup.listed) : Held(<<setup.universes[n], i>>) <=> setup.universes[n] \in connected
Progress ==
  /\ router.at \in {"server", "run"} => \A n \in DOMAIN setup.universes : Settled(n)
  /\ router.at = "listen" =>
       \A n \in DOMAIN setup.universes :
         /\ n < router.universe => Settled(n)
         /\ n >= router.universe => setup.universes[n] \notin connected
         /\ setup.listed # <<>> /\ n = router.universe =>
              \A k \in 1..(router.iface - 1) : Held(<<setup.universes[n], Targets[k]>>)

SockInv ==
  /\ SockTypes /\ IdsBelow /\ FreshLeft /\ JoinedAsked /\ RoomKept /\ ThreadsServe /\ QueuesAsked /\ ReaderHolds
  /\ WorkersHold /\ StagesHold /\ Progress

-----------------------------------------------------------------------------

LEMMA SmallestIs ==
  ASSUME NEW T, T \subseteq Nat, T # {}
  PROVE  Min(T) \in T /\ \A x \in T : Min(T) <= x
<1>1. PICK n \in T : TRUE OBVIOUS
<1> DEFINE Low == {x \in T : x <= n}
<1>2. Low \subseteq 0..n /\ Low # {} /\ n \in Nat
  <2>1. n \in Nat /\ n <= n BY <1>1
  <2>2. \A x \in Low : x \in Nat /\ x <= n OBVIOUS
  <2>3. n \in Low BY <1>1, <2>1
  <2> HIDE DEF Low
  <2>4. \A x \in Low : x \in 0..n BY <2>1, <2>2
  <2> QED BY <2>1, <2>3, <2>4
<1>3. PICK m \in Low : \A x \in Low : m <= x
  <2> HIDE DEF Low
  <2> QED BY <1>2, LeastNumber
<1>4. \A x \in T : m <= x
  <2> TAKE x \in T
  <2>1. x \in Nat /\ n \in Nat /\ m \in Nat /\ m <= n BY <1>1, <1>3
  <2>2. CASE x <= n BY <1>3, <2>2
  <2>3. CASE ~(x <= n) BY <2>1, <2>3
  <2> QED BY <2>2, <2>3
<1>5. m \in T BY <1>3
<1> QED BY <1>4, <1>5 DEF Min

LEMMA SetupFacts ==
  ASSUME setup \in Setups
  PROVE  /\ Len(setup.universes) \in Nat \ {0} /\ DOMAIN setup.universes = 1..Len(setup.universes)
         /\ Len(setup.ifaces) \in Nat \ {0} /\ DOMAIN setup.ifaces = 1..Len(setup.ifaces)
         /\ Len(Targets) \in Nat \ {0} /\ DOMAIN Targets = 1..Len(Targets)
         /\ \A m, n \in DOMAIN setup.universes : setup.universes[m] = setup.universes[n] => m = n
         /\ \A j, k \in DOMAIN Targets : Targets[j] = Targets[k] => j = k
         /\ \A n \in DOMAIN setup.universes, k \in DOMAIN Targets : <<setup.universes[n], Targets[k]>> \in Addresses
         /\ \A n \in DOMAIN setup.universes : setup.universes[n] \in SetUniverses
         /\ \A n \in DOMAIN setup.ifaces : setup.ifaces[n] \in UNION {ToSet(s.ifaces) : s \in Setups}
         /\ setup.listed # <<>> => Targets = setup.listed
         /\ setup.listed = <<>> => ToSet(setup.listed) = {}
         /\ setup.platform \in {"linux", "mac", "windows"}
<1> DEFINE u == setup.universes
           f == setup.ifaces
           l == setup.listed
<1>1. /\ u \in Seq(ToSet(u)) /\ IsInjective(u) /\ f \in Seq(ToSet(f)) /\ IsInjective(f)
      /\ l \in Seq(ToSet(l)) /\ IsInjective(l) /\ u # <<>> /\ f # <<>> /\ ToSet(l) \subseteq ToSet(f)
      /\ setup.platform \in {"linux", "mac", "windows"}
  BY SocketsAssumption
<1>2. Targets = (IF l = <<>> THEN f ELSE l) BY DEF Targets, TargetsOf
<1>3. ToSet(u) \X ToSet(f) \subseteq Addresses /\ ToSet(u) \subseteq SetUniverses
      /\ ToSet(f) \subseteq UNION {ToSet(s.ifaces) : s \in Setups}
  BY DEF Addresses, SetUniverses
<1> HIDE DEF u, f, l
<1>4. Targets \in Seq(ToSet(Targets)) /\ Targets # <<>> /\ IsInjective(Targets) /\ ToSet(Targets) \subseteq ToSet(f)
  BY <1>1, <1>2
<1>5. \A s : s \in Seq(ToSet(s)) /\ s # <<>> =>
        Len(s) \in Nat \ {0} /\ DOMAIN s = 1..Len(s) /\ \A n \in DOMAIN s : s[n] \in ToSet(s)
  BY DEF ToSet
<1>6. \A s : IsInjective(s) => \A m, n \in DOMAIN s : s[m] = s[n] => m = n BY DEF IsInjective
<1>7. ToSet(<<>>) = {} BY DEF ToSet
<1>8. Len(u) \in Nat \ {0} /\ DOMAIN u = 1..Len(u) /\ \A n \in DOMAIN u : u[n] \in ToSet(u) BY <1>1, <1>5
<1>9. Len(f) \in Nat \ {0} /\ DOMAIN f = 1..Len(f) /\ \A n \in DOMAIN f : f[n] \in ToSet(f) BY <1>1, <1>5
<1>10. Len(Targets) \in Nat \ {0} /\ DOMAIN Targets = 1..Len(Targets) /\ \A n \in DOMAIN Targets : Targets[n] \in ToSet(f)
  BY <1>4, <1>5
<1>11. \A n \in DOMAIN u, k \in DOMAIN Targets : <<u[n], Targets[k]>> \in Addresses BY <1>3, <1>8, <1>10
<1>12. \A n \in DOMAIN u : u[n] \in SetUniverses BY <1>3, <1>8
<1>13. \A n \in DOMAIN f : f[n] \in UNION {ToSet(s.ifaces) : s \in Setups} BY <1>3, <1>9
<1> QED BY <1>1, <1>2, <1>4, <1>6, <1>7, <1>8, <1>9, <1>10, <1>11, <1>12, <1>13 DEF u, f, l

LEMMA IdsAreNumbers == Ids \subseteq Nat
<1> SUFFICES ASSUME NEW id \in Ids PROVE id \in Nat OBVIOUS
<1>1. PICK s \in Setups : id \in 0..Len(s.universes) * Len(TargetsOf(s)) + Len(s.ifaces) - 1 BY DEF Ids
<1> QED BY <1>1

\* There is an id for each socket that is made.
LEMMA MadeIsAnId ==
  ASSUME SockTypes, router.at \in {"listen", "server"}
  PROVE  Made(router) \in Ids /\ Made(router) \in Nat
<1> DEFINE U == Len(setup.universes)
           T == Len(Targets)
           F == Len(setup.ifaces)
<1>1. U \in Nat \ {0} /\ T \in Nat \ {0} /\ F \in Nat \ {0} BY SetupFacts DEF SockTypes
<1>2. router.at = "listen" => router.universe \in 1..U /\ router.iface \in 1..T BY SetupFacts DEF SockTypes
<1>3. router.at = "server" => router.iface \in 1..F BY SetupFacts DEF SockTypes
<1>4. \A a, b, c \in Nat \ {0} : \A n \in 1..a : \A k \in 1..b : (n - 1) * b + k - 1 \in 0..(a * b + c - 1)
  <2> SUFFICES ASSUME NEW a \in Nat \ {0}, NEW b \in Nat \ {0}, NEW c \in Nat \ {0}, NEW n \in 1..a, NEW k \in 1..b
               PROVE  (n - 1) * b + k - 1 \in 0..(a * b + c - 1)
    OBVIOUS
  <2>1. (n - 1) * b \in Nat /\ n * b \in Nat /\ a * b \in Nat /\ n * b = (n - 1) * b + b OBVIOUS
  <2>2. n * b <= a * b OBVIOUS
  <2> QED BY <2>1, <2>2
<1>5. \A a, b, c \in Nat \ {0} : \A k \in 1..c : a * b + k - 1 \in 0..(a * b + c - 1)
  <2> SUFFICES ASSUME NEW a \in Nat \ {0}, NEW b \in Nat \ {0}, NEW c \in Nat \ {0}, NEW k \in 1..c
               PROVE  a * b + k - 1 \in 0..(a * b + c - 1)
    OBVIOUS
  <2>1. a * b \in Nat OBVIOUS
  <2> QED BY <2>1
<1>6. Made(router) \in 0..(U * T + F - 1)
  <2>1. CASE router.at = "listen"
    <3>1. Made(router) = (router.universe - 1) * T + router.iface - 1 BY <2>1 DEF Made
    <3> HIDE DEF U, T, F
    <3> QED BY <1>1, <1>2, <1>4, <2>1, <3>1
  <2>2. CASE router.at = "server"
    <3>1. Made(router) = U * T + router.iface - 1 BY <2>2 DEF Made
    <3> HIDE DEF U, T, F
    <3> QED BY <1>1, <1>3, <1>5, <2>2, <3>1
  <2> QED BY <2>1, <2>2
<1>7. 0..(U * T + F - 1) \subseteq Ids
  <2> DEFINE Of(s) == 0..Len(s.universes) * Len(TargetsOf(s)) + Len(s.ifaces) - 1
  <2>1. Ids = UNION {Of(s) : s \in Setups} BY DEF Ids
  <2>2. setup \in Setups BY DEF SockTypes
  <2>3. Of(setup) = 0..(U * T + F - 1) BY DEF Targets
  <2> HIDE DEF Of
  <2> QED BY <2>1, <2>2, <2>3
<1> HIDE DEF U, T, F
<1> QED BY <1>6, <1>7

LEMMA NewIdIs ==
  ASSUME SockTypes, IdsBelow, router.at \in {"listen", "server"}
  PROVE  NewId(sockmap) \in Ids /\ sockmap[NewId(sockmap)] = NoEntry /\ NewId(sockmap) <= Made(router)
<1> DEFINE Unused == {id \in Ids : sockmap[id] = NoEntry /\ \A later \in Ids : later > id => sockmap[later] = NoEntry}
<1>1. Made(router) \in Ids /\ Made(router) \in Nat BY MadeIsAnId
<1>2. \A id \in Ids : id \in Nat BY IdsAreNumbers
<1>3. \A id \in Ids : id >= Made(router) => sockmap[id] = NoEntry BY DEF IdsBelow, Exists
<1> DEFINE made == Made(router)
<1> HIDE DEF made
<1>4. \A id \in Ids : id > made => id >= made BY <1>1, <1>2 DEF made
<1>5. made \in Unused BY <1>1, <1>3, <1>4 DEF made
<1>6. Unused \subseteq Nat /\ Unused # {} BY <1>2, <1>5
<1>7. NewId(sockmap) = Min(Unused) BY DEF NewId
<1> HIDE DEF Unused
<1>8. Min(Unused) \in Unused /\ Min(Unused) <= made BY <1>5, <1>6, SmallestIs
<1> QED BY <1>7, <1>8 DEF Unused, made

-----------------------------------------------------------------------------
(* What SubscribeUniverse can have done.                                   *)

NewEntry(a, live, joined) ==
  [iface |-> a[2], manual |-> TRUE, active |-> live, sublist |-> IF live THEN {a} ELSE {}, joined |-> joined]

SubscribedEntry(e, a, ok) == [e EXCEPT !.sublist = @ \cup {a}, !.joined = IF ok THEN @ \cup {a} ELSE @]

\* A socket that there was has one more membership.
Grown(x, a) ==
  /\ Open(x.id) /\ sockmap[x.id].manual /\ ~x.spawned
  /\ Cardinality(sockmap[x.id].sublist) < Room \/ a \in sockmap[x.id].sublist
  /\ x.map[x.id] = SubscribedEntry(sockmap[x.id], a, x.ok)

\* A new socket was made, with a thread, or something failed, and an entry may be left.
Spawned(x, a) == x.spawned /\ x.map[x.id] = NewEntry(a, TRUE, IF x.ok THEN {a} ELSE {})
Failed(x, a) == ~x.spawned /\ ~x.ok /\ x.map[x.id] \in {NoEntry, NewEntry(a, FALSE, {})}

LEMMA EntriesAre ==
  /\ \A e \in Entry : /\ e # NoEntry /\ e.iface \in UNION {ToSet(s.ifaces) : s \in Setups}
                      /\ e.manual \in BOOLEAN /\ e.active \in BOOLEAN
                      /\ e.sublist \subseteq Addresses /\ e.joined \subseteq Addresses
  /\ \A f \in UNION {ToSet(s.ifaces) : s \in Setups}, m \in BOOLEAN, c \in BOOLEAN, l \in SUBSET Addresses,
        j \in SUBSET Addresses : [iface |-> f, manual |-> m, active |-> c, sublist |-> l, joined |-> j] \in Entry
BY SocketsAssumption DEF Entry

LEMMA SameEntry ==
  ASSUME NEW e \in Entry, NEW f \in Entry, f.iface = e.iface, f.manual = e.manual, f.active = e.active,
         f.sublist = e.sublist, f.joined = e.joined
  PROVE  e = f
BY DEF Entry

LEMMA DisconnectedIs ==
  ASSUME NEW e \in Entry
  PROVE  /\ SocketDisconnect(e) \in Entry
         /\ SocketDisconnect(e).iface = e.iface /\ SocketDisconnect(e).manual = e.manual
         /\ SocketDisconnect(e).active = FALSE /\ SocketDisconnect(e).sublist = {} /\ SocketDisconnect(e).joined = {}
<1> DEFINE f == [e EXCEPT !.active = FALSE, !.sublist = {}, !.joined = {}]
<1>1. SocketDisconnect(e) = f BY DEF SocketDisconnect
<1>2. f \in Entry BY DEF Entry
<1>3. f.iface = e.iface /\ f.manual = e.manual /\ f.active = FALSE /\ f.sublist = {} /\ f.joined = {} BY DEF Entry
<1> QED BY <1>1, <1>2, <1>3

LEMMA SubscribedEntryIs ==
  ASSUME NEW e \in Entry, NEW a \in Addresses, NEW ok \in BOOLEAN
  PROVE  LET f == SubscribedEntry(e, a, ok)
         IN /\ f \in Entry /\ f.iface = e.iface /\ f.manual = e.manual /\ f.active = e.active
            /\ f.sublist = e.sublist \cup {a} /\ f.joined = IF ok THEN e.joined \cup {a} ELSE e.joined
BY DEF Entry, SubscribedEntry

\* RealCreateSocket, in a map that has room for it.
LEMMA CreatedIs ==
  ASSUME SockTypes, IdsBelow, router.at \in {"listen", "server"},
         NEW iface \in UNION {ToSet(s.ifaces) : s \in Setups}, NEW manual \in BOOLEAN
  PROVE  LET id == NewId(sockmap)
             new == [iface |-> iface, manual |-> manual, active |-> TRUE, sublist |-> {}, joined |-> {}]
         IN /\ RealCreateSocket(sockmap, iface, manual) = [sockmap EXCEPT ![id] = new]
            /\ new \in Entry /\ new # NoEntry /\ id \in Ids /\ sockmap[id] = NoEntry /\ id <= Made(router)
            /\ [sockmap EXCEPT ![id] = new] # sockmap
<1> DEFINE id == NewId(sockmap)
           new == [iface |-> iface, manual |-> manual, active |-> TRUE, sublist |-> {}, joined |-> {}]
<1>1. id \in Ids /\ sockmap[id] = NoEntry /\ id <= Made(router) BY NewIdIs
<1>2. new \in Entry BY EntriesAre
<1>3. new # NoEntry BY <1>2, EntriesAre
<1>4. RealCreateSocket(sockmap, iface, manual) = [sockmap EXCEPT ![id] = new] BY DEF RealCreateSocket
<1>5. sockmap \in [Ids -> Entry \cup {NoEntry}] BY DEF SockTypes
<1> HIDE DEF id, new
<1>6. [sockmap EXCEPT ![id] = new] # sockmap
  <2>1. [sockmap EXCEPT ![id] = new][id] = new BY <1>1, <1>5
  <2> QED BY <1>1, <1>3, <2>1
<1> QED BY <1>1, <1>2, <1>3, <1>4, <1>6 DEF id, new

LEMMA SharingIs ==
  ASSUME SockTypes, FreshLeft, router.at = "listen"
  PROVE  /\ Sharing(Current) \subseteq Ids
         /\ \A id \in Sharing(Current) : /\ Open(id) /\ sockmap[id].manual
                                         /\ \/ Cardinality(sockmap[id].sublist) < Room
                                            \/ Current \in sockmap[id].sublist
<1>1. router.universe \in DOMAIN setup.universes /\ router.iface \in DOMAIN Targets /\ router.universe \in Nat
      /\ router.iface \in Nat
  BY DEF SockTypes
<1>2. ~Before(router.universe, router.iface) BY <1>1 DEF Before
<1>3. \A s \in subs : s[1] # Current BY <1>1, <1>2 DEF FreshLeft, Current
<1>4. Sharing(Current) = {id \in Ids : Open(id) /\ sockmap[id].manual /\ sockmap[id].iface = Current[2]
                                        /\ RoomForSubscribe(sockmap[id], Current)}
  BY <1>3 DEF Sharing
<1> QED BY <1>4 DEF RoomForSubscribe

\* What an attempt can come to.
LEMMA AttemptIs ==
  ASSUME SockTypes, IdsBelow, FreshLeft, router.at = "listen", NEW x \in Attempts(Current)
  PROVE  /\ x.id \in Ids /\ x.ok \in BOOLEAN /\ x.spawned \in BOOLEAN
         /\ x.map \in [Ids -> Entry \cup {NoEntry}] /\ \A id \in Ids : id # x.id => x.map[id] = sockmap[id]
         /\ \/ Grown(x, Current)
            \/ sockmap[x.id] = NoEntry /\ x.id <= Made(router) /\ (Spawned(x, Current) \/ Failed(x, Current))
<1> DEFINE a == Current
           new == NewId(sockmap)
           made == RealCreateSocket(sockmap, a[2], TRUE)
<1>1. a \in Addresses /\ a[2] \in UNION {ToSet(s.ifaces) : s \in Setups}
  <2>1. router.universe \in DOMAIN setup.universes /\ router.iface \in DOMAIN Targets /\ setup \in Setups
    BY DEF SockTypes
  <2>2. a \in Addresses BY <2>1, SetupFacts DEF Current
  <2>3. \A b \in Addresses : b[2] \in UNION {ToSet(s.ifaces) : s \in Setups} BY DEF Addresses
  <2> QED BY <2>2, <2>3
<1>2. sockmap \in [Ids -> Entry \cup {NoEntry}] BY DEF SockTypes
<1>3. CASE Sharing(a) # {}
  <2> DEFINE id == Min(Sharing(a))
  <2>1. PICK ok \in BOOLEAN : x = [map |-> Subscribed(sockmap, id, a, ok), ok |-> ok, id |-> id, spawned |-> FALSE]
    BY <1>3 DEF Attempts
  <2>2. id \in Sharing(a) BY <1>3, IdsAreNumbers, SharingIs, SmallestIs
  <2>3. id \in Ids /\ Open(id) /\ sockmap[id].manual
        /\ (Cardinality(sockmap[id].sublist) < Room \/ a \in sockmap[id].sublist)
    BY <2>2, SharingIs
  <2> DEFINE e == sockmap[id]
             f == SubscribedEntry(e, a, ok)
  <2>4. Subscribed(sockmap, id, a, ok) = [sockmap EXCEPT ![id] = f] BY DEF Subscribed, SubscribedEntry
  <2>5. e \in Entry BY <1>2, <2>3 DEF Open, Exists
  <2>6. f \in Entry BY <1>1, <2>5, SubscribedEntryIs
  <2> HIDE DEF f, id, a
  <2>7. x.map = [sockmap EXCEPT ![id] = f] /\ x.ok = ok /\ x.id = id /\ x.spawned = FALSE BY <2>1, <2>4
  <2>8. x.map \in [Ids -> Entry \cup {NoEntry}] /\ x.map[id] = f /\ \A i \in Ids : i # id => x.map[i] = sockmap[i]
    BY <1>2, <2>3, <2>6, <2>7
  <2>9. Grown(x, a) BY <2>3, <2>7, <2>8 DEF Grown, f
  <2> QED BY <2>3, <2>7, <2>8, <2>9 DEF a
<1>4. CASE Sharing(a) = {}
  <2> DEFINE fresh == [iface |-> a[2], manual |-> TRUE, active |-> TRUE, sublist |-> {}, joined |-> {}]
  <2>1. /\ made = [sockmap EXCEPT ![new] = fresh] /\ fresh \in Entry /\ fresh # NoEntry
        /\ new \in Ids /\ sockmap[new] = NoEntry /\ new <= Made(router) /\ made # sockmap
    BY <1>1, CreatedIs
  <2>2. PICK c \in CreateSocket(a[2]) :
          x \in IF c.spawned
                THEN {[map |-> Subscribed(c.map, new, a, ok), ok |-> ok, id |-> new, spawned |-> TRUE] : ok \in BOOLEAN}
                ELSE {[map |-> c.map, ok |-> FALSE, id |-> new, spawned |-> FALSE]}
    BY <1>4 DEF Attempts
  <2>3. \/ c = [map |-> sockmap, spawned |-> FALSE]
        \/ c = [map |-> made, spawned |-> TRUE]
        \/ c = [map |-> Destroyed(made, new), spawned |-> FALSE]
    <3> HIDE DEF made, new
    <3>1. CreateSocket(a[2]) = {[map |-> created, spawned |-> created # sockmap] : created \in {sockmap, made}}
                               \cup {[map |-> Destroyed(made, new), spawned |-> FALSE]}
      BY DEF CreateSocket, Connects, made, new
    <3> QED BY <2>1, <2>2, <3>1
  <2>4. Destroyed(made, new) \in {sockmap, [sockmap EXCEPT ![new] = NewEntry(a, FALSE, {})]}
    <3> HIDE DEF a
    <3>1. SocketDisconnect(fresh) = NewEntry(a, FALSE, {})
      <4> DEFINE f == SocketDisconnect(fresh)
                 g == NewEntry(a, FALSE, {})
      <4>1. fresh.iface = a[2] /\ fresh.manual = TRUE OBVIOUS
      <4>2. g.iface = a[2] /\ g.manual = TRUE /\ g.active = FALSE /\ g.sublist = {} /\ g.joined = {} BY DEF NewEntry
      <4>3. g \in Entry BY <1>1, EntriesAre DEF NewEntry
      <4> HIDE DEF fresh
      <4>4. /\ f \in Entry /\ f.iface = fresh.iface /\ f.manual = fresh.manual /\ f.active = FALSE /\ f.sublist = {}
            /\ f.joined = {}
        BY <2>1, DisconnectedIs
      <4> HIDE DEF f, g
      <4>5. f = g BY <4>1, <4>2, <4>3, <4>4, SameEntry
      <4> QED BY <4>5 DEF f, g
    <3>5. fresh.active OBVIOUS
    <3> HIDE DEF fresh, new, made
    <3>2. made[new] = fresh BY <1>2, <2>1
    <3>3. CASE Select
      <4>1. Destroyed(made, new) = [made EXCEPT ![new] = NoEntry] BY <3>3 DEF Destroyed
      <4> QED BY <1>2, <2>1, <4>1
    <3>4. CASE ~Select
      <4>1. Destroyed(made, new) = [made EXCEPT ![new] = SocketDisconnect(fresh)] BY <3>2, <3>4, <3>5 DEF Destroyed
      <4> QED BY <1>2, <2>1, <3>1, <4>1
    <3> QED BY <3>3, <3>4
  <2>5. NewEntry(a, FALSE, {}) \in Entry BY <1>1, EntriesAre DEF NewEntry
  <2>6. CASE c = [map |-> made, spawned |-> TRUE]
    <3>1. PICK ok \in BOOLEAN : x = [map |-> Subscribed(made, new, a, ok), ok |-> ok, id |-> new, spawned |-> TRUE]
      BY <2>2, <2>6
    <3> DEFINE e == NewEntry(a, TRUE, IF ok THEN {a} ELSE {})
    <3>2. e \in Entry BY <1>1, EntriesAre DEF NewEntry
    <3> HIDE DEF a
    <3>3. SubscribedEntry(fresh, a, ok) = e
      <4> DEFINE f == SubscribedEntry(fresh, a, ok)
      <4>1. fresh.iface = a[2] /\ fresh.manual = TRUE /\ fresh.active = TRUE /\ fresh.sublist = {} /\ fresh.joined = {}
        OBVIOUS
      <4>2. e.iface = a[2] /\ e.manual = TRUE /\ e.active = TRUE /\ e.sublist = {a}
            /\ e.joined = IF ok THEN {a} ELSE {}
        BY DEF NewEntry
      <4> HIDE DEF fresh, e
      <4>3. /\ f \in Entry /\ f.iface = fresh.iface /\ f.manual = fresh.manual /\ f.active = fresh.active
            /\ f.sublist = fresh.sublist \cup {a} /\ f.joined = IF ok THEN fresh.joined \cup {a} ELSE fresh.joined
        BY <1>1, <2>1, SubscribedEntryIs DEF a
      <4> HIDE DEF f
      <4>4. f.sublist = e.sublist /\ f.joined = e.joined BY <4>1, <4>2, <4>3
      <4>5. f = e BY <3>2, <4>1, <4>2, <4>3, <4>4, SameEntry
      <4> QED BY <4>5 DEF f
    <3> HIDE DEF e, fresh, new, made
    <3>4. made[new] = fresh BY <1>2, <2>1
    <3>5. Subscribed(made, new, a, ok)
            = [made EXCEPT ![new] = SubscribedEntry(fresh, a, ok)]
      BY <1>2, <2>1, <3>4 DEF Subscribed, SubscribedEntry
    <3>6. Subscribed(made, new, a, ok) = [sockmap EXCEPT ![new] = e] BY <1>2, <2>1, <3>3, <3>5
    <3>7. x.map = [sockmap EXCEPT ![new] = e] /\ x.ok = ok /\ x.id = new /\ x.spawned = TRUE BY <3>1, <3>6
    <3>8. x.map \in [Ids -> Entry \cup {NoEntry}] /\ x.map[new] = e /\ \A i \in Ids : i # new => x.map[i] = sockmap[i]
      BY <1>2, <2>1, <3>2, <3>7
    <3>9. Spawned(x, a) BY <3>7, <3>8 DEF Spawned, e
    <3> QED BY <2>1, <3>7, <3>8, <3>9 DEF a
  <2>7. CASE ~c.spawned /\ c.map \in {sockmap, [sockmap EXCEPT ![new] = NewEntry(a, FALSE, {})]}
    <3>1. x = [map |-> c.map, ok |-> FALSE, id |-> new, spawned |-> FALSE] BY <2>2, <2>7
    <3> HIDE DEF a, new, made
    <3>2. x.map = c.map /\ x.ok = FALSE /\ x.id = new /\ x.spawned = FALSE BY <3>1
    <3> DEFINE e == NewEntry(a, FALSE, {})
    <3>5. e \in Entry BY <2>5 DEF a
    <3>6. x.map \in {sockmap, [sockmap EXCEPT ![new] = e]} BY <2>7, <3>2 DEF a
    <3>7. new \in Ids /\ sockmap[new] = NoEntry BY <2>1
    <3> HIDE DEF e
    <3>8. x.map \in [Ids -> Entry \cup {NoEntry}] /\ x.map[new] \in {NoEntry, e}
          /\ \A i \in Ids : i # new => x.map[i] = sockmap[i]
      BY <1>2, <3>5, <3>6, <3>7
    <3>3. x.map \in [Ids -> Entry \cup {NoEntry}] /\ x.map[new] \in {NoEntry, NewEntry(a, FALSE, {})}
          /\ \A i \in Ids : i # new => x.map[i] = sockmap[i]
      BY <3>8 DEF e
    <3>4. Failed(x, a) BY <3>2, <3>3 DEF Failed
    <3> QED BY <2>1, <3>2, <3>3, <3>4 DEF a
  <2> DEFINE gone == Destroyed(made, new)
             left == [sockmap EXCEPT ![new] = NewEntry(a, FALSE, {})]
  <2>8. CASE c = [map |-> sockmap, spawned |-> FALSE]
    <3> HIDE DEF left
    <3>1. ~c.spawned /\ c.map \in {sockmap, left} BY <2>8
    <3> QED BY <2>7, <3>1 DEF left
  <2>9. CASE c = [map |-> gone, spawned |-> FALSE]
    <3>1. gone \in {sockmap, left} BY <2>4
    <3> HIDE DEF left, gone
    <3>2. ~c.spawned /\ c.map \in {sockmap, left} BY <2>9, <3>1
    <3> QED BY <2>7, <3>2 DEF left
  <2> QED BY <2>3, <2>6, <2>8, <2>9 DEF gone
<1> QED BY <1>3, <1>4

-----------------------------------------------------------------------------
(* The threads, the reader, the workers and the packets.                   *)

\* What they leave alone.
LEMMA SocketsStay ==
  ASSUME SockInv, UNCHANGED <<setup, sockmap, subs, router, connected>>
  PROVE  IdsBelow' /\ FreshLeft' /\ JoinedAsked' /\ RoomKept' /\ Progress'
<1>1. IdsBelow' BY DEF SockInv, IdsBelow, Made, Exists, Targets
<1>2. FreshLeft' BY DEF SockInv, FreshLeft, Before, Targets
<1>3. JoinedAsked' BY DEF SockInv, JoinedAsked, Exists
<1>4. RoomKept' BY DEF SockInv, RoomKept, Exists
<1>5. \A a : Held(a)' <=> Held(a) BY DEF Held, Exists
<1>6. \A n : Settled(n)' <=> Settled(n) BY <1>5 DEF Settled
<1>7. Progress' BY <1>5, <1>6 DEF SockInv, Progress, Targets
<1> QED BY <1>1, <1>2, <1>3, <1>4, <1>7

\* A packet is taken off the queue of id.
TakesPacket(id) == buffer[id] # <<>> /\ buffer' = [buffer EXCEPT ![id] = Tail(@)]

LEMMA TakenIs ==
  ASSUME buffer \in [Ids -> Seq(Addresses)], NEW id \in Ids, TakesPacket(id)
  PROVE  /\ buffer' \in [Ids -> Seq(Addresses)]
         /\ \A i \in Ids : i # id => buffer'[i] = buffer[i]
         /\ Len(buffer'[id]) <= Len(buffer[id]) /\ ToSet(buffer'[id]) \subseteq ToSet(buffer[id])
         /\ Head(buffer[id]) \in Addresses /\ Head(buffer[id]) \in ToSet(buffer[id])
<1> DEFINE b == buffer[id]
<1>1. b \in Seq(Addresses) /\ b # <<>> BY DEF TakesPacket
<1> HIDE DEF b
<1>2. Tail(b) \in Seq(Addresses) /\ Len(Tail(b)) = Len(b) - 1 /\ Len(b) \in Nat /\ Len(b) > 0 BY <1>1
<1>3. \A n \in DOMAIN Tail(b) : Tail(b)[n] = b[n + 1] /\ n + 1 \in DOMAIN b BY <1>1
<1>4. ToSet(Tail(b)) \subseteq ToSet(b) BY <1>3 DEF ToSet
<1>5. Head(b) = b[1] /\ 1 \in DOMAIN b /\ Head(b) \in Addresses BY <1>1
<1>6. Head(b) \in ToSet(b) BY <1>5 DEF ToSet
<1>7. buffer' = [buffer EXCEPT ![id] = Tail(b)] BY DEF TakesPacket, b
<1>8. buffer' \in [Ids -> Seq(Addresses)] /\ buffer'[id] = Tail(b) /\ \A i \in Ids : i # id => buffer'[i] = buffer[i]
  BY <1>2, <1>7
<1>9. Len(Tail(b)) <= Len(b) BY <1>2
<1> QED BY <1>4, <1>5, <1>6, <1>8, <1>9 DEF b

LEMMA ThreadGoesOn ==
  ASSUME SockInv, NEW id \in Ids, NEW thread \in Listener, At(id, thread),
         UNCHANGED <<setup, sockmap, subs, reader, overlaps, router, pnotify, connected>>, nullCall' \in BOOLEAN,
         UNCHANGED buffer \/ (Open(id) /\ sockmap[id].manual /\ TakesPacket(id)),
         ~Ended(listeners[id]), thread.pc # "none", Opening => thread.pc # "ended",
         thread.pc \in {"check", "notify"} => Asked(thread.address)
  PROVE  SockInv'
<1>1. listeners' = [listeners EXCEPT ![id] = thread] /\ listeners \in [Ids -> Listener] BY DEF At, SockInv, SockTypes
<1>2. listeners' \in [Ids -> Listener] /\ listeners'[id] = thread /\ \A i \in Ids : i # id => listeners'[i] = listeners[i]
  BY <1>1
<1> DEFINE taken == Open(id) /\ sockmap[id].manual /\ TakesPacket(id)
<1>12. /\ buffer \in [Ids -> Seq(Addresses)] /\ buffer' \in [Ids -> Seq(Addresses)]
       /\ \A i \in Ids : ToSet(buffer'[i]) \subseteq ToSet(buffer[i])
       /\ \A i \in Ids : i # id \/ ~taken => buffer'[i] = buffer[i]
  BY TakenIs DEF SockInv, SockTypes
<1>13. \A i \in Ids : Len(buffer'[i]) <= QueueBound
  <2> TAKE i \in Ids
  <2>1. Len(buffer[i]) \in Nat /\ Len(buffer'[i]) \in Nat /\ QueueBound \in Nat /\ Len(buffer[i]) <= QueueBound
    BY <1>12, SocketsAssumption DEF SockInv, SockTypes
  <2>2. Len(buffer'[i]) <= Len(buffer[i]) BY <1>12, <2>1, TakenIs
  <2> QED BY <2>1, <2>2
<1> HIDE DEF taken
<1>3. SockTypes' BY <1>2, <1>12, <1>13 DEF SockInv, SockTypes, Targets
<1>4. \A i : Exists(i)' <=> Exists(i) BY DEF Exists
<1>5. \A i : Open(i)' <=> Open(i) BY <1>4 DEF Open
<1>6. ~Ended(listeners[id]) => listeners[id].pc # "none" BY DEF Ended
<1>7. ThreadsServe'
  <2>1. Opening' <=> Opening BY DEF Opening
  <2>2. \A i \in Ids : listeners'[i].pc # "none" => listeners[i].pc # "none" BY <1>2, <1>6
  <2>3. Opening => \A i \in Ids : Serving(listeners[i]) => Serving(listeners'[i]) BY <1>2 DEF Serving
  <2>4. ThreadsServe BY DEF SockInv
  <2>5. \A i \in Ids : listeners'[i].pc # "none" /\ Exists(i) => sockmap[i].manual BY <2>2, <2>4 DEF ThreadsServe
  <2>6. Opening => \A i \in Ids : Open(i) /\ sockmap[i].manual => Serving(listeners'[i]) BY <2>3, <2>4 DEF ThreadsServe
  <2>7. Opening => \A s \in subs : Open(s[2]) /\ sockmap[s[2]].manual BY <2>4 DEF ThreadsServe
  <2>8. Opening => \A i \in Ids : listeners'[i].pc # "none" => Open(i) BY <2>2, <2>4 DEF ThreadsServe
  <2>9. \A i \in Ids : Serving(listeners[i])' <=> Serving(listeners'[i]) BY DEF Serving
  <2> QED BY <1>4, <1>5, <2>1, <2>5, <2>6, <2>7, <2>8, <2>9 DEF ThreadsServe
<1>8. QueuesAsked'
  <2>1. Opening' <=> Opening BY DEF Opening
  <2>2. \A a : Asked(a)' <=> Asked(a) BY DEF Asked
  <2>3. QueuesAsked BY DEF SockInv
  <2>4. \A i \in Ids : listeners'[i].pc \in {"check", "notify"} => Asked(listeners'[i].address)
    BY <1>2, <2>3 DEF QueuesAsked
  <2>5. \A i \in Ids : Exists(i) /\ sockmap[i].manual => \A p \in ToSet(buffer[i]) : Asked(p) BY <2>3 DEF QueuesAsked
  <2>6. Opening => \A i \in Ids : ~Exists(i) => buffer'[i] = <<>>
    <3>1. \A i \in Ids : ~Exists(i) => buffer'[i] = buffer[i] BY <1>12 DEF taken, Open
    <3> QED BY <2>3, <3>1 DEF QueuesAsked
  <2>7. \A i \in Ids : Exists(i) /\ sockmap[i].manual => \A p \in ToSet(buffer'[i]) : Asked(p) BY <1>12, <2>5
  <2> QED BY <1>4, <2>1, <2>2, <2>4, <2>6, <2>7 DEF QueuesAsked
<1>9. ReaderHolds'
  <2>1. ReaderHolds BY DEF SockInv
  <2>2. \A i \in reader.ready : i \in Ids BY DEF SockInv, SockTypes
  <2>3. \A i \in reader.ready : Open(i) => buffer'[i] = buffer[i] BY <1>12, <2>1, <2>2 DEF ReaderHolds, taken
  <2> QED BY <1>5, <2>1, <2>3 DEF ReaderHolds, Opening, Select
<1>10. WorkersHold'
  <2>1. WorkersHold BY DEF SockInv
  <2>2. (Opening' <=> Opening) /\ (Early' <=> Early) /\ (Select' <=> Select) BY DEF Opening, Early, Select
  <2> QED BY <1>4, <1>5, <2>1, <2>2 DEF WorkersHold, OverlapFits, ServerLeft
<1>11. StagesHold'
  <2>1. StagesHold BY DEF SockInv
  <2>2. router.at \notin {"stopNet", "joinNet", "end"} BY <2>1 DEF StagesHold
  <2> QED BY <2>1, <2>2 DEF StagesHold
<1> QED BY <1>3, <1>7, <1>8, <1>9, <1>10, <1>11, SocketsStay DEF SockInv

LEMMA ListenersAre ==
  /\ \A pc \in {"none", "lookup", "receive", "failed", "ended"} : [pc |-> pc] \in Listener /\ [pc |-> pc].pc = pc
  /\ \A pc \in {"check", "notify"}, a \in Addresses :
       [pc |-> pc, address |-> a] \in Listener /\ [pc |-> pc, address |-> a].pc = pc
       /\ [pc |-> pc, address |-> a].address = a
  /\ \A t \in Listener : t.pc \in {"check", "notify"} => t.address \in Addresses /\ t = [pc |-> t.pc, address |-> t.address]
BY DEF Listener

LEMMA LookupKeeps ==
  ASSUME SockInv, UNCHANGED setup, NEW id \in Ids, Lookup(id)
  PROVE  SockInv'
<1> DEFINE thread == [pc |-> IF Open(id) THEN "receive" ELSE "ended"]
<1>1. thread \in Listener /\ thread.pc = (IF Open(id) THEN "receive" ELSE "ended") BY ListenersAre
<1>2. Opening => Open(id) BY DEF SockInv, ThreadsServe, Lookup
<1>3. ~Ended(listeners[id]) BY DEF Lookup, Ended
<1>4. At(id, thread) BY DEF Lookup
<1>5. UNCHANGED <<setup, sockmap, subs, reader, overlaps, router, pnotify, connected, buffer>> /\ nullCall' \in BOOLEAN
  BY DEF Lookup, SockInv, SockTypes
<1> HIDE DEF thread
<1>6. thread.pc \notin {"none", "check", "notify"} /\ (Opening => thread.pc # "ended") BY <1>1, <1>2
<1> QED BY <1>1, <1>3, <1>4, <1>5, <1>6, ThreadGoesOn

LEMMA CheckKeeps ==
  ASSUME SockInv, UNCHANGED setup, NEW id \in Ids, Check(id)
  PROVE  SockInv'
<1> DEFINE old == listeners[id]
           thread == IF pnotify THEN [old EXCEPT !.pc = "notify"] ELSE [pc |-> "lookup"]
<1>1. old \in Listener /\ old.pc = "check" BY DEF SockInv, SockTypes, Check
<1>2. Asked(old.address) BY <1>1 DEF SockInv, QueuesAsked
<1>3. old.address \in Addresses /\ old = [pc |-> old.pc, address |-> old.address] BY <1>1, ListenersAre
<1>4. ~Ended(old) BY <1>1 DEF Ended
<1>5. At(id, thread) BY DEF Check
<1>6. UNCHANGED <<setup, sockmap, subs, reader, overlaps, router, pnotify, connected, buffer>> /\ nullCall' \in BOOLEAN
  BY DEF Check, SockInv, SockTypes
<1>7. [old EXCEPT !.pc = "notify"] = [pc |-> "notify", address |-> old.address]
  <2> DEFINE a == old.address
  <2>1. old = [pc |-> "check", address |-> a] BY <1>1, <1>3
  <2> HIDE DEF old, a
  <2>2. [[pc |-> "check", address |-> a] EXCEPT !.pc = "notify"] = [pc |-> "notify", address |-> a] OBVIOUS
  <2>3. [old EXCEPT !.pc = "notify"] = [pc |-> "notify", address |-> a] BY <2>1, <2>2
  <2> QED BY <2>3 DEF a
<1> HIDE DEF old
<1>8. thread = (IF pnotify THEN [pc |-> "notify", address |-> old.address] ELSE [pc |-> "lookup"]) BY <1>7
<1> HIDE DEF thread
<1>9. thread \in Listener /\ thread.pc \in {"notify", "lookup"}
      /\ (thread.pc \in {"check", "notify"} => thread.address = old.address)
  BY <1>3, <1>8, ListenersAre
<1>10. thread.pc \in {"check", "notify"} => Asked(thread.address) BY <1>2, <1>9
<1> QED BY <1>4, <1>5, <1>6, <1>9, <1>10, ThreadGoesOn DEF old

LEMMA NotificationKeeps ==
  ASSUME SockInv, UNCHANGED setup, NEW id \in Ids, Notify(id)
  PROVE  SockInv'
<1> DEFINE thread == [pc |-> "lookup"]
<1>1. thread \in Listener /\ thread.pc = "lookup" BY ListenersAre
<1>2. ~Ended(listeners[id]) /\ At(id, thread) BY DEF Notify, Ended
<1>3. UNCHANGED <<setup, sockmap, subs, reader, overlaps, router, pnotify, connected, buffer>> /\ nullCall' \in BOOLEAN
  BY DEF Notify, SockInv, SockTypes
<1> HIDE DEF thread
<1> QED BY <1>1, <1>2, <1>3, ThreadGoesOn

LEMMA ReceiveIntoKeeps ==
  ASSUME SockInv, UNCHANGED setup, NEW id \in Ids, ReceiveInto(id)
  PROVE  SockInv'
<1>1. UNCHANGED <<setup, sockmap, subs, reader, overlaps, router, pnotify, connected>> /\ nullCall' \in BOOLEAN
      /\ listeners[id].pc = "receive" /\ ~Ended(listeners[id])
  BY DEF ReceiveInto, Ended, SockInv, SockTypes
<1>2. ThreadsServe /\ QueuesAsked /\ buffer \in [Ids -> Seq(Addresses)] BY DEF SockInv, SockTypes
<1>3. CASE Open(id)
  <2> DEFINE a == Head(buffer[id])
             thread == [pc |-> "check", address |-> a]
  <2>1. At(id, thread) /\ TakesPacket(id) BY <1>3 DEF ReceiveInto, TakesPacket
  <2>2. a \in Addresses /\ a \in ToSet(buffer[id]) BY <1>2, <2>1, TakenIs
  <2>3. Exists(id) /\ sockmap[id].manual BY <1>1, <1>2, <1>3 DEF ThreadsServe, Open
  <2>4. Asked(a) BY <1>2, <2>2, <2>3 DEF QueuesAsked
  <2> HIDE DEF a
  <2>5. thread \in Listener /\ thread.pc = "check" /\ thread.address = a BY <2>2, ListenersAre
  <2> HIDE DEF thread
  <2> QED BY <1>1, <1>3, <2>1, <2>3, <2>4, <2>5, ThreadGoesOn
<1>4. CASE ~Open(id)
  <2> DEFINE thread == [pc |-> IF Select THEN "lookup" ELSE "ended"]
  <2>1. At(id, thread) /\ UNCHANGED buffer BY <1>4 DEF ReceiveInto
  <2>2. thread \in Listener /\ thread.pc \in {"lookup", "ended"} BY ListenersAre
  <2>3. ~Opening BY <1>1, <1>2, <1>4 DEF ThreadsServe
  <2> HIDE DEF thread
  <2> QED BY <1>1, <2>1, <2>2, <2>3, ThreadGoesOn
<1> QED BY <1>3, <1>4

LEMMA ReceiveFailsKeeps ==
  ASSUME SockInv, UNCHANGED setup, NEW id \in Ids, ReceiveFails(id)
  PROVE  SockInv'
<1> DEFINE thread == [pc |-> "failed"]
<1>1. thread \in Listener /\ thread.pc = "failed" BY ListenersAre
<1>2. ~Ended(listeners[id]) /\ At(id, thread) BY DEF ReceiveFails, Ended
<1>3. UNCHANGED <<setup, sockmap, subs, reader, overlaps, router, pnotify, connected, buffer>> /\ nullCall' \in BOOLEAN
  BY DEF ReceiveFails, SockInv, SockTypes
<1> HIDE DEF thread
<1> QED BY <1>1, <1>2, <1>3, ThreadGoesOn

\* Packets come and are read, and the sockets stay.
LEMMA PacketsMove ==
  ASSUME SockInv, UNCHANGED <<setup, sockmap, subs, listeners, router, pnotify, connected, nullCall>>,
         buffer' \in [Ids -> Seq(Addresses)], \A id \in Ids : Len(buffer'[id]) <= QueueBound,
         \A id \in Ids : Exists(id) /\ sockmap[id].manual => \A p \in ToSet(buffer'[id]) : Asked(p),
         \A id \in Ids : ~Exists(id) => buffer'[id] = buffer[id],
         reader' \in [pc: {"idle", "selected", "reading", "ended"}, ready: SUBSET Ids],
         \A id \in reader'.ready : /\ Open(id) => ~sockmap[id].manual /\ buffer'[id] # <<>>
                                   /\ Opening => Open(id),
         ~Select => reader' = [pc |-> "idle", ready |-> {}],
         overlaps' \in [Ids -> OverlapStates],
         \A id \in Ids : \/ overlaps'[id] = overlaps[id]
                         \/ overlaps[id] \in UnderWay /\ overlaps'[id] \in UnderWay \cup {"lost"}
  PROVE  SockInv'
<1>1. SockTypes' BY DEF SockInv, SockTypes, Targets
<1>2. \A i : Exists(i)' <=> Exists(i) BY DEF Exists
<1>3. \A i : Open(i)' <=> Open(i) BY <1>2 DEF Open
<1>4. Opening' <=> Opening BY DEF Opening
<1>5. ThreadsServe' BY <1>2, <1>3, <1>4 DEF SockInv, ThreadsServe, Serving
<1>6. QueuesAsked'
  <2>1. QueuesAsked BY DEF SockInv
  <2>2. \A a : Asked(a)' <=> Asked(a) BY DEF Asked
  <2>3. Opening => \A id \in Ids : ~Exists(id) => buffer'[id] = <<>> BY <2>1 DEF QueuesAsked
  <2>4. \A id \in Ids : listeners[id].pc \in {"check", "notify"} => Asked(listeners[id].address) BY <2>1 DEF QueuesAsked
  <2> QED BY <1>2, <1>4, <2>2, <2>3, <2>4 DEF QueuesAsked
<1>7. ReaderHolds' BY <1>3, <1>4 DEF ReaderHolds, Select
<1>8. WorkersHold'
  <2>1. WorkersHold BY DEF SockInv
  <2>2. (Early' <=> Early) /\ (Select' <=> Select) BY DEF Early, Select
  <2>3. ASSUME NEW id \in Ids PROVE OverlapFits(id)' /\ (Early' \/ ServerLeft(id)')
    <3>1. OverlapFits(id) /\ (Early \/ ServerLeft(id)) BY <2>1 DEF WorkersHold
    <3>2. CASE overlaps'[id] = overlaps[id] BY <1>2, <1>3, <1>4, <2>2, <3>1, <3>2 DEF OverlapFits, ServerLeft
    <3>3. CASE overlaps[id] \in UnderWay /\ overlaps'[id] \in UnderWay \cup {"lost"}
      BY <1>2, <1>3, <1>4, <2>2, <3>1, <3>3 DEF OverlapFits, ServerLeft, UnderWay
    <3> QED BY <3>2, <3>3
  <2> QED BY <2>3 DEF WorkersHold
<1>9. StagesHold' BY DEF SockInv, StagesHold, Ended
<1> QED BY <1>1, <1>5, <1>6, <1>7, <1>8, <1>9, SocketsStay DEF SockInv

LEMMA InvGives ==
  ASSUME SockInv
  PROVE  /\ buffer \in [Ids -> Seq(Addresses)] /\ \A id \in Ids : Len(buffer[id]) <= QueueBound
         /\ \A id \in Ids : Exists(id) /\ sockmap[id].manual => \A p \in ToSet(buffer[id]) : Asked(p)
         /\ reader \in [pc: {"idle", "selected", "reading", "ended"}, ready: SUBSET Ids]
         /\ \A id \in reader.ready : /\ Open(id) => ~sockmap[id].manual /\ buffer[id] # <<>>
                                     /\ Opening => Open(id)
         /\ ~Select => reader = [pc |-> "idle", ready |-> {}]
         /\ overlaps \in [Ids -> OverlapStates]
         /\ sockmap \in [Ids -> Entry \cup {NoEntry}]
BY DEF SockInv, SockTypes, QueuesAsked, ReaderHolds

LEMMA ReaderSelectsKeeps ==
  ASSUME SockInv, UNCHANGED setup, ReaderSelects
  PROVE  SockInv'
<1> DEFINE heard == {id \in Ids : Open(id) /\ ~sockmap[id].manual /\ buffer[id] # <<>>}
<1>1. UNCHANGED <<setup, sockmap, buffer, subs, listeners, overlaps, router, pnotify, connected, nullCall>> /\ Select
  BY DEF ReaderSelects
<1>2. reader' \in {[pc |-> "ended", ready |-> {}], [pc |-> "selected", ready |-> heard]} BY DEF ReaderSelects
<1>3. heard \subseteq Ids /\ \A id \in heard : Open(id) /\ ~sockmap[id].manual /\ buffer[id] # <<>> OBVIOUS
<1> HIDE DEF heard
<1>4. reader' \in [pc: {"idle", "selected", "reading", "ended"}, ready: SUBSET Ids] /\ reader'.ready \subseteq heard
  BY <1>2, <1>3
<1> QED BY <1>1, <1>3, <1>4, InvGives, PacketsMove

LEMMA ReaderLocksKeeps ==
  ASSUME SockInv, UNCHANGED setup, ReaderLocks
  PROVE  SockInv'
<1>1. UNCHANGED <<setup, sockmap, buffer, subs, listeners, overlaps, router, pnotify, connected, nullCall>>
      /\ reader' = [reader EXCEPT !.pc = IF reader.ready = {} THEN "idle" ELSE "reading"] /\ reader.pc = "selected"
  BY DEF ReaderLocks
<1>2. reader \in [pc: {"idle", "selected", "reading", "ended"}, ready: SUBSET Ids] BY InvGives
<1>3. reader' \in [pc: {"idle", "selected", "reading", "ended"}, ready: SUBSET Ids] /\ reader'.ready = reader.ready
  BY <1>1, <1>2
<1>4. Select
  <2>1. ~Select => reader = [pc |-> "idle", ready |-> {}] BY InvGives
  <2> QED BY <1>1, <2>1
<1> QED BY <1>1, <1>3, <1>4, InvGives, PacketsMove

\* A packet is taken off the queue of a socket.
LEMMA TakenKeeps ==
  ASSUME SockInv, NEW id \in Ids, TakesPacket(id)
  PROVE  /\ buffer' \in [Ids -> Seq(Addresses)] /\ \A i \in Ids : Len(buffer'[i]) <= QueueBound
         /\ \A i \in Ids : Exists(i) /\ sockmap[i].manual => \A p \in ToSet(buffer'[i]) : Asked(p)
         /\ \A i \in Ids : i # id => buffer'[i] = buffer[i]
<1>1. buffer \in [Ids -> Seq(Addresses)] BY InvGives
<1>2. buffer' \in [Ids -> Seq(Addresses)] /\ \A i \in Ids : i # id => buffer'[i] = buffer[i] BY <1>1, TakenIs
<1>3. Len(buffer'[id]) <= Len(buffer[id]) /\ ToSet(buffer'[id]) \subseteq ToSet(buffer[id]) BY <1>1, TakenIs
<1>4. \A i \in Ids : Len(buffer'[i]) <= QueueBound
  <2> TAKE i \in Ids
  <2>1. Len(buffer[i]) \in Nat /\ Len(buffer'[i]) \in Nat /\ QueueBound \in Nat BY <1>1, <1>2, SocketsAssumption
  <2>2. Len(buffer[i]) <= QueueBound BY InvGives
  <2>3. Len(buffer'[i]) <= Len(buffer[i]) BY <1>2, <1>3, <2>1
  <2> QED BY <2>1, <2>2, <2>3
<1>5. \A i \in Ids : ToSet(buffer'[i]) \subseteq ToSet(buffer[i]) BY <1>2, <1>3
<1> QED BY <1>2, <1>4, <1>5, InvGives

LEMMA ReaderReadsKeeps ==
  ASSUME SockInv, UNCHANGED setup, ReaderReads
  PROVE  SockInv'
<1> DEFINE there == {id \in reader.ready : Open(id)}
<1>1. UNCHANGED <<setup, sockmap, subs, listeners, overlaps, router, pnotify, connected, nullCall>> /\ reader.pc = "reading"
  BY DEF ReaderReads
<1>2. reader \in [pc: {"idle", "selected", "reading", "ended"}, ready: SUBSET Ids] BY InvGives
<1>3. Select
  <2>1. ~Select => reader = [pc |-> "idle", ready |-> {}] BY InvGives
  <2> QED BY <1>1, <2>1
<1>4. there \subseteq Ids /\ there \subseteq reader.ready BY <1>2
<1>5. CASE there = {}
  <2>1. reader' = [pc |-> "idle", ready |-> {}] /\ UNCHANGED buffer BY <1>5 DEF ReaderReads
  <2>2. reader' \in [pc: {"idle", "selected", "reading", "ended"}, ready: SUBSET Ids] /\ reader'.ready = {} BY <2>1
  <2> QED BY <1>1, <1>3, <2>1, <2>2, InvGives, PacketsMove
<1>6. CASE there # {}
  <2> DEFINE id == Min(there)
  <2>1. id \in there BY <1>4, <1>6, IdsAreNumbers, SmallestIs
  <2>2. TakesPacket(id) \/ UNCHANGED buffer BY <1>6 DEF ReaderReads, TakesPacket
  <2>8. reader' = [reader EXCEPT !.ready = there \ {id}] BY <1>6 DEF ReaderReads
  <2>3. id \in Ids /\ Open(id) /\ Exists(id) BY <1>4, <2>1 DEF Open
  <2> HIDE DEF id, there
  <2>4. reader' \in [pc: {"idle", "selected", "reading", "ended"}, ready: SUBSET Ids] /\ reader'.ready = there \ {id}
    BY <1>2, <1>4, <2>8
  <2>5. /\ buffer' \in [Ids -> Seq(Addresses)] /\ \A i \in Ids : Len(buffer'[i]) <= QueueBound
        /\ \A i \in Ids : Exists(i) /\ sockmap[i].manual => \A p \in ToSet(buffer'[i]) : Asked(p)
        /\ \A i \in Ids : i # id => buffer'[i] = buffer[i]
    <3>1. CASE TakesPacket(id) BY <2>3, <3>1, TakenKeeps
    <3>2. CASE UNCHANGED buffer BY <3>2, InvGives
    <3> QED BY <2>2, <3>1, <3>2
  <2>6. \A i \in reader'.ready : /\ Open(i) => ~sockmap[i].manual /\ buffer'[i] # <<>>
                                 /\ Opening => Open(i)
    <3> TAKE i \in reader'.ready
    <3>1. i \in reader.ready /\ i \in Ids /\ i # id BY <1>4, <2>4
    <3>2. buffer'[i] = buffer[i] BY <2>5, <3>1
    <3> QED BY <3>1, <3>2, InvGives
  <2>7. \A i \in Ids : ~Exists(i) => buffer'[i] = buffer[i] BY <2>3, <2>5
  <2> QED BY <1>1, <1>3, <2>4, <2>5, <2>6, <2>7, InvGives, PacketsMove
<1> QED BY <1>5, <1>6

LEMMA CompletesKeeps ==
  ASSUME SockInv, UNCHANGED setup, NEW id \in Ids, Completes(id)
  PROVE  SockInv'
<1>1. /\ UNCHANGED <<setup, sockmap, subs, listeners, reader, router, pnotify, connected, nullCall>>
      /\ overlaps[id] = "pending" /\ overlaps' = [overlaps EXCEPT ![id] = "done"] /\ TakesPacket(id) /\ Open(id) /\ Exists(id)
  BY DEF Completes, TakesPacket, Open
<1>2. overlaps \in [Ids -> OverlapStates] BY InvGives
<1>3. overlaps' \in [Ids -> OverlapStates]
      /\ \A i \in Ids : overlaps'[i] = overlaps[i] \/ (overlaps[i] \in UnderWay /\ overlaps'[i] \in UnderWay \cup {"lost"})
  BY <1>1, <1>2 DEF OverlapStates, UnderWay
<1>4. ~Select BY <1>1 DEF SockInv, WorkersHold, OverlapFits
<1>5. reader = [pc |-> "idle", ready |-> {}] BY <1>4, InvGives
<1>6. /\ buffer' \in [Ids -> Seq(Addresses)] /\ \A i \in Ids : Len(buffer'[i]) <= QueueBound
      /\ \A i \in Ids : Exists(i) /\ sockmap[i].manual => \A p \in ToSet(buffer'[i]) : Asked(p)
      /\ \A i \in Ids : i # id => buffer'[i] = buffer[i]
  BY <1>1, TakenKeeps
<1>7. \A i \in Ids : ~Exists(i) => buffer'[i] = buffer[i] BY <1>1, <1>6
<1>8. reader'.ready = {} /\ reader' = reader BY <1>1, <1>5
<1> QED BY <1>1, <1>3, <1>6, <1>7, <1>8, InvGives, PacketsMove

LEMMA QueuedIs ==
  ASSUME SockInv, NEW id \in Ids, NEW a \in Addresses, Len(buffer[id]) < QueueBound
  PROVE  LET q == Append(buffer[id], a)
         IN q \in Seq(Addresses) /\ Len(q) <= QueueBound /\ ToSet(q) = ToSet(buffer[id]) \cup {a} /\ q # <<>>
<1> DEFINE b == buffer[id]
           q == Append(b, a)
<1>1. b \in Seq(Addresses) BY InvGives
<1>2. QueueBound \in Nat /\ Len(b) < QueueBound BY SocketsAssumption
<1> HIDE DEF b
<1>3. q \in Seq(Addresses) /\ Len(q) = Len(b) + 1 /\ Len(b) \in Nat BY <1>1
<1>4. \A n \in DOMAIN q : q[n] = IF n = Len(b) + 1 THEN a ELSE b[n] BY <1>1
<1>5. DOMAIN q = DOMAIN b \cup {Len(b) + 1} /\ Len(b) + 1 \notin DOMAIN b BY <1>1, <1>3
<1> HIDE DEF q
<1>6. ToSet(q) = ToSet(b) \cup {a} BY <1>4, <1>5 DEF ToSet
<1>7. q # <<>> /\ Len(q) <= QueueBound BY <1>2, <1>3
<1> QED BY <1>3, <1>6, <1>7 DEF q, b

LEMMA ArriveKeeps ==
  ASSUME SockInv, UNCHANGED setup, NEW a \in Addresses, Arrive(a)
  PROVE  SockInv'
<1>1. /\ UNCHANGED <<setup, sockmap, subs, listeners, reader, overlaps, router, pnotify, connected, nullCall>>
      /\ buffer' = [id \in Ids |-> IF Gets(id, a) THEN Append(buffer[id], a) ELSE buffer[id]]
  BY DEF Arrive
<1>2. \A id \in Ids : Gets(id, a) => /\ Open(id) /\ Exists(id) /\ sockmap[id].manual /\ Len(buffer[id]) < QueueBound
                                     /\ Asked(a)
  <2> SUFFICES ASSUME NEW id \in Ids, Gets(id, a)
               PROVE  Open(id) /\ Exists(id) /\ sockmap[id].manual /\ Len(buffer[id]) < QueueBound /\ Asked(a)
    OBVIOUS
  <2>1. Open(id) /\ Exists(id) /\ sockmap[id].manual /\ Len(buffer[id]) < QueueBound
        /\ (setup.platform # "linux" => a \in sockmap[id].joined)
    BY DEF Gets, Open
  <2>2. setup.platform # "linux" => <<a, id>> \in subs BY <2>1 DEF SockInv, JoinedAsked
  <2>3. Asked(a)
    <3>1. \A s : s = <<a, id>> => s[1] = a OBVIOUS
    <3> QED BY <2>2, <3>1 DEF Asked
  <2> QED BY <2>1, <2>3
<1>3. \A id \in Ids : /\ ~Gets(id, a) => buffer'[id] = buffer[id]
                      /\ Gets(id, a) => buffer'[id] = Append(buffer[id], a)
  BY <1>1
<1>4. \A id \in Ids : buffer'[id] \in Seq(Addresses) /\ Len(buffer'[id]) <= QueueBound
                      /\ (Gets(id, a) => ToSet(buffer'[id]) = ToSet(buffer[id]) \cup {a} /\ buffer'[id] # <<>>)
  <2> TAKE id \in Ids
  <2>1. CASE Gets(id, a) BY <1>2, <1>3, <2>1, QueuedIs
  <2>2. CASE ~Gets(id, a) BY <1>3, <2>2, InvGives
  <2> QED BY <2>1, <2>2
<1>5. buffer' \in [Ids -> Seq(Addresses)] BY <1>1, <1>4
<1>6. \A id \in Ids : Exists(id) /\ sockmap[id].manual => \A p \in ToSet(buffer'[id]) : Asked(p)
  <2> SUFFICES ASSUME NEW id \in Ids, Exists(id), sockmap[id].manual, NEW p \in ToSet(buffer'[id]) PROVE Asked(p)
    OBVIOUS
  <2>1. \A o \in ToSet(buffer[id]) : Asked(o) BY InvGives
  <2>2. CASE Gets(id, a)
    <3>1. Asked(a) BY <1>2, <2>2
    <3>2. p \in ToSet(buffer[id]) \/ p = a BY <1>4, <2>2
    <3> QED BY <2>1, <3>1, <3>2
  <2>3. CASE ~Gets(id, a) BY <1>3, <2>1, <2>3
  <2> QED BY <2>2, <2>3
<1>7. \A id \in Ids : ~Exists(id) => buffer'[id] = buffer[id] BY <1>2, <1>3
<1>8. \A id \in reader'.ready : /\ Open(id) => ~sockmap[id].manual /\ buffer'[id] # <<>>
                                /\ Opening => Open(id)
  <2> TAKE id \in reader'.ready
  <2>1. id \in reader.ready /\ id \in Ids BY <1>1, InvGives
  <2>2. Open(id) => ~sockmap[id].manual /\ buffer[id] # <<>> BY <2>1, InvGives
  <2>3. Opening => Open(id) BY <2>1, InvGives
  <2>4. Open(id) => buffer'[id] = buffer[id] BY <1>2, <1>3, <2>1, <2>2
  <2> QED BY <2>2, <2>3, <2>4
<1> QED BY <1>1, <1>4, <1>5, <1>6, <1>7, <1>8, InvGives, PacketsMove

LEMMA ArriveAtServerKeeps ==
  ASSUME SockInv, UNCHANGED setup, NEW id \in Ids, ArriveAtServer(id)
  PROVE  SockInv'
<1> DEFINE a == CHOOSE x \in Addresses : TRUE
           q == Append(buffer[id], a)
<1>1. /\ UNCHANGED <<setup, sockmap, subs, listeners, reader, overlaps, router, pnotify, connected, nullCall>>
      /\ buffer' = [buffer EXCEPT ![id] = q]
      /\ Open(id) /\ Exists(id) /\ ~sockmap[id].manual /\ Len(buffer[id]) < QueueBound
  BY DEF ArriveAtServer, Open
<1>2. a \in Addresses
  <2>1. setup \in Setups BY DEF SockInv, SockTypes
  <2>2. 1 \in DOMAIN setup.universes /\ 1 \in DOMAIN Targets BY <2>1, SetupFacts
  <2>3. <<setup.universes[1], Targets[1]>> \in Addresses BY <2>1, <2>2, SetupFacts
  <2> QED BY <2>3
<1> HIDE DEF a
<1>3. q \in Seq(Addresses) /\ Len(q) <= QueueBound /\ q # <<>> BY <1>1, <1>2, QueuedIs
<1>4. buffer \in [Ids -> Seq(Addresses)] BY InvGives
<1> HIDE DEF q
<1>5. buffer' \in [Ids -> Seq(Addresses)] /\ buffer'[id] = q /\ \A i \in Ids : i # id => buffer'[i] = buffer[i]
  BY <1>1, <1>3, <1>4
<1>6. \A i \in Ids : Len(buffer'[i]) <= QueueBound BY <1>3, <1>5, InvGives
<1>7. \A i \in Ids : Exists(i) /\ sockmap[i].manual => \A p \in ToSet(buffer'[i]) : Asked(p) BY <1>1, <1>5, InvGives
<1>8. \A i \in reader'.ready : /\ Open(i) => ~sockmap[i].manual /\ buffer'[i] # <<>>
                               /\ Opening => Open(i)
  <2> TAKE i \in reader'.ready
  <2>1. i \in reader.ready /\ i \in Ids BY <1>1, InvGives
  <2>2. (Open(i) => ~sockmap[i].manual /\ buffer[i] # <<>>) /\ (Opening => Open(i)) BY <2>1, InvGives
  <2> QED BY <1>3, <1>5, <2>1, <2>2
<1>9. \A i \in Ids : ~Exists(i) => buffer'[i] = buffer[i] BY <1>1, <1>5
<1> QED BY <1>1, <1>5, <1>6, <1>7, <1>8, <1>9, InvGives, PacketsMove

-----------------------------------------------------------------------------
(* RouterThread closes the sockets.                                        *)

\* RouterThread goes on to the next stage of the shutdown.
LEMMA StageKeeps ==
  ASSUME SockInv, NEW at \in Closing, router' = [router EXCEPT !.at = at],
         UNCHANGED <<setup, sockmap, buffer, subs, listeners, reader, overlaps, connected, nullCall>>,
         pnotify' \in BOOLEAN, ~pnotify' => at \notin {"stopServer", "silence"},
         at \in {"stopNet", "joinNet", "end"} => \A id \in Ids : Ended(listeners[id]),
         at = "stopServer" \/ ~Early \/ \A id \in Ids : ServerLeft(id)
  PROVE  SockInv'
<1>1. router \in [at: {"listen", "server", "run"} \cup Closing, universe: Nat, iface: Nat] BY DEF SockInv, SockTypes
<1>2. router' \in [at: {"listen", "server", "run"} \cup Closing, universe: Nat, iface: Nat] /\ router'.at = at
  BY <1>1
<1>3. at \notin {"listen", "server", "run"} BY DEF Closing
<1>4. ~Opening' BY <1>2, <1>3 DEF Opening
<1>5. SockTypes' BY <1>2, <1>3 DEF SockInv, SockTypes
<1>6. \A i : Exists(i)' <=> Exists(i) BY DEF Exists
<1>7. \A i : Open(i)' <=> Open(i) BY <1>6 DEF Open
<1>8. IdsBelow' /\ FreshLeft' /\ Progress' BY <1>2, <1>3 DEF IdsBelow, FreshLeft, Progress
<1>9. JoinedAsked' BY <1>6 DEF SockInv, JoinedAsked
<1>10. RoomKept' BY <1>6 DEF SockInv, RoomKept
<1>11. ThreadsServe' BY <1>4, <1>6 DEF SockInv, ThreadsServe
<1>12. QueuesAsked' BY <1>4, <1>6 DEF SockInv, QueuesAsked, Asked
<1>13. ReaderHolds' BY <1>4, <1>7 DEF SockInv, ReaderHolds, Select
<1>14. WorkersHold'
  <2>1. WorkersHold BY DEF SockInv
  <2>2. Select' <=> Select BY DEF Select
  <2>3. at = "stopServer" => Early' BY <1>2 DEF Early
  <2>4. ASSUME NEW id \in Ids PROVE OverlapFits(id)' /\ (Early' \/ ServerLeft(id)')
    <3>1. OverlapFits(id) /\ (Early \/ ServerLeft(id)) BY <2>1 DEF WorkersHold
    <3>2. OverlapFits(id)' BY <1>4, <1>6, <1>7, <2>2, <3>1 DEF OverlapFits
    <3>3. at = "stopServer" \/ ServerLeft(id) BY <3>1
    <3>4. ServerLeft(id) => ServerLeft(id)' BY <1>6, <1>7, <2>2 DEF ServerLeft
    <3> QED BY <2>3, <3>2, <3>3, <3>4
  <2> QED BY <2>4 DEF WorkersHold
<1>15. StagesHold' BY <1>2, <1>3 DEF StagesHold, Ended
<1> QED BY <1>5, <1>8, <1>9, <1>10, <1>11, <1>12, <1>13, <1>14, <1>15 DEF SockInv

LEMMA StopRunKeeps ==
  ASSUME SockInv, UNCHANGED setup, StopRun
  PROVE  SockInv'
<1>1. "stopServer" \in Closing BY DEF Closing
<1>2. pnotify /\ pnotify \in BOOLEAN BY DEF SockInv, StagesHold, SockTypes, StopRun, Closing
<1> QED BY <1>1, <1>2, StageKeeps DEF StopRun

LEMMA SilenceKeeps ==
  ASSUME SockInv, UNCHANGED setup, Silence
  PROVE  SockInv'
<1>1. "stopClient" \in Closing BY DEF Closing
<1>2. ~Early BY DEF Silence, Early
<1> QED BY <1>1, <1>2, StageKeeps DEF Silence

LEMMA JoinThreadsKeeps ==
  ASSUME SockInv, UNCHANGED setup, JoinThreads
  PROVE  SockInv'
<1>1. "stopNet" \in Closing BY DEF Closing
<1>2. pnotify \in BOOLEAN BY DEF SockInv, SockTypes
<1>3. ~Early BY DEF JoinThreads, Early
<1> QED BY <1>1, <1>2, <1>3, StageKeeps DEF JoinThreads

LEMMA NetShutdownKeeps ==
  ASSUME SockInv, UNCHANGED setup, NetShutdown
  PROVE  SockInv'
<1>1. "joinNet" \in Closing BY DEF Closing
<1>2. pnotify \in BOOLEAN BY DEF SockInv, SockTypes
<1>3. \A id \in Ids : Ended(listeners[id]) BY DEF SockInv, StagesHold, NetShutdown
<1>4. ~Early BY DEF NetShutdown, Early
<1> QED BY <1>1, <1>2, <1>3, <1>4, StageKeeps DEF NetShutdown

\* Entries are closed or go.
Shrinks(id) ==
  \/ sockmap'[id] \in {sockmap[id], NoEntry}
  \/ Exists(id) /\ sockmap'[id] = SocketDisconnect(sockmap[id])

LEMMA ShrunkKeeps ==
  ASSUME SockInv, ~Opening, UNCHANGED <<setup, subs, listeners, reader, connected, nullCall, pnotify>>,
         router' \in [at: Closing, universe: Nat, iface: Nat],
         router'.at \in {"stopNet", "joinNet", "end"} => router.at \in {"stopNet", "joinNet", "end"},
         router.at \notin {"stopServer", "silence"} => router'.at \notin {"stopServer", "silence"},
         sockmap' \in [Ids -> Entry \cup {NoEntry}], \A id \in Ids : Shrinks(id),
         buffer' \in [Ids -> Seq(Addresses)],
         \A id \in Ids : \/ buffer'[id] = buffer[id]
                         \/ buffer'[id] = <<>> /\ ~Open(id)',
         overlaps' \in [Ids -> OverlapStates], WorkersHold'
  PROVE  SockInv'
<1>1. router'.at \notin {"listen", "server", "run"} /\ ~Opening' BY DEF Closing, Opening
<1>2. sockmap \in [Ids -> Entry \cup {NoEntry}] /\ buffer \in [Ids -> Seq(Addresses)] BY InvGives
<1>3. ToSet(<<>>) = {} BY DEF ToSet
<1>4. \A id \in Ids : Exists(id)' <=> sockmap'[id] # NoEntry BY DEF Exists
<1>5. \A id \in Ids : Exists(id)' => /\ Exists(id) /\ sockmap'[id].manual = sockmap[id].manual
                                     /\ sockmap'[id].joined \in {{}, sockmap[id].joined}
                                     /\ sockmap'[id].sublist \in {{}, sockmap[id].sublist}
                                     /\ sockmap'[id].active => sockmap[id].active
  <2> SUFFICES ASSUME NEW id \in Ids, sockmap'[id] # NoEntry
               PROVE  /\ Exists(id) /\ sockmap'[id].manual = sockmap[id].manual
                      /\ sockmap'[id].joined \in {{}, sockmap[id].joined}
                      /\ sockmap'[id].sublist \in {{}, sockmap[id].sublist}
                      /\ sockmap'[id].active => sockmap[id].active
    BY <1>4
  <2>1. CASE sockmap'[id] = sockmap[id]
    <3>1. Exists(id) BY <2>1 DEF Exists
    <3> QED BY <2>1, <3>1
  <2>2. CASE Exists(id) /\ sockmap'[id] = SocketDisconnect(sockmap[id])
    <3>1. sockmap[id] \in Entry BY <1>2, <2>2 DEF Exists
    <3> QED BY <2>2, <3>1, DisconnectedIs
  <2> QED BY <2>1, <2>2 DEF Shrinks
<1>6. \A id \in Ids : Open(id)' <=> Exists(id)' /\ sockmap'[id].active BY DEF Open
<1>7. \A id \in Ids : Open(id)' => Open(id) /\ Exists(id)' BY <1>5, <1>6 DEF Open
<1>8. \A id \in Ids : ToSet(buffer'[id]) \subseteq ToSet(buffer[id]) BY <1>3
<1>9. \A id \in Ids : Len(buffer'[id]) <= QueueBound
  <2> TAKE id \in Ids
  <2>1. Len(buffer[id]) <= QueueBound /\ QueueBound \in Nat BY SocketsAssumption, InvGives
  <2>2. Len(<<>>) = 0 OBVIOUS
  <2> QED BY <2>1, <2>2
<1>10. SockTypes' BY <1>1, <1>9 DEF SockInv, SockTypes
<1>11. IdsBelow' /\ FreshLeft' /\ Progress' BY <1>1 DEF IdsBelow, FreshLeft, Progress
<1>12. JoinedAsked'
  <2>1. \A id \in Ids : Exists(id)' => \A a \in sockmap'[id].joined : <<a, id>> \in subs
    BY <1>5 DEF SockInv, JoinedAsked
  <2> QED BY <2>1 DEF JoinedAsked
<1>13. RoomKept'
  <2>1. Cardinality({}) = 0 /\ IsFiniteSet({}) BY FS_EmptySet
  <2>2. Room \in Nat BY SocketsAssumption
  <2>3. \A id \in Ids : Exists(id)' => IsFiniteSet(sockmap'[id].sublist) /\ Cardinality(sockmap'[id].sublist) <= Room
    <3> SUFFICES ASSUME NEW id \in Ids, Exists(id)'
                 PROVE  IsFiniteSet(sockmap'[id].sublist) /\ Cardinality(sockmap'[id].sublist) <= Room
      OBVIOUS
    <3>1. sockmap'[id].sublist \in {{}, sockmap[id].sublist} /\ Exists(id) BY <1>5
    <3>2. IsFiniteSet(sockmap[id].sublist) /\ Cardinality(sockmap[id].sublist) <= Room
      BY <3>1 DEF SockInv, RoomKept
    <3>3. CASE sockmap'[id].sublist = {}
      <4>1. 0 <= Room BY <2>2
      <4> QED BY <2>1, <3>3, <4>1
    <3>4. CASE sockmap'[id].sublist = sockmap[id].sublist BY <3>2, <3>4
    <3> QED BY <3>1, <3>3, <3>4
  <2> QED BY <2>3 DEF RoomKept
<1>14. ThreadsServe'
  <2>1. \A id \in Ids : listeners[id].pc # "none" /\ Exists(id)' => sockmap'[id].manual
    BY <1>5 DEF SockInv, ThreadsServe
  <2> QED BY <1>1, <2>1 DEF ThreadsServe
<1>15. QueuesAsked'
  <2>1. QueuesAsked BY DEF SockInv
  <2>2. \A a : Asked(a)' <=> Asked(a) BY DEF Asked
  <2>3. \A id \in Ids : Exists(id)' /\ sockmap'[id].manual => \A p \in ToSet(buffer'[id]) : Asked(p)
    BY <1>5, <1>8, <2>1 DEF QueuesAsked
  <2>4. \A id \in Ids : listeners[id].pc \in {"check", "notify"} => Asked(listeners[id].address)
    BY <2>1 DEF QueuesAsked
  <2> QED BY <1>1, <2>2, <2>3, <2>4 DEF QueuesAsked
<1>16. ReaderHolds'
  <2>1. ReaderHolds BY DEF SockInv
  <2>2. reader.ready \subseteq Ids BY InvGives
  <2>3. \A id \in reader.ready : Open(id)' => ~sockmap'[id].manual /\ buffer'[id] # <<>>
    <3> SUFFICES ASSUME NEW id \in reader.ready, Open(id)' PROVE ~sockmap'[id].manual /\ buffer'[id] # <<>>
      OBVIOUS
    <3>1. id \in Ids /\ Open(id) /\ Exists(id)' BY <1>7, <2>2
    <3>2. ~sockmap[id].manual /\ buffer[id] # <<>> BY <2>1, <3>1 DEF ReaderHolds
    <3>3. buffer'[id] = buffer[id] BY <3>1
    <3>4. sockmap'[id].manual = sockmap[id].manual BY <1>5, <3>1
    <3> QED BY <3>2, <3>3, <3>4
  <2>4. ~Select => reader = [pc |-> "idle", ready |-> {}] BY <2>1 DEF ReaderHolds
  <2> QED BY <1>1, <2>3, <2>4 DEF ReaderHolds, Select
<1>17. WorkersHold' OBVIOUS
<1>18. StagesHold'
  <2>1. StagesHold BY DEF SockInv
  <2>2. router'.at \in Closing OBVIOUS
  <2>3. router'.at \in {"stopNet", "joinNet", "end"} => \A id \in Ids : Ended(listeners[id]) BY <2>1 DEF StagesHold
  <2>4. ~pnotify => router'.at \in Closing \ {"stopServer", "silence"} BY <2>1, <2>2 DEF StagesHold
  <2> QED BY <2>3, <2>4 DEF StagesHold, Ended
<1> QED BY <1>10, <1>11, <1>12, <1>13, <1>14, <1>15, <1>16, <1>17, <1>18 DEF SockInv

LEMMA DestroyKeeps ==
  ASSUME SockInv, router.at \in {"stopServer", "stopClient"}, NEW id \in Ids, Exists(id), DestroySocket(id),
         Open(id) \/ overlaps[id] \notin UnderWay,
         UNCHANGED <<setup, subs, listeners, reader, overlaps, router, pnotify, connected, nullCall>>
  PROVE  SockInv'
<1> DEFINE e == sockmap[id]
           f == IF Select \/ ~e.active THEN NoEntry ELSE SocketDisconnect(e)
<1>1. sockmap \in [Ids -> Entry \cup {NoEntry}] /\ buffer \in [Ids -> Seq(Addresses)]
      /\ overlaps \in [Ids -> OverlapStates]
  BY InvGives
<1>2. Exists(id) /\ e \in Entry /\ (Open(id) <=> e.active) BY <1>1 DEF Open, Exists
<1>3. sockmap' = [sockmap EXCEPT ![id] = f] /\ buffer' = [buffer EXCEPT ![id] = <<>>] BY DEF DestroySocket, Destroyed
<1>4. SocketDisconnect(e) \in Entry /\ SocketDisconnect(e).manual = e.manual /\ SocketDisconnect(e).active = FALSE
      /\ SocketDisconnect(e) # NoEntry
  BY <1>2, DisconnectedIs, EntriesAre
<1> HIDE DEF e
<1>5. f \in Entry \cup {NoEntry} BY <1>4
<1>6. f = NoEntry \/ (~Select /\ f = SocketDisconnect(e)) OBVIOUS
<1>7. Select \/ ~e.active => f = NoEntry OBVIOUS
<1> HIDE DEF f
<1>8. sockmap' \in [Ids -> Entry \cup {NoEntry}] /\ sockmap'[id] = f /\ \A i \in Ids : i # id => sockmap'[i] = sockmap[i]
  BY <1>1, <1>3, <1>5
<1>9. <<>> \in Seq(Addresses) OBVIOUS
<1>10. buffer' \in [Ids -> Seq(Addresses)] /\ buffer'[id] = <<>> /\ \A i \in Ids : i # id => buffer'[i] = buffer[i]
  BY <1>1, <1>3, <1>9
<1>11. \A i \in Ids : Shrinks(i)
  <2> TAKE i \in Ids
  <2>1. CASE i # id BY <1>8, <2>1 DEF Shrinks
  <2>2. CASE i = id BY <1>2, <1>6, <1>8, <2>2 DEF Shrinks, e
  <2> QED BY <2>1, <2>2
<1>12. ~Open(id)' BY <1>4, <1>6, <1>8 DEF Open, Exists
<1>13. \A i \in Ids : buffer'[i] = buffer[i] \/ (buffer'[i] = <<>> /\ ~Open(i)') BY <1>10, <1>12
<1>14. WorkersHold'
  <2>1. (Opening' <=> Opening) /\ (Early' <=> Early) /\ (Select' <=> Select) /\ ~Opening BY DEF Opening, Early, Select
  <2>2. ASSUME NEW i \in Ids PROVE OverlapFits(i)' /\ (Early' \/ ServerLeft(i)')
    <3>1. OverlapFits(i) /\ (Early \/ ServerLeft(i)) BY DEF SockInv, WorkersHold
    <3>2. (Exists(i)' <=> sockmap'[i] # NoEntry) /\ (Open(i)' <=> sockmap'[i] # NoEntry /\ sockmap'[i].active)
      BY DEF Exists, Open
    <3>3. CASE i # id
      <4>1. sockmap'[i] = sockmap[i] BY <1>8, <3>3
      <4> QED BY <2>1, <3>1, <3>2, <4>1 DEF OverlapFits, ServerLeft, Exists, Open
    <3>4. CASE i = id /\ f = NoEntry
      <4>1. overlaps[id] \notin UnderWay
        <5>1. CASE Select BY <3>1, <3>4, <5>1 DEF OverlapFits, UnderWay
        <5>2. CASE ~Select BY <1>2, <1>4, <1>7, <3>4, <5>2 DEF f
        <5> QED BY <5>1, <5>2
      <4> QED BY <1>8, <2>1, <3>1, <3>2, <3>4, <4>1 DEF OverlapFits, ServerLeft
    <3>5. CASE i = id /\ f # NoEntry
      <4>1. ~Select /\ e.active /\ f = SocketDisconnect(e) BY <1>6, <1>7, <3>5
      <4>2. Open(id) /\ sockmap[id].manual = e.manual BY <1>2, <4>1 DEF e
      <4>3. sockmap'[id].manual = e.manual /\ ~Open(id)' /\ Exists(id)' BY <1>4, <1>8, <1>12, <3>2, <3>5, <4>1
      <4> QED BY <1>2, <2>1, <3>1, <3>5, <4>1, <4>2, <4>3 DEF OverlapFits, ServerLeft
    <3> QED BY <3>3, <3>4, <3>5
  <2> QED BY <2>2 DEF WorkersHold
<1>15. router' \in [at: Closing, universe: Nat, iface: Nat]
  <2>1. router \in [at: {"listen", "server", "run"} \cup Closing, universe: Nat, iface: Nat] BY DEF SockInv, SockTypes
  <2>2. router.at \in Closing BY DEF Closing
  <2> QED BY <2>1, <2>2
<1>16. ~Opening BY DEF Opening
<1> QED BY <1>1, <1>8, <1>10, <1>11, <1>13, <1>14, <1>15, <1>16, ShrunkKeeps

LEMMA ServerShutdownKeeps ==
  ASSUME SockInv, UNCHANGED setup, ServerShutdown
  PROVE  SockInv'
<1> DEFINE left == {id \in Ids : Exists(id) /\ ~sockmap[id].manual /\ (Open(id) \/ overlaps[id] = "failed")}
<1>1. router.at = "stopServer" /\ UNCHANGED <<subs, listeners, reader, overlaps, pnotify, connected, nullCall>>
  BY DEF ServerShutdown
<1>2. CASE left # {}
  <2>1. left \subseteq Nat BY IdsAreNumbers
  <2>2. Min(left) \in left BY <1>2, <2>1, SmallestIs
  <2>3. DestroySocket(Min(left)) /\ UNCHANGED router BY <1>2 DEF ServerShutdown
  <2>4. Open(Min(left)) \/ overlaps[Min(left)] \notin UnderWay BY <2>2 DEF UnderWay
  <2> QED BY <1>1, <2>2, <2>3, <2>4, DestroyKeeps
<1>3. CASE left = {}
  <2>1. router' = [router EXCEPT !.at = "silence"] /\ UNCHANGED <<sockmap, buffer>> BY <1>3 DEF ServerShutdown
  <2>2. "silence" \in Closing BY DEF Closing
  <2>3. pnotify /\ pnotify \in BOOLEAN BY <1>1 DEF SockInv, StagesHold, SockTypes
  <2>4. \A id \in Ids : ServerLeft(id) BY <1>3 DEF ServerLeft
  <2> QED BY <1>1, <2>1, <2>2, <2>3, <2>4, StageKeeps
<1> QED BY <1>2, <1>3

LEMMA ClientShutdownKeeps ==
  ASSUME SockInv, UNCHANGED setup, ClientShutdown
  PROVE  SockInv'
<1> DEFINE left == {id \in Ids : Open(id) /\ sockmap[id].manual}
<1>1. router.at = "stopClient" /\ UNCHANGED <<subs, listeners, reader, overlaps, pnotify, connected, nullCall>>
  BY DEF ClientShutdown
<1>2. CASE left # {}
  <2>1. left \subseteq Nat BY IdsAreNumbers
  <2>2. Min(left) \in left BY <1>2, <2>1, SmallestIs
  <2>3. DestroySocket(Min(left)) /\ UNCHANGED router BY <1>2 DEF ClientShutdown
  <2>4. Open(Min(left)) /\ Exists(Min(left)) BY <2>2 DEF Open
  <2> QED BY <1>1, <2>2, <2>3, <2>4, DestroyKeeps
<1>3. CASE left = {}
  <2>1. router' = [router EXCEPT !.at = "join"] /\ UNCHANGED <<sockmap, buffer>> BY <1>3 DEF ClientShutdown
  <2>2. "join" \in Closing BY DEF Closing
  <2>3. pnotify \in BOOLEAN BY DEF SockInv, SockTypes
  <2>4. ~Early BY <1>1 DEF Early
  <2> QED BY <1>1, <2>1, <2>2, <2>3, <2>4, StageKeeps
<1> QED BY <1>2, <1>3

\* A worker thread deletes the entry of a socket that is closed.
LEMMA ClosedReadEnds ==
  ASSUME SockInv, NEW id \in Ids, overlaps[id] \in UnderWay, ~Open(id), ReadEnded(id),
         UNCHANGED <<setup, subs, listeners, reader, router, pnotify, connected, nullCall>>
  PROVE  SockInv'
<1>1. sockmap \in [Ids -> Entry \cup {NoEntry}] /\ buffer \in [Ids -> Seq(Addresses)]
      /\ overlaps \in [Ids -> OverlapStates]
  BY InvGives
<1>2. \A i \in Ids : OverlapFits(i) /\ (Early \/ ServerLeft(i)) BY DEF SockInv, WorkersHold
<1>3. Exists(id) /\ ~Opening /\ ~Select BY <1>2 DEF OverlapFits, UnderWay
<1>4. ~sockmap[id].active BY <1>3 DEF Open
<1>5. sockmap' = [sockmap EXCEPT ![id] = NoEntry] BY <1>1, <1>3, <1>4 DEF ReadEnded, DetectedClose, Exists
<1>6. sockmap' \in [Ids -> Entry \cup {NoEntry}] /\ sockmap'[id] = NoEntry
      /\ \A i \in Ids : i # id => sockmap'[i] = sockmap[i]
  BY <1>1, <1>5
<1>7. \A i \in Ids : Shrinks(i) BY <1>6 DEF Shrinks
<1>8. overlaps' = [overlaps EXCEPT ![id] = "ended"] /\ buffer' = [buffer EXCEPT ![id] = <<>>] BY DEF ReadEnded
<1>9. overlaps' \in [Ids -> OverlapStates] /\ overlaps'[id] = "ended"
      /\ \A i \in Ids : i # id => overlaps'[i] = overlaps[i]
  BY <1>1, <1>8 DEF OverlapStates
<1>10. <<>> \in Seq(Addresses) OBVIOUS
<1>11. buffer' \in [Ids -> Seq(Addresses)] /\ buffer'[id] = <<>> /\ \A i \in Ids : i # id => buffer'[i] = buffer[i]
  BY <1>1, <1>8, <1>10
<1>12. \A i \in Ids : (Exists(i)' <=> sockmap'[i] # NoEntry) /\ (Open(i)' <=> sockmap'[i] # NoEntry /\ sockmap'[i].active)
  BY DEF Exists, Open
<1>13. \A i \in Ids : buffer'[i] = buffer[i] \/ (buffer'[i] = <<>> /\ ~Open(i)') BY <1>6, <1>11, <1>12
<1>14. WorkersHold'
  <2>1. (Opening' <=> Opening) /\ (Early' <=> Early) /\ (Select' <=> Select) BY DEF Opening, Early, Select
  <2>2. ASSUME NEW i \in Ids PROVE OverlapFits(i)' /\ (Early' \/ ServerLeft(i)')
    <3>1. CASE i = id BY <1>3, <1>6, <1>9, <1>12, <2>1, <3>1 DEF OverlapFits, ServerLeft, UnderWay
    <3>2. CASE i # id
      <4>1. sockmap'[i] = sockmap[i] /\ overlaps'[i] = overlaps[i] BY <1>6, <1>9, <3>2
      <4> QED BY <1>2, <1>12, <2>1, <4>1 DEF OverlapFits, ServerLeft, Exists, Open
    <3> QED BY <3>1, <3>2
  <2> QED BY <2>2 DEF WorkersHold
<1>15. router' \in [at: Closing, universe: Nat, iface: Nat]
  <2>1. router \in [at: {"listen", "server", "run"} \cup Closing, universe: Nat, iface: Nat] BY DEF SockInv, SockTypes
  <2>2. router.at \in Closing BY <1>3, <2>1 DEF Opening
  <2> QED BY <2>1, <2>2
<1> QED BY <1>1, <1>3, <1>6, <1>7, <1>9, <1>11, <1>13, <1>14, <1>15, ShrunkKeeps

\* A worker thread closes a socket that has gone bad.
LEMMA OpenReadEnds ==
  ASSUME SockInv, NEW id \in Ids, overlaps[id] \in UnderWay, Open(id), ReadEnded(id),
         UNCHANGED <<setup, subs, listeners, reader, router, pnotify, connected, nullCall>>
  PROVE  SockInv'
<1> DEFINE e == sockmap[id]
           g == [e EXCEPT !.active = FALSE]
<1>1. sockmap \in [Ids -> Entry \cup {NoEntry}] /\ buffer \in [Ids -> Seq(Addresses)]
      /\ overlaps \in [Ids -> OverlapStates]
  BY InvGives
<1>2. \A i \in Ids : OverlapFits(i) /\ (Early \/ ServerLeft(i)) BY DEF SockInv, WorkersHold
<1>3. Exists(id) /\ e \in Entry /\ e.active BY <1>1 DEF Open, Exists
<1>4. ~e.manual /\ ~Select /\ Early
  <2>1. ~e.manual /\ ~Select BY <1>2, <1>3 DEF OverlapFits, UnderWay
  <2> QED BY <1>2, <1>3, <2>1 DEF ServerLeft
<1>5. sockmap' = [sockmap EXCEPT ![id] = g] BY <1>1, <1>3 DEF ReadEnded, DetectedClose, Exists
<1>6. g \in Entry /\ g.manual = e.manual /\ g.active = FALSE /\ g.sublist = e.sublist /\ g.joined = e.joined /\ g # NoEntry
  <2>1. g \in Entry /\ g.manual = e.manual /\ g.active = FALSE /\ g.sublist = e.sublist /\ g.joined = e.joined
    BY <1>3 DEF Entry
  <2> QED BY <2>1, EntriesAre
<1>7. overlaps' = [overlaps EXCEPT ![id] = "failed"] /\ buffer' = [buffer EXCEPT ![id] = <<>>] BY DEF ReadEnded
<1> HIDE DEF g
<1>8. sockmap' \in [Ids -> Entry \cup {NoEntry}] /\ sockmap'[id] = g /\ \A i \in Ids : i # id => sockmap'[i] = sockmap[i]
  BY <1>1, <1>5, <1>6
<1>9. overlaps' \in [Ids -> OverlapStates] /\ overlaps'[id] = "failed"
      /\ \A i \in Ids : i # id => overlaps'[i] = overlaps[i]
  BY <1>1, <1>7 DEF OverlapStates
<1>10. <<>> \in Seq(Addresses) OBVIOUS
<1>11. buffer' \in [Ids -> Seq(Addresses)] /\ buffer'[id] = <<>> /\ \A i \in Ids : i # id => buffer'[i] = buffer[i]
  BY <1>1, <1>7, <1>10
<1>12. \A i \in Ids : (Exists(i)' <=> sockmap'[i] # NoEntry) /\ (Open(i)' <=> sockmap'[i] # NoEntry /\ sockmap'[i].active)
  BY DEF Exists, Open
<1>13. \A i \in Ids : (Exists(i)' <=> Exists(i)) /\ (Open(i)' <=> Open(i) /\ i # id)
  <2> TAKE i \in Ids
  <2>1. CASE i = id BY <1>3, <1>6, <1>8, <1>12, <2>1
  <2>2. CASE i # id BY <1>8, <1>12, <2>2 DEF Exists, Open
  <2> QED BY <2>1, <2>2
<1>14. \A i \in Ids : /\ sockmap'[i].manual = sockmap[i].manual /\ sockmap'[i].sublist = sockmap[i].sublist
                      /\ sockmap'[i].joined = sockmap[i].joined
  <2> TAKE i \in Ids
  <2>1. CASE i = id BY <1>6, <1>8, <2>1 DEF e
  <2>2. CASE i # id BY <1>8, <2>2
  <2> QED BY <2>1, <2>2
<1>15. (Opening' <=> Opening) /\ Early' /\ ~Select' BY <1>4 DEF Opening, Early, Select
<1>16. ToSet(<<>>) = {} /\ Len(<<>>) = 0 BY DEF ToSet
<1>17. \A i \in Ids : ToSet(buffer'[i]) \subseteq ToSet(buffer[i]) BY <1>11, <1>16
<1>18. \A i \in Ids : Len(buffer'[i]) <= QueueBound
  <2> TAKE i \in Ids
  <2>1. CASE i = id BY <1>11, <1>16, <2>1, SocketsAssumption
  <2>2. CASE i # id BY <1>11, <2>2, InvGives
  <2> QED BY <2>1, <2>2
<1>19. SockTypes' BY <1>8, <1>9, <1>11, <1>18 DEF SockInv, SockTypes, Targets
<1>20. IdsBelow' BY <1>13 DEF SockInv, IdsBelow, Made, Targets
<1>21. FreshLeft' BY DEF SockInv, FreshLeft, Before, Targets
<1>22. JoinedAsked' BY <1>13, <1>14 DEF SockInv, JoinedAsked
<1>23. RoomKept' BY <1>13, <1>14 DEF SockInv, RoomKept
<1>24. ThreadsServe'
  <2>1. ThreadsServe BY DEF SockInv
  <2>2. \A i \in Ids : listeners[i].pc # "none" /\ Exists(i)' => sockmap'[i].manual BY <1>13, <1>14, <2>1 DEF ThreadsServe
  <2>3. Opening => \A i \in Ids : Open(i)' /\ sockmap'[i].manual => Serving(listeners[i])
    BY <1>13, <1>14, <2>1 DEF ThreadsServe
  <2>4. Opening => \A s \in subs : Open(s[2])' /\ sockmap'[s[2]].manual
    <3> SUFFICES ASSUME Opening, NEW s \in subs PROVE Open(s[2])' /\ sockmap'[s[2]].manual OBVIOUS
    <3> DEFINE o == s[2]
    <3>1. o \in Ids BY DEF SockInv, SockTypes
    <3>2. Open(o) /\ sockmap[o].manual BY <2>1 DEF ThreadsServe
    <3> HIDE DEF o
    <3>3. Open(o)' /\ sockmap'[o].manual BY <1>4, <1>13, <1>14, <3>1, <3>2 DEF e
    <3> QED BY <3>3 DEF o
  <2>5. Opening => \A i \in Ids : listeners[i].pc # "none" => Open(i)'
    <3> SUFFICES ASSUME Opening, NEW i \in Ids, listeners[i].pc # "none" PROVE Open(i)' OBVIOUS
    <3>1. Open(i) BY <2>1 DEF ThreadsServe
    <3>2. sockmap[i].manual BY <2>1, <3>1 DEF ThreadsServe, Open
    <3> QED BY <1>4, <1>13, <3>1, <3>2 DEF e
  <2>6. \A i \in Ids : Serving(listeners[i])' <=> Serving(listeners[i]) BY DEF Serving
  <2> QED BY <1>15, <2>2, <2>3, <2>4, <2>5, <2>6 DEF ThreadsServe
<1>25. QueuesAsked'
  <2>1. QueuesAsked BY DEF SockInv
  <2>2. \A a : Asked(a)' <=> Asked(a) BY DEF Asked
  <2>3. \A i \in Ids : Exists(i)' /\ sockmap'[i].manual => \A p \in ToSet(buffer'[i]) : Asked(p)
    BY <1>13, <1>14, <1>17, <2>1 DEF QueuesAsked
  <2>4. Opening => \A i \in Ids : ~Exists(i)' => buffer'[i] = <<>> BY <1>11, <1>13, <2>1 DEF QueuesAsked
  <2>5. \A i \in Ids : listeners[i].pc \in {"check", "notify"} => Asked(listeners[i].address) BY <2>1 DEF QueuesAsked
  <2> QED BY <1>15, <2>2, <2>3, <2>4, <2>5 DEF QueuesAsked
<1>26. ReaderHolds'
  <2>1. reader = [pc |-> "idle", ready |-> {}] BY <1>4, InvGives
  <2>2. reader.ready = {} BY <2>1
  <2> QED BY <2>1, <2>2 DEF ReaderHolds
<1>27. WorkersHold'
  <2>1. ASSUME NEW i \in Ids PROVE OverlapFits(i)'
    <3>1. CASE i = id
      <4>1. overlaps'[i] = "failed" /\ overlaps'[i] \notin UnderWay BY <1>9, <3>1 DEF UnderWay
      <4>2. Exists(i)' /\ ~Open(i)' /\ ~sockmap'[i].manual BY <1>3, <1>4, <1>13, <1>14, <3>1
      <4>3. (OverlapFits(i))' <=>
              /\ overlaps'[i] \in UnderWay => Exists(i)' /\ (Opening' => Open(i)')
              /\ Exists(i)' /\ overlaps'[i] # "none" => ~sockmap'[i].manual
              /\ Exists(i)' /\ ~sockmap'[i].manual /\ ~Select' /\ overlaps'[i] \notin UnderWay =>
                   overlaps'[i] = "lost" \/ (~Open(i)' /\ overlaps'[i] \in {"none", "failed"})
              /\ Opening' /\ ~Exists(i)' => overlaps'[i] = "none"
              /\ Select' => overlaps'[i] = "none"
        BY DEF OverlapFits, UnderWay
      <4> HIDE DEF e
      <4> QED BY <1>15, <4>1, <4>2, <4>3
    <3>2. CASE i # id
      <4>1. overlaps'[i] = overlaps[i] BY <1>9, <3>2
      <4> QED BY <1>2, <1>4, <1>13, <1>14, <1>15, <3>2, <4>1 DEF OverlapFits
    <3> QED BY <3>1, <3>2
  <2> QED BY <1>15, <2>1 DEF WorkersHold
<1>28. StagesHold' BY DEF SockInv, StagesHold, Ended
<1>29. Progress'
  <2>1. \A a : Held(a)' <=> Held(a) BY <1>13, <1>14 DEF Held
  <2>2. \A n : Settled(n)' <=> Settled(n) BY <2>1 DEF Settled
  <2> QED BY <2>1, <2>2 DEF SockInv, Progress, Targets
<1> QED BY <1>19, <1>20, <1>21, <1>22, <1>23, <1>24, <1>25, <1>26, <1>27, <1>28, <1>29 DEF SockInv

LEMMA ReadEndedKeeps ==
  ASSUME SockInv, NEW id \in Ids, overlaps[id] \in UnderWay, ReadEnded(id),
         UNCHANGED <<setup, subs, listeners, reader, router, pnotify, connected, nullCall>>
  PROVE  SockInv'
BY ClosedReadEnds, OpenReadEnds

LEMMA WorkerFailsKeeps ==
  ASSUME SockInv, UNCHANGED setup, NEW id \in Ids, WorkerFails(id) \/ ReadFails(id)
  PROVE  SockInv'
BY ReadEndedKeeps DEF WorkerFails, ReadFails, UnderWay

LEMMA WorkerReceivesKeeps ==
  ASSUME SockInv, UNCHANGED setup, NEW id \in Ids, WorkerReceives(id)
  PROVE  SockInv'
<1>1. overlaps[id] \in UnderWay /\ UNCHANGED <<setup, subs, listeners, reader, router, pnotify, connected, nullCall>>
  BY DEF WorkerReceives, UnderWay
<1>2. CASE ReadEnded(id) BY <1>1, <1>2, ReadEndedKeeps
<1>3. CASE ~ReadEnded(id)
  <2>1. PICK o \in {"pending", "lost"} : overlaps' = [overlaps EXCEPT ![id] = o] /\ UNCHANGED <<sockmap, buffer>>
    BY <1>3 DEF WorkerReceives
  <2>2. overlaps \in [Ids -> OverlapStates] BY InvGives
  <2>3. overlaps' \in [Ids -> OverlapStates]
        /\ \A i \in Ids : overlaps'[i] = overlaps[i] \/ (overlaps[i] \in UnderWay /\ overlaps'[i] \in UnderWay \cup {"lost"})
    BY <1>1, <2>1, <2>2 DEF OverlapStates, UnderWay
  <2> QED BY <1>1, <2>1, <2>3, InvGives, PacketsMove
<1> QED BY <1>2, <1>3

LEMMA NetEndKeeps ==
  ASSUME SockInv, UNCHANGED setup, NetEnd
  PROVE  SockInv'
<1>1. /\ router.at = "joinNet" /\ sockmap' = [id \in Ids |-> NoEntry] /\ router' = [router EXCEPT !.at = "end"]
      /\ UNCHANGED <<buffer, subs, listeners, reader, overlaps, pnotify, connected, nullCall>>
      /\ ~Select => \A id \in Ids : overlaps[id] \notin UnderWay
  BY DEF NetEnd
<1>2. sockmap' \in [Ids -> Entry \cup {NoEntry}] /\ \A id \in Ids : sockmap'[id] = NoEntry BY <1>1
<1>3. \A id \in Ids : Shrinks(id) BY <1>2 DEF Shrinks
<1>4. overlaps \in [Ids -> OverlapStates] /\ buffer \in [Ids -> Seq(Addresses)] BY InvGives
<1>5. router' \in [at: Closing, universe: Nat, iface: Nat] /\ router'.at = "end"
  <2>1. router \in [at: {"listen", "server", "run"} \cup Closing, universe: Nat, iface: Nat] BY DEF SockInv, SockTypes
  <2>2. "end" \in Closing BY DEF Closing
  <2> QED BY <1>1, <2>1, <2>2
<1>6. ~Opening /\ ~Opening' BY <1>1, <1>5 DEF Opening
<1>7. WorkersHold'
  <2>1. ASSUME NEW id \in Ids PROVE OverlapFits(id)' /\ ServerLeft(id)'
    <3>1. ~Exists(id)' BY <1>2 DEF Exists
    <3>2. Select => overlaps[id] = "none" BY DEF SockInv, WorkersHold, OverlapFits
    <3>3. overlaps[id] \notin UnderWay BY <1>1, <3>2 DEF UnderWay
    <3>4. (Select' <=> Select) /\ overlaps' = overlaps BY <1>1 DEF Select
    <3> QED BY <1>6, <3>1, <3>2, <3>3, <3>4 DEF OverlapFits, ServerLeft
  <2> QED BY <2>1 DEF WorkersHold
<1> QED BY <1>1, <1>2, <1>3, <1>4, <1>5, <1>6, <1>7, ShrunkKeeps

-----------------------------------------------------------------------------
(* The client listens, and the server starts.                              *)

\* RouterThread goes on to the next socket.
LEMMA NextIs ==
  ASSUME SockTypes, router.at = "listen", UNCHANGED setup, NEW last \in BOOLEAN, last \/ router.iface # Len(Targets),
         router' = IF last THEN NextUniverse ELSE [router EXCEPT !.iface = @ + 1]
  PROVE  /\ router' \in [at: {"listen", "server"}, universe: Nat, iface: Nat]
         /\ router'.at = "listen" => router'.universe \in DOMAIN setup.universes /\ router'.iface \in DOMAIN Targets
         /\ router'.at = "server" => router'.iface \in DOMAIN setup.ifaces
         /\ ~last => /\ router'.at = "listen" /\ router'.universe = router.universe
                     /\ router'.iface = router.iface + 1
         /\ last => \/ /\ router'.at = "listen" /\ router'.universe = router.universe + 1 /\ router'.iface = 1
                    \/ router'.at = "server" /\ router.universe = Len(setup.universes)
         /\ Made(router') \in Nat /\ Made(router') > Made(router)
<1> DEFINE U == Len(setup.universes)
           T == Len(Targets)
           F == Len(setup.ifaces)
           u == router.universe
           k == router.iface
<1>1. U \in Nat \ {0} /\ T \in Nat \ {0} /\ F \in Nat \ {0}
      /\ DOMAIN setup.universes = 1..U /\ DOMAIN Targets = 1..T /\ DOMAIN setup.ifaces = 1..F
  BY SetupFacts DEF SockTypes
<1>2. u \in DOMAIN setup.universes /\ k \in DOMAIN Targets BY DEF SockTypes
<1>3. router \in [at: {"listen", "server", "run"} \cup Closing, universe: Nat, iface: Nat] BY DEF SockTypes
<1>4. Made(router) = (u - 1) * T + k - 1 BY DEF Made
<1>5. \A r : /\ r.at = "listen" => Made(r) = (r.universe - 1) * T + r.iface - 1
             /\ r.at = "server" => Made(r) = U * T + r.iface - 1
  BY DEF Made
<1>6. \A t \in Nat \ {0} : \A v \in Nat \ {0} : \A i \in 1..t :
        /\ (v - 1) * t + i - 1 \in Nat /\ v * t + 1 - 1 \in Nat
        /\ v * t + 1 - 1 > (v - 1) * t + i - 1
        /\ (v - 1) * t + (i + 1) - 1 > (v - 1) * t + i - 1
  <2> SUFFICES ASSUME NEW t \in Nat \ {0}, NEW v \in Nat \ {0}, NEW i \in 1..t
               PROVE  /\ (v - 1) * t + i - 1 \in Nat /\ v * t + 1 - 1 \in Nat
                      /\ v * t + 1 - 1 > (v - 1) * t + i - 1
                      /\ (v - 1) * t + (i + 1) - 1 > (v - 1) * t + i - 1
    OBVIOUS
  <2>1. (v - 1) * t \in Nat /\ v * t = (v - 1) * t + t OBVIOUS
  <2> QED BY <2>1
<1>7. \A t \in Nat, v \in Nat, i \in Nat : (v + 1 - 1) * t + i - 1 = v * t + i - 1 OBVIOUS
<1> DEFINE Places == [at: {"listen", "server", "run"} \cup Closing, universe: Nat, iface: Nat]
<1>11. \A r \in Places : LET n == [r EXCEPT !.universe = @ + 1, !.iface = 1]
                         IN n \in Places /\ n.at = r.at /\ n.universe = r.universe + 1 /\ n.iface = 1
  <2> SUFFICES ASSUME NEW r \in Places
               PROVE  LET n == [r EXCEPT !.universe = @ + 1, !.iface = 1]
                      IN n \in Places /\ n.at = r.at /\ n.universe = r.universe + 1 /\ n.iface = 1
    OBVIOUS
  <2> DEFINE v == r.universe + 1
             n == [r EXCEPT !.universe = v, !.iface = 1]
  <2>1. v \in Nat OBVIOUS
  <2> HIDE DEF v
  <2>2. n \in Places BY <2>1
  <2>3. n.at = r.at /\ n.universe = v /\ n.iface = 1 OBVIOUS
  <2> QED BY <2>2, <2>3 DEF v
<1>12. \A r \in Places : LET n == [r EXCEPT !.at = "server", !.iface = 1]
                         IN n \in Places /\ n.at = "server" /\ n.universe = r.universe /\ n.iface = 1
  OBVIOUS
<1> HIDE DEF U, T, F
<1>8. CASE ~last
  <2>1. router' = [router EXCEPT !.iface = @ + 1] BY <1>8
  <2>2. router' \in [at: {"listen"}, universe: Nat, iface: Nat] /\ router'.at = "listen" /\ router'.universe = u
        /\ router'.iface = k + 1
    BY <1>3, <2>1
  <2>3. k # T BY <1>8 DEF T
  <2>4. u \in Nat \ {0} /\ k \in 1..T /\ k + 1 \in 1..T BY <1>1, <1>2, <2>3
  <2>5. Made(router') = (u - 1) * T + (k + 1) - 1 BY <1>5, <2>2
  <2>6. Made(router') \in Nat /\ Made(router') > Made(router)
    <3> HIDE DEF u, k
    <3>1. (u - 1) * T + k - 1 \in Nat BY <1>1, <1>6, <2>4
    <3>2. (u - 1) * T + (k + 1) - 1 > (u - 1) * T + k - 1 BY <1>1, <1>6, <2>4
    <3>3. (u - 1) * T + (k + 1) - 1 \in Nat
      <4>1. (u - 1) * T \in Nat BY <1>1, <2>4
      <4> QED BY <2>4, <4>1
    <3> QED BY <1>4, <2>5, <3>2, <3>3 DEF u, k
  <2> QED BY <1>1, <1>2, <1>8, <2>2, <2>4, <2>6
<1>9. CASE last /\ u < U
  <2>1. router' = [router EXCEPT !.universe = @ + 1, !.iface = 1] BY <1>9 DEF NextUniverse, U
  <2>2. router' \in [at: {"listen"}, universe: Nat, iface: Nat] /\ router'.at = "listen" /\ router'.universe = u + 1
        /\ router'.iface = 1
    BY <1>3, <1>11, <2>1
  <2>3. u \in Nat \ {0} /\ k \in 1..T /\ u + 1 \in 1..U /\ 1 \in 1..T BY <1>1, <1>2, <1>9
  <2>4. Made(router') = (u + 1 - 1) * T + 1 - 1
    <3>1. Made(router') = (router'.universe - 1) * T + router'.iface - 1 BY <1>5, <2>2
    <3> HIDE DEF u
    <3> QED BY <2>2, <2>3, <3>1
  <2>5. Made(router') \in Nat /\ Made(router') > Made(router)
    <3> HIDE DEF u, k
    <3>1. Made(router') = u * T + 1 - 1 BY <1>1, <1>7, <2>3, <2>4
    <3>2. u * T + 1 - 1 \in Nat /\ u * T + 1 - 1 > (u - 1) * T + k - 1 BY <1>1, <1>6, <2>3
    <3> QED BY <1>4, <3>1, <3>2 DEF u, k
  <2> QED BY <1>1, <1>9, <2>2, <2>3, <2>5
<1>10. CASE last /\ ~(u < U)
  <2>1. router' = [router EXCEPT !.at = "server", !.iface = 1] BY <1>10 DEF NextUniverse, U
  <2>2. router' \in [at: {"server"}, universe: Nat, iface: Nat] /\ router'.at = "server" /\ router'.iface = 1
    BY <1>3, <1>12, <2>1
  <2>3. u \in Nat \ {0} /\ k \in 1..T /\ u = U /\ 1 \in 1..F BY <1>1, <1>2, <1>10
  <2>4. Made(router') = u * T + 1 - 1 BY <1>5, <2>2, <2>3
  <2>5. Made(router') \in Nat /\ Made(router') > Made(router)
    <3> HIDE DEF u, k
    <3>1. u * T + 1 - 1 \in Nat /\ u * T + 1 - 1 > (u - 1) * T + k - 1 BY <1>1, <1>6, <2>3
    <3> QED BY <1>4, <2>4, <3>1 DEF u, k
  <2>6. router.universe = Len(setup.universes) BY <2>3 DEF U
  <2> QED BY <1>1, <1>10, <2>2, <2>3, <2>5, <2>6
<1> QED BY <1>8, <1>9, <1>10

\* Where the attempt has left the map.
LEMMA AttemptLeaves ==
  ASSUME SockInv, router.at = "listen", NEW x \in Attempts(Current)
  PROVE  LET m == x.map
         IN /\ \A id \in Ids : Exists(id) =>
                 /\ m[id] # NoEntry /\ m[id].manual = sockmap[id].manual /\ m[id].active = sockmap[id].active
                 /\ sockmap[id].joined \subseteq m[id].joined
            /\ \A id \in Ids : m[id] # NoEntry =>
                 /\ \/ Exists(id)
                    \/ id = x.id /\ id <= Made(router) /\ m[id].manual /\ (m[id].active => x.spawned)
                 /\ \A a \in m[id].joined : \/ Exists(id) /\ a \in sockmap[id].joined
                                            \/ x.ok /\ id = x.id /\ a = Current
                 /\ IsFiniteSet(m[id].sublist) /\ Cardinality(m[id].sublist) <= Room
            /\ x.spawned => ~Exists(x.id)
            /\ x.spawned \/ x.ok => m[x.id] # NoEntry /\ m[x.id].active /\ m[x.id].manual
            /\ x.ok => Current \in m[x.id].joined
<1> DEFINE m == x.map
           i == x.id
           e == sockmap[i]
           c == Current
<1>1. /\ i \in Ids /\ x.ok \in BOOLEAN /\ x.spawned \in BOOLEAN /\ m \in [Ids -> Entry \cup {NoEntry}]
      /\ \A id \in Ids : id # i => m[id] = sockmap[id]
      /\ Grown(x, c) \/ (sockmap[i] = NoEntry /\ i <= Made(router) /\ (Spawned(x, c) \/ Failed(x, c)))
  BY AttemptIs DEF SockInv
<1>2. sockmap \in [Ids -> Entry \cup {NoEntry}] BY InvGives
<1>3. c \in Addresses
  <2>1. router.universe \in DOMAIN setup.universes /\ router.iface \in DOMAIN Targets /\ setup \in Setups
    BY DEF SockInv, SockTypes
  <2> QED BY <2>1, SetupFacts DEF Current
<1>4. \A id \in Ids : Exists(id) => IsFiniteSet(sockmap[id].sublist) /\ Cardinality(sockmap[id].sublist) <= Room
  BY DEF SockInv, RoomKept
<1>5. Room \in Nat \ {0} BY SocketsAssumption
<1> HIDE DEF c
<1>6. CASE Grown(x, c)
  <2>1. Open(i) /\ e.manual /\ ~x.spawned /\ (Cardinality(e.sublist) < Room \/ c \in e.sublist)
        /\ m[i] = SubscribedEntry(e, c, x.ok)
    BY <1>6 DEF Grown
  <2>2. Exists(i) /\ e.active /\ e \in Entry BY <1>1, <1>2, <2>1 DEF Open, Exists
  <2>3. /\ m[i] \in Entry /\ m[i].manual = e.manual /\ m[i].active = e.active /\ m[i].sublist = e.sublist \cup {c}
        /\ m[i].joined = IF x.ok THEN e.joined \cup {c} ELSE e.joined
    <3> DEFINE ok == x.ok
               f == SubscribedEntry(e, c, ok)
    <3>1. m[i] = f BY <2>1
    <3>2. e \in Entry /\ ok \in BOOLEAN BY <1>1, <2>2
    <3> HIDE DEF e, m, i, ok
    <3>3. /\ f \in Entry /\ f.manual = e.manual /\ f.active = e.active /\ f.sublist = e.sublist \cup {c}
          /\ f.joined = IF ok THEN e.joined \cup {c} ELSE e.joined
      BY <1>3, <3>2, SubscribedEntryIs
    <3> HIDE DEF f
    <3> QED BY <3>1, <3>3 DEF ok
  <2>4. m[i] # NoEntry BY <2>3, EntriesAre
  <2>5. IsFiniteSet(m[i].sublist) /\ Cardinality(m[i].sublist) <= Room
    <3>1. IsFiniteSet(e.sublist) /\ Cardinality(e.sublist) <= Room BY <1>1, <1>4, <2>2
    <3> DEFINE l == e.sublist
    <3>2. m[i].sublist = l \cup {c} /\ (Cardinality(l) < Room \/ c \in l) BY <2>1, <2>3
    <3> HIDE DEF l, e, m, i
    <3>3. IsFiniteSet(l) /\ Cardinality(l) <= Room /\ Cardinality(l) \in Nat BY <3>1, FS_CardinalityType DEF l
    <3>4. CASE c \in l
      <4>1. l \cup {c} = l BY <3>4
      <4> QED BY <3>2, <3>3, <4>1
    <3>5. CASE c \notin l
      <4>1. IsFiniteSet(l \cup {c}) /\ Cardinality(l \cup {c}) = Cardinality(l) + 1 BY <3>3, <3>5, FS_AddElement
      <4>2. Cardinality(l) + 1 <= Room BY <1>5, <3>2, <3>3, <3>5
      <4> QED BY <3>2, <4>1, <4>2
    <3> QED BY <3>4, <3>5
  <2>6. \A a \in m[i].joined : a \in e.joined \/ (x.ok /\ a = c) BY <2>3
  <2>7. e.joined \subseteq m[i].joined /\ (x.ok => c \in m[i].joined) BY <2>3
  <2> HIDE DEF m
  <2>8. \A id \in Ids : Exists(id) =>
          /\ m[id] # NoEntry /\ m[id].manual = sockmap[id].manual /\ m[id].active = sockmap[id].active
          /\ sockmap[id].joined \subseteq m[id].joined
    <3> SUFFICES ASSUME NEW id \in Ids, Exists(id)
                 PROVE  /\ m[id] # NoEntry /\ m[id].manual = sockmap[id].manual /\ m[id].active = sockmap[id].active
                        /\ sockmap[id].joined \subseteq m[id].joined
      OBVIOUS
    <3>1. CASE id # i BY <1>1, <3>1 DEF Exists
    <3>2. CASE id = i BY <2>3, <2>4, <2>7, <3>2
    <3> QED BY <3>1, <3>2
  <2>9. \A id \in Ids : m[id] # NoEntry =>
          /\ Exists(id)
          /\ \A a \in m[id].joined : \/ Exists(id) /\ a \in sockmap[id].joined
                                     \/ x.ok /\ id = i /\ a = c
          /\ IsFiniteSet(m[id].sublist) /\ Cardinality(m[id].sublist) <= Room
    <3> SUFFICES ASSUME NEW id \in Ids, m[id] # NoEntry
                 PROVE  /\ Exists(id)
                        /\ \A a \in m[id].joined : \/ Exists(id) /\ a \in sockmap[id].joined
                                                   \/ x.ok /\ id = i /\ a = c
                        /\ IsFiniteSet(m[id].sublist) /\ Cardinality(m[id].sublist) <= Room
      OBVIOUS
    <3>1. CASE id # i
      <4>1. m[id] = sockmap[id] /\ Exists(id) BY <1>1, <3>1 DEF Exists
      <4> QED BY <1>4, <4>1
    <3>2. CASE id = i BY <2>2, <2>5, <2>6, <3>2
    <3> QED BY <3>1, <3>2
  <2> QED BY <1>1, <2>1, <2>2, <2>3, <2>4, <2>7, <2>8, <2>9 DEF m, c
<1>7. CASE sockmap[i] = NoEntry /\ i <= Made(router) /\ (Spawned(x, c) \/ Failed(x, c))
  <2>1. ~Exists(i) BY <1>7 DEF Exists
  <2> DEFINE joined == IF x.ok THEN {c} ELSE {}
             live == x.spawned
             f == NewEntry(c, live, IF live THEN joined ELSE {})
  <2>2. m[i] \in {NoEntry, f} /\ (live => m[i] = f) /\ (x.ok => live)
    <3>1. CASE Spawned(x, c) BY <1>7, <3>1 DEF Spawned
    <3>2. CASE Failed(x, c) BY <1>1, <3>2 DEF Failed
    <3> QED BY <1>7, <3>1, <3>2
  <2>3. f.manual = TRUE /\ f.active = live /\ f.sublist = (IF live THEN {c} ELSE {})
        /\ f.joined = IF live THEN joined ELSE {}
    BY DEF NewEntry
  <2>4. f \in Entry /\ f # NoEntry
    <3>1. c[2] \in UNION {ToSet(s.ifaces) : s \in Setups}
      <4>1. \A b \in Addresses : b[2] \in UNION {ToSet(s.ifaces) : s \in Setups} BY DEF Addresses
      <4> QED BY <1>3, <4>1
    <3>2. f \in Entry BY <1>1, <1>3, <3>1, EntriesAre DEF NewEntry
    <3> QED BY <3>2, EntriesAre
  <2> HIDE DEF f
  <2>5. IsFiniteSet(f.sublist) /\ Cardinality(f.sublist) <= Room
    <3>1. IsFiniteSet({c}) /\ Cardinality({c}) = 1 /\ IsFiniteSet({}) /\ Cardinality({}) = 0
      BY FS_EmptySet, FS_Singleton
    <3>2. 1 <= Room /\ 0 <= Room BY <1>5
    <3>3. CASE live BY <2>3, <3>1, <3>2, <3>3
    <3>4. CASE ~live BY <2>3, <3>1, <3>2, <3>4
    <3> QED BY <3>3, <3>4
  <2>6. \A a \in f.joined : x.ok /\ a = c BY <1>1, <2>2, <2>3
  <2>7. x.ok => c \in f.joined BY <2>2, <2>3
  <2> HIDE DEF m, joined, live
  <2>8. \A id \in Ids : Exists(id) => id # i /\ m[id] = sockmap[id] BY <1>1, <2>1
  <2>9. \A id \in Ids : m[id] # NoEntry =>
          /\ \/ Exists(id)
             \/ id = i /\ id <= Made(router) /\ m[id].manual /\ (m[id].active => x.spawned)
          /\ \A a \in m[id].joined : \/ Exists(id) /\ a \in sockmap[id].joined
                                     \/ x.ok /\ id = i /\ a = c
          /\ IsFiniteSet(m[id].sublist) /\ Cardinality(m[id].sublist) <= Room
    <3> SUFFICES ASSUME NEW id \in Ids, m[id] # NoEntry
                 PROVE  /\ \/ Exists(id)
                           \/ id = i /\ id <= Made(router) /\ m[id].manual /\ (m[id].active => x.spawned)
                        /\ \A a \in m[id].joined : \/ Exists(id) /\ a \in sockmap[id].joined
                                                   \/ x.ok /\ id = i /\ a = c
                        /\ IsFiniteSet(m[id].sublist) /\ Cardinality(m[id].sublist) <= Room
      OBVIOUS
    <3>1. CASE id # i
      <4>1. m[id] = sockmap[id] /\ Exists(id) BY <1>1, <3>1 DEF Exists
      <4> QED BY <1>4, <4>1
    <3>2. CASE id = i
      <4>1. m[i] = f BY <2>2, <3>2
      <4> QED BY <1>7, <2>3, <2>5, <2>6, <3>2, <4>1 DEF live
    <3> QED BY <3>1, <3>2
  <2>10. x.spawned \/ x.ok => m[i] # NoEntry /\ m[i].active /\ m[i].manual BY <2>2, <2>3, <2>4 DEF live
  <2>11. x.ok => c \in m[i].joined BY <2>2, <2>7
  <2> QED BY <2>1, <2>8, <2>9, <2>10, <2>11 DEF m, c, Exists
<1> QED BY <1>1, <1>6, <1>7

LEMMA EndedIs ==
  ASSUME NEW m \in [Ids -> Entry \cup {NoEntry}], NEW u
  PROVE  LET E == EndedUniverse(m, u)
         IN /\ E \in [Ids -> Entry \cup {NoEntry}]
            /\ \A id \in Ids : (E[id] = NoEntry <=> m[id] = NoEntry)
            /\ \A id \in Ids : m[id] # NoEntry =>
                 /\ E[id].manual = m[id].manual /\ E[id].active = m[id].active /\ E[id].sublist \subseteq m[id].sublist
                 /\ E[id].joined = m[id].joined \ {a \in Addresses : a[1] = u /\ <<a, id>> \in subs}
<1> DEFINE gone(id) == {a \in Addresses : a[1] = u /\ <<a, id>> \in subs}
           E == EndedUniverse(m, u)
           left(id) == [m[id] EXCEPT !.sublist = @ \ gone(id), !.joined = @ \ gone(id)]
<1>1. \A id \in Ids : m[id] # NoEntry => m[id] \in Entry OBVIOUS
<1>2. \A id \in Ids : m[id] # NoEntry =>
        /\ left(id) \in Entry /\ left(id).manual = m[id].manual /\ left(id).active = m[id].active
        /\ left(id).sublist = m[id].sublist \ gone(id) /\ left(id).joined = m[id].joined \ gone(id)
  <2> SUFFICES ASSUME NEW id \in Ids, m[id] # NoEntry
               PROVE  /\ left(id) \in Entry /\ left(id).manual = m[id].manual /\ left(id).active = m[id].active
                      /\ left(id).sublist = m[id].sublist \ gone(id) /\ left(id).joined = m[id].joined \ gone(id)
    OBVIOUS
  <2> DEFINE e == m[id]
             g == gone(id)
             f == [e EXCEPT !.sublist = @ \ g, !.joined = @ \ g]
  <2>1. e \in Entry BY <1>1
  <2>2. left(id) = f OBVIOUS
  <2> HIDE DEF gone, g, e, left
  <2>3. /\ f \in Entry /\ f.manual = e.manual /\ f.active = e.active /\ f.sublist = e.sublist \ g
        /\ f.joined = e.joined \ g
    BY <2>1 DEF Entry
  <2> QED BY <2>2, <2>3 DEF e, g
<1>3. E = [id \in Ids |-> IF m[id] = NoEntry THEN NoEntry ELSE left(id)]
  <2>1. \A id \in Ids : Unsubscribed(m, id, gone(id)) = [m EXCEPT ![id] = left(id)] BY DEF Unsubscribed
  <2>2. \A id \in Ids : Unsubscribed(m, id, gone(id))[id] = left(id) BY <2>1
  <2> QED BY <2>2 DEF EndedUniverse
<1> HIDE DEF left, E, gone
<1>4. \A e \in Entry : e # NoEntry BY EntriesAre
<1>5. E \in [Ids -> Entry \cup {NoEntry}] BY <1>2, <1>3
<1>6. \A id \in Ids : E[id] = IF m[id] = NoEntry THEN NoEntry ELSE left(id) BY <1>3
<1>7. \A id \in Ids : (E[id] = NoEntry <=> m[id] = NoEntry) BY <1>2, <1>4, <1>6
<1> QED BY <1>2, <1>5, <1>6, <1>7 DEF E, gone

\* What the map is after one interface.
LEMMA ListenedIs ==
  ASSUME SockInv, router.at = "listen", NEW x \in Attempts(Current), NEW failed \in BOOLEAN, failed => ~x.ok,
         NEW m, m = IF failed THEN EndedUniverse(x.map, Current[1]) ELSE x.map
  PROVE  /\ m \in [Ids -> Entry \cup {NoEntry}]
         /\ \A id \in Ids : Exists(id) =>
              /\ m[id] # NoEntry /\ m[id].manual = sockmap[id].manual /\ m[id].active = sockmap[id].active
              /\ \A a \in sockmap[id].joined : ~failed \/ a[1] # Current[1] => a \in m[id].joined
         /\ \A id \in Ids : m[id] # NoEntry =>
              /\ \/ Exists(id)
                 \/ id = x.id /\ id <= Made(router) /\ m[id].manual /\ (m[id].active => x.spawned)
              /\ \A a \in m[id].joined : \/ Exists(id) /\ a \in sockmap[id].joined
                                         \/ x.ok /\ id = x.id /\ a = Current
              /\ failed => \A a \in m[id].joined : a[1] # Current[1]
              /\ IsFiniteSet(m[id].sublist) /\ Cardinality(m[id].sublist) <= Room
         /\ x.spawned => ~Exists(x.id)
         /\ x.spawned \/ x.ok => m[x.id] # NoEntry /\ m[x.id].active /\ m[x.id].manual
         /\ x.ok => Current \in m[x.id].joined
<1> DEFINE o == x.map
           u == Current[1]
           i == x.id
<1>1. o \in [Ids -> Entry \cup {NoEntry}] /\ i \in Ids BY AttemptIs DEF SockInv
<1>2. /\ \A id \in Ids : Exists(id) =>
                 /\ o[id] # NoEntry /\ o[id].manual = sockmap[id].manual /\ o[id].active = sockmap[id].active
                 /\ sockmap[id].joined \subseteq o[id].joined
      /\ \A id \in Ids : o[id] # NoEntry =>
           /\ \/ Exists(id)
              \/ id = i /\ id <= Made(router) /\ o[id].manual /\ (o[id].active => x.spawned)
           /\ \A a \in o[id].joined : \/ Exists(id) /\ a \in sockmap[id].joined
                                      \/ x.ok /\ id = i /\ a = Current
           /\ IsFiniteSet(o[id].sublist) /\ Cardinality(o[id].sublist) <= Room
      /\ x.spawned => ~Exists(i)
      /\ x.spawned \/ x.ok => o[i] # NoEntry /\ o[i].active /\ o[i].manual
      /\ x.ok => Current \in o[i].joined
  BY AttemptLeaves
<1>3. CASE ~failed
  <2>1. m = o BY <1>3
  <2> QED BY <1>1, <1>2, <1>3, <2>1
<1>4. CASE failed
  <2> DEFINE gone(id) == {a \in Addresses : a[1] = u /\ <<a, id>> \in subs}
  <2>1. m = EndedUniverse(o, u) /\ ~x.ok BY <1>4
  <2> HIDE DEF o, u
  <2>2. /\ m \in [Ids -> Entry \cup {NoEntry}]
        /\ \A id \in Ids : (m[id] = NoEntry <=> o[id] = NoEntry)
        /\ \A id \in Ids : o[id] # NoEntry =>
             /\ m[id].manual = o[id].manual /\ m[id].active = o[id].active /\ m[id].sublist \subseteq o[id].sublist
             /\ m[id].joined = o[id].joined \ gone(id)
    BY <1>1, <2>1, EndedIs
  <2>3. \A id \in Ids : Exists(id) => \A a \in sockmap[id].joined : a \in Addresses /\ <<a, id>> \in subs
    <3>1. JoinedAsked /\ subs \subseteq Addresses \X Ids BY DEF SockInv, SockTypes
    <3>2. \A a, id : <<a, id>> \in subs => a \in Addresses BY <3>1
    <3> QED BY <3>1, <3>2 DEF JoinedAsked
  <2>4. \A id \in Ids : m[id] # NoEntry => \A a \in m[id].joined : Exists(id) /\ a \in sockmap[id].joined
    <3> SUFFICES ASSUME NEW id \in Ids, m[id] # NoEntry, NEW a \in m[id].joined
                 PROVE  Exists(id) /\ a \in sockmap[id].joined
      OBVIOUS
    <3>1. o[id] # NoEntry BY <2>2
    <3>2. a \in o[id].joined BY <2>2, <3>1
    <3> HIDE DEF gone
    <3>3. (Exists(id) /\ a \in sockmap[id].joined) \/ (x.ok /\ id = i /\ a = Current) BY <1>2, <3>1, <3>2
    <3> QED BY <2>1, <3>3
  <2>5. \A id \in Ids : m[id] # NoEntry => \A a \in m[id].joined : a[1] # u
    <3> SUFFICES ASSUME NEW id \in Ids, m[id] # NoEntry, NEW a \in m[id].joined, a[1] = u PROVE FALSE OBVIOUS
    <3>1. a \in Addresses /\ <<a, id>> \in subs BY <2>3, <2>4
    <3>2. a \in gone(id) BY <3>1
    <3>3. a \notin gone(id) BY <2>2
    <3> QED BY <3>2, <3>3
  <2>6. \A id \in Ids : Exists(id) => \A a \in sockmap[id].joined : a[1] # u => a \in m[id].joined
    <3> SUFFICES ASSUME NEW id \in Ids, Exists(id), NEW a \in sockmap[id].joined, a[1] # u PROVE a \in m[id].joined
      OBVIOUS
    <3>1. a \in o[id].joined /\ o[id] # NoEntry BY <1>2
    <3>2. a \notin gone(id) OBVIOUS
    <3> HIDE DEF gone
    <3> QED BY <2>2, <3>1, <3>2
  <2> HIDE DEF gone
  <2>7. \A id \in Ids : m[id] # NoEntry => IsFiniteSet(m[id].sublist) /\ Cardinality(m[id].sublist) <= Room
    <3> SUFFICES ASSUME NEW id \in Ids, m[id] # NoEntry
                 PROVE  IsFiniteSet(m[id].sublist) /\ Cardinality(m[id].sublist) <= Room
      OBVIOUS
    <3> DEFINE S == o[id].sublist
               T == m[id].sublist
    <3>1. T \subseteq S /\ IsFiniteSet(S) /\ Cardinality(S) <= Room BY <1>2, <2>2
    <3> HIDE DEF S, T
    <3>2. IsFiniteSet(T) /\ Cardinality(T) <= Cardinality(S) BY <3>1, FS_Subset
    <3>3. Cardinality(S) \in Nat /\ Cardinality(T) \in Nat /\ Room \in Nat BY <3>1, <3>2, FS_CardinalityType, SocketsAssumption
    <3>4. Cardinality(T) <= Room BY <3>1, <3>2, <3>3
    <3> QED BY <3>2, <3>4 DEF T
  <2>8. \A id \in Ids : Exists(id) => m[id] # NoEntry /\ m[id].manual = sockmap[id].manual /\ m[id].active = sockmap[id].active
    BY <1>2, <2>2
  <2>9. \A id \in Ids : m[id] # NoEntry =>
          \/ Exists(id)
          \/ id = i /\ id <= Made(router) /\ m[id].manual /\ (m[id].active => x.spawned)
    BY <1>2, <2>2
  <2>10. x.spawned => m[i] # NoEntry /\ m[i].active /\ m[i].manual BY <1>1, <1>2, <2>2
  <2> QED BY <1>2, <1>4, <2>1, <2>2, <2>4, <2>5, <2>6, <2>7, <2>8, <2>9, <2>10 DEF u
<1> QED BY <1>3, <1>4

LEMMA ListenSocketsKeeps ==
  ASSUME SockInv, UNCHANGED setup, ListenSockets
  PROVE  SockInv'
<1> DEFINE c == Current
           u == router.universe
           U == Len(setup.universes)
           T == Len(Targets)
<1>1. PICK x \in Attempts(c) :
        LET failed == ~x.ok /\ setup.listed # <<>>
            last == failed \/ router.iface = Len(Targets)
        IN /\ sockmap' = IF failed THEN EndedUniverse(x.map, c[1]) ELSE x.map
           /\ subs' = IF x.ok THEN subs \cup {<<c, x.id>>} ELSE subs
           /\ listeners' = IF x.spawned THEN [listeners EXCEPT ![x.id] = [pc |-> "lookup"]] ELSE listeners
           /\ connected' = IF last /\ ~failed THEN connected \cup {c[1]} ELSE connected
           /\ router' = IF last THEN NextUniverse ELSE [router EXCEPT !.iface = @ + 1]
  BY DEF ListenSockets
<1> DEFINE i == x.id
           failed == ~x.ok /\ setup.listed # <<>>
           last == failed \/ router.iface = Len(Targets)
<1>2. router.at = "listen" /\ UNCHANGED <<buffer, reader, overlaps, pnotify, nullCall, lastHeard>> BY DEF ListenSockets
<1>3. SockTypes /\ IdsBelow /\ FreshLeft /\ setup \in Setups /\ Opening /\ sockmap \in [Ids -> Entry \cup {NoEntry}]
      /\ u \in DOMAIN setup.universes /\ router.iface \in DOMAIN Targets
  BY <1>2 DEF SockInv, SockTypes, Opening
<1>4. i \in Ids /\ x.ok \in BOOLEAN /\ x.spawned \in BOOLEAN BY <1>2, <1>3, AttemptIs
<1>5. /\ sockmap' \in [Ids -> Entry \cup {NoEntry}]
      /\ \A id \in Ids : Exists(id) =>
           /\ sockmap'[id] # NoEntry /\ sockmap'[id].manual = sockmap[id].manual
           /\ sockmap'[id].active = sockmap[id].active
           /\ \A a \in sockmap[id].joined : ~failed \/ a[1] # c[1] => a \in sockmap'[id].joined
      /\ \A id \in Ids : sockmap'[id] # NoEntry =>
           /\ \/ Exists(id)
              \/ id = i /\ id <= Made(router) /\ sockmap'[id].manual /\ (sockmap'[id].active => x.spawned)
           /\ \A a \in sockmap'[id].joined : \/ Exists(id) /\ a \in sockmap[id].joined
                                             \/ x.ok /\ id = i /\ a = c
           /\ failed => \A a \in sockmap'[id].joined : a[1] # c[1]
           /\ IsFiniteSet(sockmap'[id].sublist) /\ Cardinality(sockmap'[id].sublist) <= Room
      /\ x.spawned => ~Exists(i)
      /\ x.spawned \/ x.ok => sockmap'[i] # NoEntry /\ sockmap'[i].active /\ sockmap'[i].manual
      /\ x.ok => c \in sockmap'[i].joined
  <2>1. sockmap' = IF failed THEN EndedUniverse(x.map, c[1]) ELSE x.map BY <1>1
  <2>2. failed \in BOOLEAN /\ (failed => ~x.ok) OBVIOUS
  <2> HIDE DEF failed
  <2> QED BY <1>2, <2>1, <2>2, ListenedIs
<1>6. /\ subs' = IF x.ok THEN subs \cup {<<c, i>>} ELSE subs
      /\ listeners' = IF x.spawned THEN [listeners EXCEPT ![i] = [pc |-> "lookup"]] ELSE listeners
      /\ connected' = IF last /\ ~failed THEN connected \cup {c[1]} ELSE connected
      /\ router' = IF last THEN NextUniverse ELSE [router EXCEPT !.iface = @ + 1]
  BY <1>1
<1>7. c = <<setup.universes[u], Targets[router.iface]>> /\ c[1] = setup.universes[u] /\ c \in Addresses
      /\ setup.universes[u] \in SetUniverses
  BY <1>3, SetupFacts DEF Current
<1>8. /\ router' \in [at: {"listen", "server"}, universe: Nat, iface: Nat]
      /\ router'.at = "listen" => router'.universe \in DOMAIN setup.universes /\ router'.iface \in DOMAIN Targets
      /\ router'.at = "server" => router'.iface \in DOMAIN setup.ifaces
      /\ ~last => router'.at = "listen" /\ router'.universe = u /\ router'.iface = router.iface + 1
      /\ last => \/ router'.at = "listen" /\ router'.universe = u + 1 /\ router'.iface = 1
                 \/ router'.at = "server" /\ u = U
      /\ Made(router') \in Nat /\ Made(router') > Made(router)
  <2>1. last \in BOOLEAN /\ (last \/ router.iface # Len(Targets)) OBVIOUS
  <2>2. router' = IF last THEN NextUniverse ELSE [router EXCEPT !.iface = @ + 1] BY <1>6
  <2> HIDE DEF last
  <2> QED BY <1>2, <1>3, <2>1, <2>2, NextIs
<1>9. /\ U \in Nat \ {0} /\ DOMAIN setup.universes = 1..U /\ T \in Nat \ {0} /\ DOMAIN Targets = 1..T
      /\ \A k, n \in DOMAIN setup.universes : setup.universes[k] = setup.universes[n] => k = n
      /\ \A j, k \in DOMAIN Targets : Targets[j] = Targets[k] => j = k
      /\ setup.listed # <<>> => Targets = setup.listed
      /\ setup.listed = <<>> => ToSet(setup.listed) = {}
  BY <1>3, SetupFacts
<1>10. (failed => ~x.ok /\ last /\ setup.listed # <<>>) /\ (~failed => x.ok \/ setup.listed = <<>>)
       /\ (~failed /\ last => router.iface = T)
  OBVIOUS
<1> HIDE DEF c, u, U, T, i, failed, last
<1>11. \A id \in Ids : Exists(id)' <=> sockmap'[id] # NoEntry BY DEF Exists
<1>12. \A id \in Ids : Open(id)' <=> sockmap'[id] # NoEntry /\ sockmap'[id].active BY <1>11 DEF Open
<1>13. Opening' BY <1>8 DEF Opening
<1>14. listeners \in [Ids -> Listener] /\ listeners' \in [Ids -> Listener]
       /\ (x.spawned => listeners'[i] = [pc |-> "lookup"])
       /\ \A id \in Ids : ~x.spawned \/ id # i => listeners'[id] = listeners[id]
  <2>1. listeners \in [Ids -> Listener] BY <1>3 DEF SockTypes
  <2>2. [pc |-> "lookup"] \in Listener BY ListenersAre
  <2> QED BY <1>4, <1>6, <2>1, <2>2
<1>15. subs \subseteq subs' /\ \A s \in subs' : s \in subs \/ (x.ok /\ s = <<c, i>>) BY <1>6
<1>16. SockTypes'
  <2>1. subs \subseteq Addresses \X Ids /\ connected \subseteq SetUniverses BY <1>3 DEF SockTypes
  <2>2. subs' \subseteq Addresses \X Ids BY <1>4, <1>6, <1>7, <2>1
  <2>3. connected' \subseteq SetUniverses BY <1>6, <1>7, <2>1
  <2>4. router' \in [at: {"listen", "server", "run"} \cup Closing, universe: Nat, iface: Nat] BY <1>8
  <2>5. Targets' = Targets BY DEF Targets
  <2> QED BY <1>2, <1>3, <1>5, <1>8, <1>14, <2>2, <2>3, <2>4, <2>5 DEF SockTypes
<1>17. IdsBelow'
  <2>1. Made(router)' = Made(router') BY DEF Made, Targets
  <2>2. \A id \in Ids : id >= Made(router') => sockmap'[id] = NoEntry
    <3> SUFFICES ASSUME NEW id \in Ids, id >= Made(router'), sockmap'[id] # NoEntry PROVE FALSE OBVIOUS
    <3> DEFINE before == Made(router)
               after == Made(router')
    <3>1. before \in Nat BY <1>2, <1>3, MadeIsAnId
    <3>2. after \in Nat /\ after > before /\ id \in Nat /\ id >= after BY <1>8, IdsAreNumbers
    <3>3. Exists(id) \/ id <= before BY <1>5
    <3> HIDE DEF before, after
    <3>4. id >= before /\ ~(id <= before) BY <3>1, <3>2
    <3>5. ~Exists(id) BY <1>2, <1>3, <3>4 DEF IdsBelow, before
    <3> QED BY <3>3, <3>4, <3>5
  <2> QED BY <1>11, <2>1, <2>2 DEF IdsBelow
<1>18. FreshLeft'
  <2> SUFFICES ASSUME router'.at = "listen", NEW n \in DOMAIN setup.universes, NEW k \in DOMAIN Targets,
                      ~Before(n, k)', NEW s \in subs'
               PROVE  s[1] # <<setup.universes[n], Targets[k]>>
    BY DEF FreshLeft, Targets
  <2>1. ~(n < router'.universe) /\ ~(n = router'.universe /\ k < router'.iface) BY DEF Before
  <2>2. n \in Nat /\ k \in Nat /\ u \in Nat /\ router.iface \in Nat /\ k >= 1 BY <1>3, <1>9
  <2>3. ~(n < u) /\ ~(n = u /\ k < router.iface) /\ ~(n = u /\ k = router.iface)
    <3>1. CASE last
      <4>1. router'.universe = u + 1 BY <1>8, <3>1
      <4> QED BY <2>1, <2>2, <4>1
    <3>2. CASE ~last BY <1>8, <2>1, <2>2, <3>2
    <3> QED BY <3>1, <3>2
  <2>4. ~Before(n, k) BY <2>3 DEF Before, u
  <2>5. CASE s \in subs BY <1>2, <1>3, <2>4, <2>5 DEF FreshLeft
  <2>6. CASE s = <<c, i>>
    <3>1. s[1] = <<setup.universes[u], Targets[router.iface]>> BY <1>7, <2>6
    <3>2. setup.universes[n] # setup.universes[u] \/ Targets[k] # Targets[router.iface]
      BY <1>3, <1>9, <2>3
    <3> QED BY <3>1, <3>2
  <2> QED BY <1>15, <2>5, <2>6
<1>19. JoinedAsked'
  <2>1. \A id \in Ids : sockmap'[id] # NoEntry => \A a \in sockmap'[id].joined : <<a, id>> \in subs'
    <3> SUFFICES ASSUME NEW id \in Ids, sockmap'[id] # NoEntry, NEW a \in sockmap'[id].joined PROVE <<a, id>> \in subs'
      OBVIOUS
    <3>1. CASE Exists(id) /\ a \in sockmap[id].joined BY <1>15, <3>1 DEF SockInv, JoinedAsked
    <3>2. CASE x.ok /\ id = i /\ a = c BY <1>6, <3>2
    <3> QED BY <1>5, <3>1, <3>2
  <2> QED BY <1>11, <2>1 DEF JoinedAsked
<1>20. RoomKept' BY <1>5, <1>11 DEF RoomKept
<1>21. ThreadsServe'
  <2>1. ThreadsServe BY DEF SockInv
  <2>2. \A id \in Ids : Exists(id) => listeners'[id] = listeners[id] BY <1>5, <1>14
  <2>3. \A id \in Ids : listeners'[id].pc # "none" /\ sockmap'[id] # NoEntry => sockmap'[id].manual
    <3> SUFFICES ASSUME NEW id \in Ids, listeners'[id].pc # "none", sockmap'[id] # NoEntry PROVE sockmap'[id].manual
      OBVIOUS
    <3>1. CASE Exists(id)
      <4>1. listeners[id].pc # "none" BY <2>2, <3>1
      <4>2. sockmap[id].manual BY <2>1, <3>1, <4>1 DEF ThreadsServe
      <4> QED BY <1>5, <3>1, <4>2
    <3>2. CASE ~Exists(id) BY <1>5, <3>2
    <3> QED BY <3>1, <3>2
  <2>4. \A id \in Ids : sockmap'[id] # NoEntry /\ sockmap'[id].active /\ sockmap'[id].manual => Serving(listeners'[id])
    <3> SUFFICES ASSUME NEW id \in Ids, sockmap'[id] # NoEntry, sockmap'[id].active, sockmap'[id].manual
                 PROVE  Serving(listeners'[id])
      OBVIOUS
    <3>1. CASE Exists(id)
      <4>1. Open(id) /\ sockmap[id].manual BY <1>5, <3>1 DEF Open
      <4>2. Serving(listeners[id]) BY <1>3, <2>1, <4>1 DEF ThreadsServe
      <4> QED BY <2>2, <3>1, <4>2
    <3>2. CASE ~Exists(id)
      <4>1. id = i /\ x.spawned BY <1>5, <3>2
      <4> QED BY <1>14, <4>1 DEF Serving
    <3> QED BY <3>1, <3>2
  <2>5. \A s \in subs' : Open(s[2])' /\ sockmap'[s[2]].manual
    <3> TAKE s \in subs'
    <3>1. CASE s \in subs
      <4> DEFINE o == s[2]
      <4>1. o \in Ids BY <1>3, <3>1 DEF SockTypes
      <4>2. Open(o) /\ sockmap[o].manual /\ Exists(o) BY <1>3, <2>1, <3>1 DEF ThreadsServe, Open
      <4>3. sockmap[o].active BY <4>2 DEF Open
      <4> HIDE DEF o
      <4>4. Open(o)' /\ sockmap'[o].manual BY <1>5, <1>12, <4>1, <4>2, <4>3
      <4> QED BY <4>4 DEF o
    <3>2. CASE x.ok /\ s = <<c, i>>
      <4>1. s[2] = i BY <3>2
      <4>2. Open(i)' /\ sockmap'[i].manual BY <1>4, <1>5, <1>12, <3>2
      <4> QED BY <4>1, <4>2
    <3> QED BY <1>15, <3>1, <3>2
  <2>6. \A id \in Ids : listeners'[id].pc # "none" => Open(id)'
    <3> SUFFICES ASSUME NEW id \in Ids, listeners'[id].pc # "none" PROVE Open(id)' OBVIOUS
    <3>1. CASE x.spawned /\ id = i BY <1>5, <1>12, <3>1
    <3>2. CASE ~(x.spawned /\ id = i)
      <4>1. listeners[id].pc # "none" BY <1>14, <3>2
      <4>2. Open(id) /\ Exists(id) /\ sockmap[id].active BY <1>3, <2>1, <4>1 DEF ThreadsServe, Open
      <4> QED BY <1>5, <1>12, <4>2
    <3> QED BY <3>1, <3>2
  <2>7. \A id \in Ids : Serving(listeners[id])' <=> Serving(listeners'[id]) BY DEF Serving
  <2> QED BY <1>11, <1>12, <2>3, <2>4, <2>5, <2>6, <2>7 DEF ThreadsServe
<1> DEFINE AskedNow(a) == setup.platform = "linux" \/ \E s \in subs' : s[1] = a
<1>22. \A a : Asked(a) => AskedNow(a) BY <1>15 DEF Asked
<1>28. \A a : Asked(a)' <=> AskedNow(a) BY DEF Asked
<1> HIDE DEF AskedNow
<1>23. QueuesAsked'
  <2>1. QueuesAsked BY DEF SockInv
  <2>2. ToSet(<<>>) = {} BY DEF ToSet
  <2>3. \A id \in Ids : ~Exists(id) => buffer[id] = <<>> BY <1>3, <2>1 DEF QueuesAsked
  <2>4. \A id \in Ids : sockmap'[id] # NoEntry /\ sockmap'[id].manual => \A p \in ToSet(buffer[id]) : AskedNow(p)
    <3> SUFFICES ASSUME NEW id \in Ids, sockmap'[id] # NoEntry, sockmap'[id].manual, NEW p \in ToSet(buffer[id])
                 PROVE  AskedNow(p)
      OBVIOUS
    <3>1. Exists(id)
      <4> SUFFICES ASSUME ~Exists(id) PROVE FALSE OBVIOUS
      <4> QED BY <2>2, <2>3
    <3>2. sockmap[id].manual BY <1>5, <3>1
    <3>3. Asked(p) BY <2>1, <3>1, <3>2 DEF QueuesAsked
    <3> QED BY <1>22, <3>3
  <2>5. \A id \in Ids : ~Exists(id)' => buffer[id] = <<>> BY <1>5, <1>11, <2>3
  <2>6. \A id \in Ids : listeners'[id].pc \in {"check", "notify"} => AskedNow(listeners'[id].address)
    <3> SUFFICES ASSUME NEW id \in Ids, listeners'[id].pc \in {"check", "notify"} PROVE AskedNow(listeners'[id].address)
      OBVIOUS
    <3>1. listeners'[id] = listeners[id] BY <1>14
    <3>2. Asked(listeners[id].address) BY <2>1, <3>1 DEF QueuesAsked
    <3>3. AskedNow(listeners[id].address) BY <1>22, <3>2
    <3> QED BY <3>1, <3>3
  <2> QED BY <1>2, <1>11, <1>28, <2>4, <2>5, <2>6 DEF QueuesAsked
<1>24. ReaderHolds'
  <2>1. ReaderHolds /\ reader.ready \subseteq Ids BY InvGives DEF SockInv
  <2>2. \A id \in reader.ready : ~sockmap'[id].manual /\ buffer[id] # <<>> /\ Open(id)'
    <3> TAKE id \in reader.ready
    <3>1. Open(id) /\ Exists(id) /\ sockmap[id].active /\ ~sockmap[id].manual /\ buffer[id] # <<>> /\ id \in Ids
      BY <1>3, <2>1 DEF ReaderHolds, Open
    <3> QED BY <1>5, <1>12, <3>1
  <2>3. ~Select => reader = [pc |-> "idle", ready |-> {}] BY <2>1 DEF ReaderHolds
  <2> QED BY <1>2, <2>2, <2>3 DEF ReaderHolds, Select
<1>25. WorkersHold'
  <2>1. WorkersHold BY DEF SockInv
  <2>2. Opening' /\ Early' /\ (Select' <=> Select) BY <1>2, <1>8 DEF Opening, Early, Select
  <2>3. ASSUME NEW id \in Ids PROVE OverlapFits(id)'
    <3>1. OverlapFits(id) /\ overlaps' = overlaps BY <1>2, <2>1 DEF WorkersHold
    <3>2. (Exists(id)' <=> sockmap'[id] # NoEntry) /\ (Open(id)' <=> sockmap'[id] # NoEntry /\ sockmap'[id].active)
      BY <1>11, <1>12
    <3>3. CASE Exists(id)
      <4>1. sockmap'[id] # NoEntry /\ sockmap'[id].manual = sockmap[id].manual /\ sockmap'[id].active = sockmap[id].active
        BY <1>5, <3>3
      <4> QED BY <1>3, <2>2, <3>1, <3>2, <3>3, <4>1 DEF OverlapFits, Open
    <3>4. CASE ~Exists(id)
      <4>1. overlaps[id] = "none" /\ (sockmap'[id] # NoEntry => sockmap'[id].manual) BY <1>3, <1>5, <3>1, <3>4 DEF OverlapFits
      <4> QED BY <3>1, <3>2, <4>1 DEF OverlapFits, UnderWay
    <3> QED BY <3>3, <3>4
  <2> QED BY <2>2, <2>3 DEF WorkersHold
<1>26. StagesHold'
  <2>1. pnotify BY <1>2 DEF SockInv, StagesHold, Closing
  <2> QED BY <1>2, <1>8, <2>1 DEF StagesHold
<1>27. Progress'
  <2> DEFINE name(n) == setup.universes[n]
             HeldNow(a) == \E id \in Ids : sockmap'[id] # NoEntry /\ a \in sockmap'[id].joined
             Well(n) == \A f \in ToSet(setup.listed) : HeldNow(<<name(n), f>>) <=> name(n) \in connected'
  <2>1. \A a : Held(a)' <=> HeldNow(a) BY <1>11 DEF Held
  <2>2. \A n : Settled(n)' <=> Well(n) BY <2>1 DEF Settled
  <2>3. \A a : (~failed \/ a[1] # c[1]) /\ Held(a) => HeldNow(a)
    <3> SUFFICES ASSUME NEW a, ~failed \/ a[1] # c[1], NEW id \in Ids, Exists(id), a \in sockmap[id].joined
                 PROVE  HeldNow(a)
      BY DEF Held
    <3>1. sockmap'[id] # NoEntry /\ a \in sockmap'[id].joined BY <1>5
    <3> QED BY <3>1
  <2>4. \A a : HeldNow(a) => Held(a) \/ (x.ok /\ a = c)
    <3> SUFFICES ASSUME NEW a, NEW id \in Ids, sockmap'[id] # NoEntry, a \in sockmap'[id].joined
                 PROVE  Held(a) \/ (x.ok /\ a = c)
      OBVIOUS
    <3>1. CASE Exists(id) /\ a \in sockmap[id].joined BY <3>1 DEF Held
    <3>2. CASE x.ok /\ id = i /\ a = c BY <3>2
    <3> QED BY <1>5, <3>1, <3>2
  <2>5. failed => \A a : HeldNow(a) => a[1] # c[1] BY <1>5
  <2>6. x.ok => HeldNow(c) BY <1>4, <1>5
  <2> HIDE DEF HeldNow
  <2>7. Progress BY DEF SockInv
  <2>8. c[1] = name(u) /\ \A n \in DOMAIN setup.universes : n # u => name(n) # name(u) BY <1>3, <1>7, <1>9
  <2>9. u \in Nat /\ \A n \in DOMAIN setup.universes : n \in Nat BY <1>3, <1>9
  <2>10. connected \subseteq connected' /\ connected' \subseteq connected \cup {c[1]} BY <1>6
  <2>11. name(u) \notin connected
    <3>1. u >= u BY <2>9
    <3> QED BY <1>2, <1>3, <2>7, <3>1 DEF Progress, u
  <2>12. \A n \in DOMAIN setup.universes : n < u => Well(n)
    <3> SUFFICES ASSUME NEW n \in DOMAIN setup.universes, n < u, NEW f \in ToSet(setup.listed)
                 PROVE  HeldNow(<<name(n), f>>) <=> name(n) \in connected'
      OBVIOUS
    <3>1. Held(<<name(n), f>>) <=> name(n) \in connected BY <1>2, <2>7 DEF Progress, Settled, u
    <3>2. name(n) # c[1] BY <2>8, <2>9
    <3>3. name(n) \in connected' <=> name(n) \in connected BY <2>10, <3>2
    <3> DEFINE a == <<name(n), f>>
    <3>4. a[1] = name(n) OBVIOUS
    <3> HIDE DEF a
    <3>5. a # c BY <3>2, <3>4
    <3>6. HeldNow(a) <=> Held(a) BY <2>3, <2>4, <3>2, <3>4, <3>5
    <3> QED BY <3>1, <3>3, <3>6 DEF a
  <2>13. \A n \in DOMAIN setup.universes : n > u => name(n) \notin connected'
    <3> SUFFICES ASSUME NEW n \in DOMAIN setup.universes, n > u PROVE name(n) \notin connected' OBVIOUS
    <3>1. n >= u /\ n # u BY <2>9
    <3>2. name(n) \notin connected BY <1>2, <2>7, <3>1 DEF Progress, u
    <3>3. name(n) # c[1] BY <2>8, <3>1
    <3> QED BY <2>10, <3>2, <3>3
  <2>14. ~failed /\ setup.listed # <<>> => \A k \in 1..router.iface : HeldNow(<<name(u), Targets[k]>>)
    <3> SUFFICES ASSUME ~failed, setup.listed # <<>>, NEW k \in 1..router.iface PROVE HeldNow(<<name(u), Targets[k]>>)
      OBVIOUS
    <3>1. x.ok BY <1>10
    <3>2. CASE k = router.iface BY <1>7, <2>6, <3>1, <3>2
    <3>3. CASE k # router.iface
      <4>1. k \in 1..(router.iface - 1) BY <1>3, <1>9, <3>3
      <4>2. Held(<<name(u), Targets[k]>>) BY <1>2, <1>3, <2>7, <4>1 DEF Progress, u
      <4> QED BY <2>3, <4>2
    <3> QED BY <3>2, <3>3
  <2>15. last => Well(u)
    <3> SUFFICES ASSUME last, NEW f \in ToSet(setup.listed) PROVE HeldNow(<<name(u), f>>) <=> name(u) \in connected'
      OBVIOUS
    <3>1. CASE failed
      <4>1. name(u) \notin connected' BY <1>6, <2>11, <3>1
      <4>2. ~HeldNow(<<name(u), f>>)
        <5> DEFINE a == <<name(u), f>>
        <5>1. a[1] = name(u) OBVIOUS
        <5> HIDE DEF a
        <5>2. ~HeldNow(a) BY <2>5, <2>8, <3>1, <5>1
        <5> QED BY <5>2 DEF a
      <4> QED BY <4>1, <4>2
    <3>2. CASE ~failed
      <4>1. name(u) \in connected' BY <1>6, <2>8, <3>2
      <4>2. setup.listed # <<>> BY <1>9
      <4>3. \E k \in DOMAIN Targets : f = Targets[k] BY <1>9, <4>2 DEF ToSet
      <4>4. router.iface = T BY <1>10, <3>2
      <4>5. \E k \in 1..router.iface : f = Targets[k] BY <1>9, <4>3, <4>4
      <4>6. HeldNow(<<name(u), f>>) BY <2>14, <3>2, <4>2, <4>5
      <4> QED BY <4>1, <4>6
    <3> QED BY <3>1, <3>2
  <2> HIDE DEF Well
  <2>16. router'.at = "server" => \A n \in DOMAIN setup.universes : Well(n)
    <3> SUFFICES ASSUME router'.at = "server", NEW n \in DOMAIN setup.universes PROVE Well(n) OBVIOUS
    <3>1. last /\ u = U BY <1>8
    <3>2. n \in 1..U /\ U \in Nat BY <1>9
    <3>3. n = u \/ n < u BY <3>1, <3>2
    <3> QED BY <2>12, <2>15, <3>1, <3>3
  <2>17. router'.at = "listen" =>
           \A n \in DOMAIN setup.universes :
             /\ n < router'.universe => Well(n)
             /\ n >= router'.universe => name(n) \notin connected'
             /\ setup.listed # <<>> /\ n = router'.universe =>
                  \A k \in 1..(router'.iface - 1) : HeldNow(<<name(n), Targets[k]>>)
    <3> SUFFICES ASSUME router'.at = "listen", NEW n \in DOMAIN setup.universes
                 PROVE  /\ n < router'.universe => Well(n)
                        /\ n >= router'.universe => name(n) \notin connected'
                        /\ setup.listed # <<>> /\ n = router'.universe =>
                             \A k \in 1..(router'.iface - 1) : HeldNow(<<name(n), Targets[k]>>)
      OBVIOUS
    <3>1. n \in Nat BY <2>9
    <3>2. CASE last
      <4>1. router'.universe = u + 1 /\ router'.iface = 1 BY <1>8, <3>2
      <4>2. n < u + 1 => n < u \/ n = u BY <2>9, <3>1
      <4>3. n >= u + 1 => n > u BY <2>9, <3>1
      <4>4. 1..(1 - 1) = {} OBVIOUS
      <4> QED BY <2>12, <2>13, <2>15, <3>2, <4>1, <4>2, <4>3, <4>4
    <3>3. CASE ~last
      <4>1. router'.universe = u /\ router'.iface = router.iface + 1 /\ router.iface \in Nat /\ ~failed
        BY <1>3, <1>8, <1>9, <1>10, <3>3
      <4>2. connected' = connected BY <1>6, <3>3
      <4>3. n >= u => n > u \/ n = u BY <2>9, <3>1
      <4>4. n >= u => name(n) \notin connected' BY <2>11, <2>13, <4>2, <4>3
      <4>5. router.iface + 1 - 1 = router.iface BY <4>1
      <4>6. setup.listed # <<>> /\ n = u => \A k \in 1..(router'.iface - 1) : HeldNow(<<name(n), Targets[k]>>)
        BY <2>14, <4>1, <4>5
      <4> QED BY <2>12, <4>1, <4>4, <4>6
    <3> QED BY <3>2, <3>3
  <2>18. router'.at # "run" BY <1>8
  <2>19. Targets' = Targets BY DEF Targets
  <2> QED BY <2>1, <2>2, <2>16, <2>17, <2>18, <2>19 DEF Progress
<1> QED BY <1>16, <1>17, <1>18, <1>19, <1>20, <1>21, <1>23, <1>24, <1>25, <1>26, <1>27 DEF SockInv

LEMMA ServerStartupKeeps ==
  ASSUME SockInv, UNCHANGED setup, ServerStartup
  PROVE  SockInv'
<1> DEFINE f == setup.ifaces[router.iface]
           new == NewId(sockmap)
           made == [iface |-> f, manual |-> FALSE, active |-> TRUE, sublist |-> {}, joined |-> {}]
           F == Len(setup.ifaces)
           at == router.iface
           base == Len(setup.universes) * Len(Targets)
<1>1. /\ router.at = "server" /\ UNCHANGED <<buffer, subs, listeners, reader, pnotify, connected, nullCall, lastHeard>>
      /\ router' = IF at < F THEN [router EXCEPT !.iface = @ + 1] ELSE [router EXCEPT !.at = "run"]
  BY DEF ServerStartup
<1>2. PICK created \in Connects(sockmap, f, FALSE) :
        IF Select \/ created = sockmap THEN sockmap' = created /\ UNCHANGED overlaps
        ELSE \/ sockmap' = created /\ overlaps' = [overlaps EXCEPT ![new] = "posted"]
             \/ sockmap' = Destroyed(created, new) /\ UNCHANGED overlaps
  BY DEF ServerStartup
<1>3. SockTypes /\ IdsBelow /\ setup \in Setups /\ Opening /\ sockmap \in [Ids -> Entry \cup {NoEntry}]
      /\ at \in DOMAIN setup.ifaces
      /\ router \in [at: {"listen", "server", "run"} \cup Closing, universe: Nat, iface: Nat]
      /\ overlaps \in [Ids -> OverlapStates]
  BY <1>1 DEF SockInv, SockTypes, Opening
<1>4. f \in UNION {ToSet(s.ifaces) : s \in Setups} /\ F \in Nat \ {0} /\ at \in 1..F
      /\ Len(setup.universes) \in Nat \ {0} /\ Len(Targets) \in Nat \ {0} /\ DOMAIN setup.ifaces = 1..F
  BY <1>3, SetupFacts
<1> HIDE DEF f
<1>5. /\ RealCreateSocket(sockmap, f, FALSE) = [sockmap EXCEPT ![new] = made]
      /\ made \in Entry /\ made # NoEntry /\ new \in Ids /\ sockmap[new] = NoEntry /\ new <= Made(router)
      /\ [sockmap EXCEPT ![new] = made] # sockmap
  BY <1>1, <1>3, <1>4, CreatedIs
<1>26. made.manual = FALSE /\ made.active = TRUE /\ made.sublist = {} /\ made.joined = {} OBVIOUS
<1> HIDE DEF made, new, at, F, base
<1>6. PICK fresh \in Entry :
        /\ fresh.manual = FALSE /\ fresh.sublist = {} /\ fresh.joined = {} /\ fresh # NoEntry
        /\ sockmap' \in {sockmap, [sockmap EXCEPT ![new] = fresh]}
        /\ overlaps' = IF ~Select /\ sockmap' # sockmap /\ fresh.active THEN [overlaps EXCEPT ![new] = "posted"]
                       ELSE overlaps
        /\ Select => fresh.active
  <2> DEFINE closed == SocketDisconnect(made)
             full == [sockmap EXCEPT ![new] = made]
  <2>1. closed \in Entry /\ closed.manual = FALSE /\ closed.active = FALSE /\ closed.sublist = {} /\ closed.joined = {}
        /\ closed # NoEntry
    BY <1>5, <1>26, DisconnectedIs, EntriesAre
  <2>2. created \in {sockmap, full} /\ full # sockmap BY <1>5 DEF Connects
  <2>3. full[new] = made BY <1>3, <1>5
  <2>4. ~Select => Destroyed(full, new) = [sockmap EXCEPT ![new] = closed]
    <3>1. ~Select => Destroyed(full, new) = [full EXCEPT ![new] = closed] BY <1>26, <2>3 DEF Destroyed
    <3>2. [full EXCEPT ![new] = closed] = [sockmap EXCEPT ![new] = closed] BY <1>3, <1>5
    <3> QED BY <3>1, <3>2
  <2>5. [sockmap EXCEPT ![new] = closed] # sockmap
    <3> HIDE DEF closed
    <3>1. [sockmap EXCEPT ![new] = closed][new] = closed BY <1>3, <1>5
    <3> QED BY <1>5, <2>1, <3>1
  <2> HIDE DEF closed
  <2>6. CASE Select \/ created = sockmap
    <3> HIDE DEF full
    <3>1. sockmap' \in {sockmap, full} /\ overlaps' = overlaps /\ (Select \/ sockmap' = sockmap) BY <1>2, <2>2, <2>6
    <3> QED BY <1>5, <1>26, <3>1 DEF full
  <2>7. CASE ~(Select \/ created = sockmap)
    <3>1. created = full BY <2>2, <2>7
    <3>2. CASE sockmap' = created /\ overlaps' = [overlaps EXCEPT ![new] = "posted"]
      <4> HIDE DEF full
      <4>1. sockmap' = full /\ sockmap' # sockmap /\ ~Select BY <2>2, <2>7, <3>1, <3>2
      <4> QED BY <1>5, <1>26, <3>2, <4>1 DEF full
    <3>3. CASE sockmap' = Destroyed(created, new) /\ UNCHANGED overlaps
      <4>1. sockmap' = [sockmap EXCEPT ![new] = closed] BY <2>4, <2>7, <3>1, <3>3
      <4> QED BY <2>1, <2>7, <3>3, <4>1
    <3> QED BY <1>2, <2>7, <3>2, <3>3
  <2> QED BY <2>6, <2>7
<1>7. fresh.manual = FALSE /\ fresh.sublist = {} /\ fresh.joined = {} BY <1>6
<1>8. /\ sockmap' \in [Ids -> Entry \cup {NoEntry}]
      /\ \A id \in Ids : Exists(id) => sockmap'[id] = sockmap[id]
      /\ \A id \in Ids : sockmap'[id] # NoEntry => sockmap'[id] = sockmap[id] \/ (id = new /\ sockmap'[id] = fresh)
  BY <1>3, <1>5, <1>6 DEF Exists
<1>9. /\ overlaps' \in [Ids -> OverlapStates]
      /\ \A id \in Ids : id # new => overlaps'[id] = overlaps[id]
      /\ overlaps'[new] = IF ~Select /\ sockmap' # sockmap /\ fresh.active THEN "posted" ELSE overlaps[new]
  <2> DEFINE asked == ~Select /\ sockmap' # sockmap /\ fresh.active
  <2>1. overlaps' = IF asked THEN [overlaps EXCEPT ![new] = "posted"] ELSE overlaps BY <1>6
  <2>4. "posted" \in OverlapStates BY DEF OverlapStates, UnderWay
  <2> HIDE DEF asked
  <2>2. CASE asked BY <1>3, <1>5, <2>1, <2>2, <2>4 DEF asked
  <2>3. CASE ~asked BY <1>3, <2>1, <2>3 DEF asked
  <2> QED BY <2>2, <2>3
<1>10. /\ router' \in [at: {"server", "run"}, universe: Nat, iface: Nat]
       /\ router'.at = "server" => router'.iface = at + 1 /\ at + 1 \in 1..F
  <2>1. at \in Nat /\ at = router.iface BY <1>4 DEF at
  <2>2. CASE at < F
    <3>1. router' = [router EXCEPT !.iface = @ + 1] BY <1>1, <2>2
    <3>2. router' \in [at: {"server"}, universe: Nat, iface: Nat] /\ router'.iface = at + 1 BY <1>1, <1>3, <2>1, <3>1
    <3> QED BY <1>4, <2>2, <3>2
  <2>3. CASE ~(at < F)
    <3>1. router' = [router EXCEPT !.at = "run"] BY <1>1, <2>3
    <3>2. router' \in [at: {"run"}, universe: Nat, iface: Nat] /\ router'.at = "run" BY <1>3, <3>1
    <3> QED BY <3>2
  <2> QED BY <2>2, <2>3
<1>11. \A id \in Ids : Exists(id)' <=> sockmap'[id] # NoEntry BY DEF Exists
<1>12. \A id \in Ids : Open(id)' <=> sockmap'[id] # NoEntry /\ sockmap'[id].active BY <1>11 DEF Open
<1>13. Opening' BY <1>10 DEF Opening
<1>14. \A id \in Ids : sockmap'[id] # NoEntry => Exists(id) \/ (id = new /\ sockmap'[id] = fresh)
  BY <1>8 DEF Exists
<1>15. SockTypes'
  <2>1. router' \in [at: {"listen", "server", "run"} \cup Closing, universe: Nat, iface: Nat] BY <1>10
  <2>2. router'.at = "server" => router'.iface \in DOMAIN setup.ifaces BY <1>4, <1>10
  <2> QED BY <1>1, <1>3, <1>8, <1>9, <1>10, <2>1, <2>2 DEF SockTypes
<1>16. IdsBelow'
  <2> SUFFICES ASSUME router'.at = "server", NEW id \in Ids, id >= Made(router)', sockmap'[id] # NoEntry PROVE FALSE
    BY <1>10, <1>11 DEF IdsBelow
  <2>1. Made(router)' = base + (at + 1) - 1 BY <1>10 DEF Made, Targets, base
  <2>2. Made(router) = base + at - 1 BY <1>1 DEF Made, base, at
  <2>3. base \in Nat /\ at \in Nat \ {0} /\ id \in Nat
    <3>1. \A m, n \in Nat : m * n \in Nat OBVIOUS
    <3> QED BY <1>4, <3>1, IdsAreNumbers DEF base
  <2> DEFINE before == Made(router)
             after == Made(router)'
  <2>4. id >= after /\ (Exists(id) \/ id <= before) BY <1>5, <1>14
  <2> HIDE DEF before, after
  <2>5. id >= before /\ ~(id <= before) /\ before \in Nat BY <2>1, <2>2, <2>3, <2>4 DEF before, after
  <2>6. ~Exists(id) BY <1>1, <1>3, <2>5 DEF IdsBelow, before
  <2> QED BY <2>4, <2>5, <2>6
<1>17. FreshLeft' BY <1>10 DEF FreshLeft
<1>18. JoinedAsked'
  <2>1. \A id \in Ids : sockmap'[id] # NoEntry => \A a \in sockmap'[id].joined : <<a, id>> \in subs
    BY <1>7, <1>8, <1>14 DEF SockInv, JoinedAsked
  <2> QED BY <1>1, <1>11, <2>1 DEF JoinedAsked
<1>19. RoomKept'
  <2>1. Cardinality({}) = 0 /\ IsFiniteSet({}) /\ 0 <= Room BY FS_EmptySet, SocketsAssumption
  <2>2. \A id \in Ids : sockmap'[id] # NoEntry => IsFiniteSet(sockmap'[id].sublist) /\ Cardinality(sockmap'[id].sublist) <= Room
    <3> SUFFICES ASSUME NEW id \in Ids, sockmap'[id] # NoEntry
                 PROVE  IsFiniteSet(sockmap'[id].sublist) /\ Cardinality(sockmap'[id].sublist) <= Room
      OBVIOUS
    <3>1. CASE Exists(id) BY <1>8, <3>1 DEF SockInv, RoomKept
    <3>2. CASE sockmap'[id] = fresh BY <1>7, <2>1, <3>2
    <3> QED BY <1>14, <3>1, <3>2
  <2> QED BY <1>11, <2>2 DEF RoomKept
<1>20. ThreadsServe'
  <2>1. ThreadsServe BY DEF SockInv
  <2>2. listeners[new].pc = "none"
    <3>1. ~Open(new) BY <1>5 DEF Open, Exists
    <3> QED BY <1>3, <1>5, <2>1, <3>1 DEF ThreadsServe
  <2>3. \A id \in Ids : listeners[id].pc # "none" /\ sockmap'[id] # NoEntry => sockmap'[id].manual
    BY <1>8, <1>14, <2>1, <2>2 DEF ThreadsServe
  <2>4. \A id \in Ids : sockmap'[id] # NoEntry /\ sockmap'[id].active /\ sockmap'[id].manual => Serving(listeners[id])
    <3> SUFFICES ASSUME NEW id \in Ids, sockmap'[id] # NoEntry, sockmap'[id].active, sockmap'[id].manual
                 PROVE  Serving(listeners[id])
      OBVIOUS
    <3>1. Exists(id) BY <1>7, <1>14
    <3>2. Open(id) /\ sockmap[id].manual BY <1>8, <3>1 DEF Open
    <3> QED BY <1>3, <2>1, <3>2 DEF ThreadsServe
  <2>5. \A id \in Ids : Open(id) => Open(id)' /\ sockmap'[id] = sockmap[id] BY <1>8, <1>12 DEF Open, Exists
  <2>6. \A s \in subs : Open(s[2])' /\ sockmap'[s[2]].manual
    <3> TAKE s \in subs
    <3> DEFINE o == s[2]
    <3>1. o \in Ids BY <1>3 DEF SockTypes
    <3>2. Open(o) /\ sockmap[o].manual BY <1>3, <2>1 DEF ThreadsServe
    <3> HIDE DEF o
    <3>3. Open(o)' /\ sockmap'[o].manual BY <2>5, <3>1, <3>2
    <3> QED BY <3>3 DEF o
  <2>7. \A id \in Ids : listeners[id].pc # "none" => Open(id)' BY <1>3, <2>1, <2>5 DEF ThreadsServe
  <2>8. \A id \in Ids : Serving(listeners[id])' <=> Serving(listeners[id]) BY <1>1 DEF Serving
  <2> QED BY <1>1, <1>11, <1>12, <2>3, <2>4, <2>6, <2>7, <2>8 DEF ThreadsServe
<1>21. QueuesAsked'
  <2>1. QueuesAsked BY DEF SockInv
  <2>2. \A a : Asked(a)' <=> Asked(a) BY <1>1 DEF Asked
  <2>3. \A id \in Ids : sockmap'[id] # NoEntry /\ sockmap'[id].manual => \A p \in ToSet(buffer[id]) : Asked(p)
    <3> SUFFICES ASSUME NEW id \in Ids, sockmap'[id] # NoEntry, sockmap'[id].manual, NEW p \in ToSet(buffer[id])
                 PROVE  Asked(p)
      OBVIOUS
    <3>1. Exists(id) BY <1>7, <1>14
    <3>2. sockmap[id].manual BY <1>8, <3>1
    <3> QED BY <2>1, <3>1, <3>2 DEF QueuesAsked
  <2>4. \A id \in Ids : ~Exists(id)' => buffer[id] = <<>>
    <3>1. \A id \in Ids : ~Exists(id)' => ~Exists(id) BY <1>8, <1>11 DEF Exists
    <3> QED BY <1>3, <2>1, <3>1 DEF QueuesAsked
  <2>5. \A id \in Ids : listeners[id].pc \in {"check", "notify"} => Asked(listeners[id].address) BY <2>1 DEF QueuesAsked
  <2> QED BY <1>1, <1>11, <2>2, <2>3, <2>4, <2>5 DEF QueuesAsked
<1>22. ReaderHolds'
  <2>1. ReaderHolds /\ reader.ready \subseteq Ids BY InvGives DEF SockInv
  <2>2. \A id \in reader.ready : ~sockmap'[id].manual /\ buffer[id] # <<>> /\ Open(id)'
    <3> TAKE id \in reader.ready
    <3>1. Open(id) /\ Exists(id) /\ sockmap[id].active /\ ~sockmap[id].manual /\ buffer[id] # <<>> /\ id \in Ids
      BY <1>3, <2>1 DEF ReaderHolds, Open
    <3>2. sockmap'[id] = sockmap[id] BY <1>8, <3>1
    <3> QED BY <1>12, <3>1, <3>2 DEF Exists
  <2>3. ~Select => reader = [pc |-> "idle", ready |-> {}] BY <2>1 DEF ReaderHolds
  <2> QED BY <1>1, <2>2, <2>3 DEF ReaderHolds, Select
<1>23. WorkersHold'
  <2>1. Opening' /\ Early' /\ (Select' <=> Select) BY <1>10, <1>13 DEF Early, Select
  <2>2. ASSUME NEW id \in Ids PROVE OverlapFits(id)'
    <3>1. OverlapFits(id) BY DEF SockInv, WorkersHold
    <3>2. CASE Exists(id)
      <4>1. sockmap'[id] = sockmap[id] /\ id # new /\ sockmap[id] # NoEntry BY <1>5, <1>8, <3>2 DEF Exists
      <4>2. overlaps'[id] = overlaps[id] BY <1>9, <4>1
      <4>3. Exists(id)' /\ (Open(id)' <=> Open(id)) BY <1>11, <1>12, <3>2, <4>1 DEF Open
      <4> QED BY <1>3, <2>1, <3>1, <3>2, <4>1, <4>2, <4>3 DEF OverlapFits
    <3>3. CASE ~Exists(id)
      <4>1. overlaps[id] = "none" BY <1>3, <3>1, <3>3 DEF OverlapFits
      <4>2. CASE sockmap'[id] = NoEntry
        <5>1. id # new \/ sockmap' = sockmap BY <1>3, <1>5, <1>6, <4>2
        <5>2. overlaps'[id] = "none" BY <1>9, <4>1, <5>1
        <5> QED BY <1>11, <4>2, <5>2 DEF OverlapFits, UnderWay
      <4>3. CASE sockmap'[id] # NoEntry
        <5>1. id = new /\ sockmap'[id] = fresh BY <1>14, <3>3, <4>3
        <5>2. sockmap' # sockmap BY <1>5, <4>3, <5>1
        <5>3. overlaps'[id] = IF ~Select /\ fresh.active THEN "posted" ELSE "none" BY <1>9, <4>1, <5>1, <5>2
        <5>4. Exists(id)' /\ (Open(id)' <=> fresh.active) BY <1>11, <1>12, <4>3, <5>1
        <5> QED BY <1>7, <2>1, <5>1, <5>3, <5>4 DEF OverlapFits, UnderWay
      <4> QED BY <4>2, <4>3
    <3> QED BY <3>2, <3>3
  <2> QED BY <2>1, <2>2 DEF WorkersHold
<1>24. StagesHold'
  <2>1. pnotify BY <1>1 DEF SockInv, StagesHold, Closing
  <2> QED BY <1>1, <1>10, <2>1 DEF StagesHold
<1>25. Progress'
  <2>1. \A a : Held(a)' <=> Held(a)
    <3>1. \A a : Held(a)' <=> \E id \in Ids : sockmap'[id] # NoEntry /\ a \in sockmap'[id].joined BY <1>11 DEF Held
    <3>2. \A id \in Ids : \A a : sockmap'[id] # NoEntry /\ a \in sockmap'[id].joined <=> Exists(id) /\ a \in sockmap[id].joined
      BY <1>7, <1>8, <1>14 DEF Exists
    <3> QED BY <3>1, <3>2 DEF Held
  <2>2. \A n : Settled(n)' <=> Settled(n) BY <1>1, <2>1 DEF Settled
  <2>3. \A n \in DOMAIN setup.universes : Settled(n) BY <1>1 DEF SockInv, Progress
  <2> QED BY <1>10, <2>2, <2>3 DEF Progress
<1> QED BY <1>15, <1>16, <1>17, <1>18, <1>19, <1>20, <1>21, <1>22, <1>23, <1>24, <1>25 DEF SockInv

LEMMA SockInvStarts == SocketsInit => SockInv
<1> SUFFICES ASSUME SocketsInit PROVE SockInv OBVIOUS
<1> USE DEF SocketsInit
<1>1. /\ \A id \in Ids : /\ sockmap[id] = NoEntry /\ buffer[id] = <<>> /\ listeners[id] = [pc |-> "none"]
                         /\ overlaps[id] = "none"
      /\ router.at = "listen" /\ router.universe = 1 /\ router.iface = 1 /\ pnotify = TRUE /\ reader.ready = {}
  OBVIOUS
<1>2. setup \in Setups OBVIOUS
<1>3. 1 \in DOMAIN setup.universes /\ 1 \in DOMAIN Targets BY <1>2, SetupFacts
<1>4. \A id \in Ids : ~Exists(id) BY <1>1 DEF Exists
<1>5. \A id \in Ids : ~Open(id) BY <1>4 DEF Open
<1>6. <<>> \in Seq(Addresses) /\ Len(<<>>) = 0 OBVIOUS
<1>7. SockTypes
  <2>5. overlaps \in [Ids -> OverlapStates] BY DEF OverlapStates
  <2>1. [pc |-> "none"] \in Listener BY ListenersAre
  <2>2. QueueBound \in Nat BY SocketsAssumption
  <2>3. buffer \in [Ids -> Seq(Addresses)] /\ \A id \in Ids : Len(buffer[id]) <= QueueBound BY <1>1, <1>6, <2>2
  <2>4. listeners \in [Ids -> Listener] BY <2>1
  <2> QED BY <1>1, <1>2, <1>3, <2>3, <2>4, <2>5 DEF SockTypes
<1>8. IdsBelow /\ JoinedAsked /\ RoomKept BY <1>4 DEF IdsBelow, JoinedAsked, RoomKept
<1>9. FreshLeft BY DEF FreshLeft
<1>10. ThreadsServe BY <1>1, <1>4, <1>5 DEF ThreadsServe
<1>11. QueuesAsked BY <1>1, <1>4 DEF QueuesAsked
<1>12. ReaderHolds BY <1>1 DEF ReaderHolds
<1>13. WorkersHold
  <2>1. Early BY <1>1 DEF Early
  <2> QED BY <1>1, <1>4, <2>1 DEF WorkersHold, OverlapFits, UnderWay
<1>14. StagesHold BY <1>1 DEF StagesHold
<1>15. Progress
  <2>1. \A n \in DOMAIN setup.universes : n \in Nat /\ ~(n < 1) BY <1>2, SetupFacts
  <2>2. 1..(1 - 1) = {} OBVIOUS
  <2> QED BY <1>1, <2>1, <2>2 DEF Progress
<1> QED BY <1>7, <1>8, <1>9, <1>10, <1>11, <1>12, <1>13, <1>14, <1>15 DEF SockInv

LEMMA SockInvKept ==
  ASSUME SockInv, [SocketsNext]_<<setup, sockVars>>
  PROVE  SockInv'
<1>1. CASE UNCHANGED <<setup, sockVars>>
  <2>1. UNCHANGED <<setup, sockmap, buffer, subs, listeners, reader, overlaps, router, pnotify, connected, nullCall>>
    BY <1>1 DEF sockVars
  <2> QED BY <2>1, InvGives, PacketsMove
<1>2. CASE SocketsNext
  <2>1. UNCHANGED setup BY <1>2 DEF SocketsNext
  <2>2. CASE RouterActs \/ StopRun
    BY <2>1, <2>2, ListenSocketsKeeps, ServerStartupKeeps, ServerShutdownKeeps, SilenceKeeps, ClientShutdownKeeps,
       JoinThreadsKeeps, NetShutdownKeeps, NetEndKeeps, StopRunKeeps
    DEF RouterActs
  <2>3. CASE ReaderActs BY <2>1, <2>3, ReaderSelectsKeeps, ReaderLocksKeeps, ReaderReadsKeeps DEF ReaderActs
  <2>4. ASSUME NEW id \in Ids,
               ThreadActs(id) \/ ReceiveFails(id) \/ WorkerActs(id) \/ ReadFails(id) \/ ArriveAtServer(id)
        PROVE  SockInv'
    BY <2>1, <2>4, LookupKeeps, ReceiveIntoKeeps, ReceiveFailsKeeps, CheckKeeps, NotificationKeeps, WorkerReceivesKeeps, WorkerFailsKeeps,
       CompletesKeeps, ArriveAtServerKeeps
    DEF ThreadActs, WorkerActs
  <2>5. ASSUME NEW a \in Addresses, Arrive(a) PROVE SockInv' BY <2>1, <2>5, ArriveKeeps
  <2> QED BY <1>2, <2>2, <2>3, <2>4, <2>5 DEF SocketsNext
<1> QED BY <1>1, <1>2

-----------------------------------------------------------------------------

LEMMA SocketsHoldAlways == SocketsSpec => []SockInv
<1>1. SocketsInit => SockInv BY SockInvStarts
<1>2. SockInv /\ [SocketsNext]_<<setup, sockVars>> => SockInv' BY SockInvKept
<1> QED BY <1>1, <1>2, PTL DEF SocketsSpec

LEMMA InvIsSound == SockInv => SocketsSound
<1> SUFFICES ASSUME SockInv PROVE SocketsSound OBVIOUS
<1>1. SockTypes /\ setup \in Setups /\ sockmap \in [Ids -> Entry \cup {NoEntry}] BY DEF SockInv, SockTypes
<1>2. SocketsTypeOK
  <2>1. SetUniverses \subseteq {a[1] : a \in Addresses}
    <3> SUFFICES ASSUME NEW s \in Setups, NEW u \in ToSet(s.universes) PROVE u \in {a[1] : a \in Addresses}
      BY DEF SetUniverses
    <3>1. s.ifaces \in Seq(ToSet(s.ifaces)) /\ s.ifaces # <<>> BY SocketsAssumption
    <3>2. 1 \in DOMAIN s.ifaces BY <3>1
    <3>3. <<u, s.ifaces[1]>> \in Addresses BY <3>2 DEF Addresses, ToSet
    <3>4. <<u, s.ifaces[1]>>[1] = u OBVIOUS
    <3> QED BY <3>3, <3>4
  <2>2. connected \subseteq {a[1] : a \in Addresses} BY <1>1, <2>1 DEF SockTypes
  <2> QED BY <1>1, <2>2 DEF SocketsTypeOK, SockTypes, OverlapStates
<1>3. ShownIsJoined
  <2> SUFFICES ASSUME router.at = "run" PROVE ShownIsJoined BY DEF ShownIsJoined
  <2>1. \A id \in Ids : Exists(id) => Cardinality(sockmap[id].sublist) <= Room BY DEF SockInv, RoomKept
  <2>2. \A n \in DOMAIN setup.universes, i \in ToSet(setup.listed) :
          LET holders == {id \in Ids : Exists(id) /\ <<setup.universes[n], i>> \in sockmap[id].joined}
          IN IF setup.universes[n] \in connected
             THEN \E id \in holders : ~Ended(listeners[id]) \/ listeners[id].pc = "failed"
             ELSE holders = {}
    <3> TAKE n \in DOMAIN setup.universes, i \in ToSet(setup.listed)
    <3> DEFINE a == <<setup.universes[n], i>>
               holders == {id \in Ids : Exists(id) /\ a \in sockmap[id].joined}
    <3>1. Held(a) <=> setup.universes[n] \in connected BY DEF SockInv, Progress, Settled
    <3> HIDE DEF a
    <3>2. Held(a) <=> holders # {} BY DEF Held
    <3>3. \A id \in holders : ~Ended(listeners[id]) \/ listeners[id].pc = "failed"
      <4> TAKE id \in holders
      <4>1. <<a, id>> \in subs BY DEF SockInv, JoinedAsked
      <4>2. <<a, id>>[2] = id OBVIOUS
      <4>3. Open(id) /\ sockmap[id].manual BY <4>1, <4>2 DEF SockInv, ThreadsServe, Opening
      <4>4. Serving(listeners[id]) BY <4>3 DEF SockInv, ThreadsServe, Opening
      <4> QED BY <4>4 DEF Serving, Ended
    <3> HIDE DEF holders
    <3> QED BY <3>1, <3>2, <3>3 DEF holders, a
  <2> QED BY <2>1, <2>2 DEF ShownIsJoined
<1>4. ReadsHaveEntries
  <2> SUFFICES ASSUME ~Select, NEW id \in Ids
               PROVE  /\ overlaps[id] \in UnderWay => Exists(id) /\ ~sockmap[id].manual
                      /\ Exists(id) /\ ~sockmap[id].manual /\ overlaps[id] \notin UnderWay =>
                           \/ overlaps[id] = "lost"
                           \/ ~Open(id) /\ overlaps[id] = "none"
                           \/ ~Open(id) /\ overlaps[id] = "failed" /\ router.at \in {"listen", "server", "run", "stopServer"}
    BY DEF ReadsHaveEntries
  <2>1. OverlapFits(id) /\ (Early \/ ServerLeft(id)) BY DEF SockInv, WorkersHold
  <2> QED BY <2>1 DEF OverlapFits, ServerLeft, UnderWay, Early
<1>5. ReaderNeverWaits BY DEF SockInv, ReaderHolds, ReaderNeverWaits
<1> QED BY <1>2, <1>3, <1>4, <1>5 DEF SocketsSound

\* A universe that RouterThread shows as connected is joined on every interface that was
\* selected, by a socket with a thread that receives unless a read of it has failed, and no
\* other has a membership left, whatever failed while the client listened; no socket has more
\* memberships than it may have; on Windows nothing is read into an entry that is gone, and an
\* entry without a read had no buffer for it, or is closed, and where its read has failed is
\* deleted with the server; and the read thread never waits with the lock in its hand.
THEOREM SocketsAreSound == SocketsSpec => []SocketsSound
<1>1. SockInv => SocketsSound BY InvIsSound
<1> QED BY <1>1, SocketsHoldAlways, PTL

-----------------------------------------------------------------------------
(* The refinement: what RouterThread expects of the client.                *)

\* The state of Listening.
StageIs ==
  IF nullCall \/ router.at \in {"stopNet", "joinNet", "end"} THEN "closed"
  ELSE IF router.at \in {"listen", "server", "run"} THEN "open" ELSE "closing"
AskedIs == IF setup.platform = "linux" THEN Addresses ELSE {s[1] : s \in subs}

\* What does not touch it.
LEMMA ListeningStutters ==
  ASSUME UNCHANGED <<setup, subs, nullCall, lastHeard>>,
         \/ UNCHANGED router
         \/ router.at \in {"listen", "server"} /\ router'.at \in {"listen", "server", "run"}
         \/ router.at \in {"stopServer", "silence", "stopClient"} /\ router'.at \in {"silence", "stopClient", "join"}
         \/ router.at \in {"stopNet", "joinNet"} /\ router'.at \in {"joinNet", "end"}
  PROVE  UNCHANGED <<AskedIs, lastHeard, StageIs>>
<1>1. AskedIs' = AskedIs BY DEF AskedIs
<1>2. StageIs' = StageIs BY DEF StageIs
<1> QED BY <1>1, <1>2

LEMMA ListeningStep ==
  ASSUME SockInv, SocketsNext
  PROVE  Promise!ListenNext \/ UNCHANGED <<AskedIs, lastHeard, StageIs>>
<1> DEFINE Stutter == UNCHANGED <<AskedIs, lastHeard, StageIs>>
           Step == Promise!ListenNext
<1> USE DEF AskedIs, StageIs
<1>1. UNCHANGED setup /\ ~nullCall BY DEF SocketsNext
<1>2. ASSUME ListenSockets PROVE Step \/ Stutter
  <2>1. PICK x \in Attempts(Current) :
          /\ subs' = IF x.ok THEN subs \cup {<<Current, x.id>>} ELSE subs
          /\ \E last \in BOOLEAN :
               /\ last \/ router.iface # Len(Targets)
               /\ router' = IF last THEN NextUniverse ELSE [router EXCEPT !.iface = @ + 1]
    <3>1. PICK x \in Attempts(Current) :
            LET failed == ~x.ok /\ setup.listed # <<>>
                last == failed \/ router.iface = Len(Targets)
            IN /\ subs' = IF x.ok THEN subs \cup {<<Current, x.id>>} ELSE subs
               /\ router' = IF last THEN NextUniverse ELSE [router EXCEPT !.iface = @ + 1]
      BY <1>2 DEF ListenSockets
    <3> DEFINE failed == ~x.ok /\ setup.listed # <<>>
               last == failed \/ router.iface = Len(Targets)
    <3>2. last \in BOOLEAN /\ (last \/ router.iface # Len(Targets)) OBVIOUS
    <3>3. router' = IF last THEN NextUniverse ELSE [router EXCEPT !.iface = @ + 1] BY <3>1
    <3> HIDE DEF last
    <3> QED BY <3>1, <3>2, <3>3
  <2>2. router.at = "listen" /\ UNCHANGED <<nullCall, lastHeard>> BY <1>2 DEF ListenSockets
  <2>3. SockTypes /\ setup \in Setups BY DEF SockInv, SockTypes
  <2>4. router'.at \in {"listen", "server"} BY <1>1, <2>1, <2>2, <2>3, NextIs
  <2>5. CASE subs' = subs BY <1>1, <2>2, <2>4, <2>5, ListeningStutters
  <2>6. CASE subs' # subs
    <3>1. Current \in Addresses
      <4>1. router.universe \in DOMAIN setup.universes /\ router.iface \in DOMAIN Targets BY <2>2, <2>3 DEF SockTypes
      <4> QED BY <2>3, <4>1, SetupFacts DEF Current
    <3>2. PICK a \in Addresses : a = Current BY <3>1
    <3>3. {s[1] : s \in subs'} = {s[1] : s \in subs} \cup {a}
      <4>1. subs' = subs \cup {<<a, x.id>>} BY <2>1, <2>6, <3>2
      <4>2. <<a, x.id>>[1] = a OBVIOUS
      <4> QED BY <4>1, <4>2
    <3>4. AskedIs' = AskedIs \cup {a} BY <1>1, <3>3
    <3>5. StageIs = "open" /\ StageIs' = "open" BY <1>1, <2>2, <2>4
    <3>6. Promise!Ask(a) BY <2>2, <3>4, <3>5 DEF Promise!Ask
    <3> HIDE DEF AskedIs, StageIs
    <3> QED BY <3>6 DEF Promise!ListenNext
  <2> QED BY <2>5, <2>6
<1>3. ASSUME ServerStartup PROVE Step \/ Stutter
  <2>1. router.at = "server" /\ UNCHANGED <<subs, nullCall, lastHeard>> BY <1>3 DEF ServerStartup
  <2>2. router'.at \in {"server", "run"}
    <3>1. router \in [at: {"listen", "server", "run"} \cup Closing, universe: Nat, iface: Nat] BY DEF SockInv, SockTypes
    <3>2. router' \in {[router EXCEPT !.iface = @ + 1], [router EXCEPT !.at = "run"]} BY <1>3 DEF ServerStartup
    <3> QED BY <2>1, <3>1, <3>2
  <2> QED BY <1>1, <2>1, <2>2, ListeningStutters
<1>4. ASSUME ServerShutdown \/ Silence \/ ClientShutdown PROVE Step \/ Stutter
  <2>1. UNCHANGED <<subs, nullCall, lastHeard>> BY <1>4 DEF ServerShutdown, Silence, ClientShutdown
  <2>2. router \in [at: {"listen", "server", "run"} \cup Closing, universe: Nat, iface: Nat] BY DEF SockInv, SockTypes
  <2>3. \/ UNCHANGED router
        \/ /\ router.at \in {"stopServer", "silence", "stopClient"}
           /\ \E at \in {"silence", "stopClient", "join"} : router' = [router EXCEPT !.at = at]
    BY <1>4 DEF ServerShutdown, Silence, ClientShutdown
  <2>4. \/ UNCHANGED router
        \/ router.at \in {"stopServer", "silence", "stopClient"} /\ router'.at \in {"silence", "stopClient", "join"}
    BY <2>2, <2>3
  <2> QED BY <1>1, <2>1, <2>4, ListeningStutters
<1>5. ASSUME NetShutdown \/ NetEnd PROVE Step \/ Stutter
  <2>1. UNCHANGED <<subs, nullCall, lastHeard>> BY <1>5 DEF NetShutdown, NetEnd
  <2>2. router \in [at: {"listen", "server", "run"} \cup Closing, universe: Nat, iface: Nat] BY DEF SockInv, SockTypes
  <2>3. router.at \in {"stopNet", "joinNet"} /\ \E at \in {"joinNet", "end"} : router' = [router EXCEPT !.at = at]
    BY <1>5 DEF NetShutdown, NetEnd
  <2>4. router'.at \in {"joinNet", "end"} BY <2>2, <2>3
  <2> QED BY <1>1, <2>1, <2>3, <2>4, ListeningStutters
<1>6. ASSUME JoinThreads PROVE Step
  <2>1. router.at = "join" /\ router' = [router EXCEPT !.at = "stopNet"] /\ UNCHANGED <<subs, nullCall, lastHeard>>
    BY <1>6 DEF JoinThreads
  <2>2. router'.at = "stopNet"
    <3>1. router \in [at: {"listen", "server", "run"} \cup Closing, universe: Nat, iface: Nat] BY DEF SockInv, SockTypes
    <3> QED BY <2>1, <3>1
  <2>3. StageIs = "closing" /\ StageIs' = "closed" /\ AskedIs' = AskedIs BY <1>1, <2>1, <2>2
  <2> QED BY <2>1, <2>3 DEF Promise!ListenNext, Promise!Closed
<1>7. ASSUME StopRun PROVE Step
  <2>1. router.at = "run" /\ router' = [router EXCEPT !.at = "stopServer"] /\ UNCHANGED <<subs, nullCall, lastHeard>>
    BY <1>7 DEF StopRun
  <2>2. router'.at = "stopServer"
    <3>1. router \in [at: {"listen", "server", "run"} \cup Closing, universe: Nat, iface: Nat] BY DEF SockInv, SockTypes
    <3> QED BY <2>1, <3>1
  <2>3. StageIs = "open" /\ StageIs' = "closing" /\ AskedIs' = AskedIs BY <1>1, <2>1, <2>2
  <2> QED BY <2>1, <2>3 DEF Promise!ListenNext, Promise!Close
<1>8. ASSUME ReaderActs PROVE Stutter
  BY <1>1, <1>8, ListeningStutters DEF ReaderActs, ReaderSelects, ReaderLocks, ReaderReads
<1>9. ASSUME NEW id \in Ids,
             WorkerActs(id) \/ ReadFails(id) \/ ArriveAtServer(id) \/ Lookup(id) \/ ReceiveInto(id) \/ ReceiveFails(id) \/ Check(id)
      PROVE  Stutter
  <2>1. CASE WorkerActs(id) \/ ReadFails(id)
    BY <1>1, <2>1, ListeningStutters DEF WorkerActs, WorkerReceives, WorkerFails, ReadFails, Completes
  <2>2. CASE ArriveAtServer(id) BY <1>1, <2>2, ListeningStutters DEF ArriveAtServer
  <2>3. CASE Lookup(id) \/ ReceiveInto(id) \/ ReceiveFails(id) \/ Check(id)
    BY <1>1, <2>3, ListeningStutters DEF Lookup, ReceiveInto, ReceiveFails, Check
  <2> QED BY <1>9, <2>1, <2>2, <2>3
<1>10. ASSUME NEW id \in Ids, Notify(id) PROVE Step
  <2> DEFINE a == listeners[id].address
  <2>1. listeners[id].pc = "notify" /\ UNCHANGED <<subs, router, pnotify>> BY <1>10 DEF Notify
  <2>2. router.at \notin {"stopNet", "joinNet", "end"} BY <2>1 DEF SockInv, StagesHold, Ended
  <2>3. Asked(a) /\ a \in Addresses
    <3>1. Asked(a) BY <2>1 DEF SockInv, QueuesAsked
    <3>2. listeners[id] \in Listener BY DEF SockInv, SockTypes
    <3> QED BY <2>1, <3>1, <3>2, ListenersAre
  <2>4. a \in AskedIs BY <2>3 DEF Asked
  <2>5. AskedIs' = AskedIs BY <1>1, <2>1
  <2>6. \/ lastHeard' = {a} /\ UNCHANGED nullCall
        \/ ~pnotify /\ nullCall' = TRUE /\ UNCHANGED lastHeard
    BY <1>10 DEF Notify
  <2> HIDE DEF a
  <2>7. CASE lastHeard' = {a} /\ UNCHANGED nullCall
    <3>1. StageIs' = StageIs /\ StageIs # "closed" BY <1>1, <2>1, <2>2, <2>7
    <3> HIDE DEF AskedIs, StageIs
    <3>2. Promise!Hear(a) BY <2>4, <2>5, <2>7, <3>1 DEF Promise!Hear, AskedIs, StageIs
    <3> QED BY <2>3, <3>2 DEF Promise!ListenNext
  <2>8. CASE ~pnotify /\ nullCall' = TRUE /\ UNCHANGED lastHeard
    <3>1. router.at \notin {"listen", "server", "run"} BY <2>8 DEF SockInv, StagesHold, Closing
    <3>2. StageIs = "closing" /\ StageIs' = "closed" BY <1>1, <2>1, <2>2, <2>8, <3>1
    <3> QED BY <2>5, <2>8, <3>2 DEF Promise!ListenNext, Promise!Closed
  <2> QED BY <2>6, <2>7, <2>8
<1>11. ASSUME NEW a \in Addresses, Arrive(a) PROVE Stutter BY <1>1, <1>11, ListeningStutters DEF Arrive
<1> HIDE DEF Step, Stutter
<1> QED BY <1>2, <1>3, <1>4, <1>5, <1>6, <1>7, <1>8, <1>9, <1>10, <1>11
     DEF SocketsNext, RouterActs, ThreadActs, Step, Stutter

\* The threads, the sockets, the buffers and the shutdown together do what RouterThread
\* expects of IStreamACNCli: only what was asked for is notified, and nothing more once
\* Shutdown has returned, on each kind of platform and however many sockets it took.
THEOREM SocketsKeepPromise == SocketsSpec => Promise!ListenSteps
<1>1. SocketsInit => Promise!ListenInit
  <2> SUFFICES ASSUME SocketsInit PROVE Promise!ListenInit OBVIOUS
  <2>1. subs = {} /\ lastHeard = {} /\ ~nullCall /\ router.at = "listen" BY DEF SocketsInit
  <2>2. {s[1] : s \in subs} = {} BY <2>1
  <2> QED BY <2>1, <2>2 DEF Promise!ListenInit
<1>2. SockInv /\ [SocketsNext]_<<setup, sockVars>> => [Promise!ListenNext]_(Promise!listenVars)
  <2>1. CASE UNCHANGED <<setup, sockVars>>
    BY <2>1 DEF sockVars, Promise!listenVars
  <2>2. SockInv /\ SocketsNext => [Promise!ListenNext]_(Promise!listenVars)
    BY ListeningStep DEF Promise!listenVars, AskedIs, StageIs
  <2> QED BY <2>1, <2>2
<1> QED BY <1>1, <1>2, SocketsHoldAlways, PTL DEF SocketsSpec, Promise!ListenSteps
=============================================================================
