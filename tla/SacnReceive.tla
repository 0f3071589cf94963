----------------------------- MODULE SacnReceive -----------------------------
(***************************************************************************)
(* An sACN universe from the packets of its sources to the levels that are *)
(* routed.  Two threads share it:                                          *)
(*                                                                         *)
(*  - a socket thread runs CStreamClient::ParsePacket, which updates the   *)
(*    client's record of the source under the client's lock, releases the  *)
(*    lock and only then calls RouterThread::UniverseData;                 *)
(*  - the router thread runs MainLoop, which now and then calls            *)
(*    CStreamClient::FindExpiredSources (cache under the lock, notify      *)
(*    after it) and then merges and routes the universe if it is dirty.    *)
(*                                                                         *)
(* Sources are numbered in CID order and source s has IP address s.        *)
(* Timers are flags: `late` once the interval has run out.  One universe   *)
(* is modelled: universes share nothing but the locks.                     *)
(***************************************************************************)
EXTENDS SacnUniverse, FiniteSets

CONSTANTS
  Threads,          \* socket threads: one for a select build, more elsewhere
  Codes,            \* per source the start codes it uses: "dmx", "priority", "other"
  Priorities,       \* packet priorities in use
  Values,           \* slot values of the packets
  SeqSize,           \* sequence numbers are modulo this: 256 in the code
  SeqWindow,        \* width of the window of old packets: 20 in the code
  LevelChangesOnly, \* the setting of that name
  Leaving,          \* sources that may stop sending for good
  Mutes,            \* what the user may set the incoming mute to
  Prompt,           \* a callback takes less time than the interval its packet set
  None,             \* no record, no callback, no previous levels
  Discarded         \* what became of the levels when incoming data is muted

Sources == 1..N

ASSUME ReceiveAssumption ==
  /\ N \in Nat
  /\ Codes \in [Sources -> SUBSET {"dmx", "priority", "other"}]
  /\ Priorities \subseteq Priority
  /\ Values \subseteq Levels \cap Priority
  /\ 0 \in Levels
  /\ SeqSize \in Nat \ {0}
  /\ SeqWindow \in 0..SeqSize
  /\ {LevelChangesOnly, Prompt} \cup Mutes \subseteq BOOLEAN
  /\ Leaving \subseteq Sources
  /\ Absent \notin Universe

SeqNumber == 0..(SeqSize - 1)

\* CStreamClient::universedata.
Record == [seq: SeqNumber, doingDmx: BOOLEAN, waitedForDd: BOOLEAN, doingPcp: BOOLEAN,
           dataLate: BOOLEAN, prioLate: BOOLEAN]

Packet ==
  {p \in [src: Sources, code: {"dmx", "priority", "other"}, seq: SeqNumber,
          priority: Priorities, value: Values] : p.code \in Codes[p.src]}

ASSUME NoneAssumption == None \notin Record \cup Packet \cup [Channels -> Levels]

VARIABLES
  client,    \* m_multiverse: per source its record, or None
  sampling,  \* m_sample: the universe is in its sampling period
  net,       \* per socket thread the notification it has yet to make, or None
  rpc,       \* where the router thread is: "listen", "top" or "recv"
  lost,      \* FindExpiredSources: data_cache, still to be notified
  pcpLost,   \* FindExpiredSources: priority_cache, still to be notified
  source,    \* m_sACNRecv.sources: per source its universe data, or Absent
  dirty,     \* the universe is in m_sACNRecv.dirtyUniverses
  merged,    \* m_sACNRecv.merged, or Absent
  prev,      \* its prevDMX, None while hasPrevDMX is false
  muteIn,    \* m_ItemStateTable's incoming mute
  muted,     \* the router thread's copy of it
  routed,    \* levels last taken to the routes
  silent,    \* sources that have stopped sending for good
  orphans,   \* socket threads whose notification is of a record erased since
  pcpOrphans,\* the same for a priority notification and an expiry of the priorities
  ghosts,    \* sources that an orphan notification has reached
  pcpGhosts  \* sources that a pcpOrphans notification has reached

clientVars == <<client, sampling>>
routerVars == <<rpc, lost, pcpLost>>
recvVars == <<source, dirty>>
outVars == <<merged, prev, routed, muted>>
ghostVars == <<orphans, pcpOrphans, ghosts, pcpGhosts>>
vars == <<clientVars, net, routerVars, recvVars, outVars, muteIn, silent, ghostVars>>

Init ==
  /\ client = [s \in Sources |-> None]
  /\ sampling = FALSE
  /\ net = [t \in Threads |-> None]
  /\ rpc = "listen" /\ lost = {} /\ pcpLost = {}
  /\ source = [s \in Sources |-> Absent]
  /\ dirty = FALSE
  /\ merged = Absent /\ prev = None /\ routed = None
  /\ muteIn = FALSE /\ muted = FALSE
  /\ silent = {}
  /\ orphans = {} /\ pcpOrphans = {} /\ ghosts = {} /\ pcpGhosts = {}

-----------------------------------------------------------------------------
(* The socket threads: CStreamClient::ParsePacket.                         *)

\* The sequence number is old, but not so old that the source has rebooted.
Stale(e, p) == (e.seq + SeqSize - p.seq) % SeqSize < SeqWindow

\* The record of a known source after its timers and sequence number are updated.
Refreshed(e, p) ==
  LET restarts == p.code = "priority" /\ e.waitedForDd
  IN  [e EXCEPT !.doingDmx = @ \/ p.code = "dmx",
                !.dataLate = @ /\ p.code # "dmx",
                !.doingPcp = @ \/ restarts,
                !.prioLate = @ /\ ~restarts,
                !.seq = IF Stale(e, p) THEN @ ELSE p.seq]

\* The record of a new source: only in the sampling period is 0xdd not waited for.
Added(p) ==
  [seq |-> p.seq, doingDmx |-> p.code = "dmx", waitedForDd |-> sampling,
   doingPcp |-> sampling /\ p.code = "priority", dataLate |-> FALSE, prioLate |-> FALSE]

\* Mutant: the first priorities are not remembered.
WaitedUnmarked(e, p) ==
  CASE ~e.doingDmx -> [e EXCEPT !.prioLate = FALSE]
    [] e.doingDmx /\ ~e.waitedForDd /\ (p.code = "priority" \/ e.prioLate) ->
         [e EXCEPT !.waitedForDd = TRUE, !.prioLate = FALSE]
    [] OTHER -> e

\* Waiting for priorities, or for WAIT_PRIORITY, before the first notification.
Waited(e, p) ==
  CASE ~e.doingDmx -> [e EXCEPT !.prioLate = FALSE]
    [] e.doingDmx /\ ~e.waitedForDd /\ p.code = "priority" ->
         [e EXCEPT !.waitedForDd = TRUE, !.doingPcp = TRUE, !.prioLate = FALSE]
    [] e.doingDmx /\ ~e.waitedForDd /\ p.code # "priority" /\ e.prioLate ->
         [e EXCEPT !.waitedForDd = TRUE, !.prioLate = FALSE]
    [] OTHER -> e

\* A packet with the stream_terminated bit from a known source: the timers start
\* again, with the shorter interval, and nobody is notified.
ReceiveTerminated(t, s) ==
  /\ net[t] = None
  /\ s \notin silent
  /\ client[s] # None
  /\ client' = [client EXCEPT ![s].waitedForDd = FALSE,
                              ![s].dataLate = FALSE,
                              ![s].prioLate = @ /\ ~client[s].doingPcp]
  /\ UNCHANGED <<sampling, net, routerVars, recvVars, outVars, muteIn, silent, ghostVars>>

\* Any other packet, also a terminated one from an unknown source.
Receive(t, p) ==
  /\ net[t] = None
  /\ p.src \notin silent
  /\ LET known == client[p.src] # None
         after == Waited(IF known THEN Refreshed(client[p.src], p) ELSE Added(p), p)
         notify == /\ known => ~Stale(client[p.src], p)
                   /\ after.doingDmx
                   /\ after.waitedForDd
     IN  /\ client' = [client EXCEPT ![p.src] = after]
         /\ net' = [net EXCEPT ![t] = IF notify THEN p ELSE None]
  /\ UNCHANGED <<sampling, routerVars, recvVars, outVars, muteIn, silent, ghostVars>>

-----------------------------------------------------------------------------
(* RouterThread::UniverseData, under m_sACNRecv.mutex.                     *)

\* Mutant: only levels call for a new merge.
CallsForMergeLevels(p) == p.code = "dmx"

CallsForMerge(p) == p.code # "other"

\* What a packet changes in the universe data of its source.
Stored(u, p) ==
  CASE p.code = "dmx" ->
         [u EXCEPT !.priority = p.priority, !.ip = p.src,
                   !.dmx = [c \in Channels |-> p.value]]
    [] p.code = "priority" ->
         [u EXCEPT !.pcp = TRUE, !.ip = p.src,
                   !.channelPriority = [c \in Channels |-> p.value]]
    [] p.code = "other" -> u

\* The notification is of an erased record, or of expired priorities.
LeavesGhost(t) ==
  /\ orphans' = orphans \ {t}
  /\ pcpOrphans' = pcpOrphans \ {t}
  /\ ghosts' = IF t \in orphans THEN ghosts \cup {net[t].src} ELSE ghosts
  /\ pcpGhosts' = IF t \in pcpOrphans THEN pcpGhosts \cup {net[t].src} ELSE pcpGhosts

UniverseData(t) ==
  /\ net[t] # None
  /\ LET p == net[t]
         u == IF source[p.src] = Absent THEN NoData ELSE source[p.src]
     IN  /\ source' = [source EXCEPT ![p.src] = Stored(u, p)]
         /\ dirty' = (dirty \/ CallsForMerge(p))
  /\ net' = [net EXCEPT ![t] = None]
  /\ LeavesGhost(t)
  /\ UNCHANGED <<clientVars, routerVars, outVars, muteIn, silent>>

-----------------------------------------------------------------------------
(* Time, the sources and the user.                                         *)

\* A notification in progress is of a packet that set the timer.
JustSet(s, code) == \E t \in Threads : net[t] # None /\ net[t].src = s /\ net[t].code = code

DataTimer(s) ==
  /\ client[s] # None
  /\ ~client[s].dataLate
  /\ ~(Prompt /\ JustSet(s, "dmx"))
  /\ client' = [client EXCEPT ![s].dataLate = TRUE]
  /\ UNCHANGED <<sampling, net, routerVars, recvVars, outVars, muteIn, silent, ghostVars>>

PriorityTimer(s) ==
  /\ client[s] # None
  /\ ~client[s].prioLate
  /\ ~(Prompt /\ JustSet(s, "priority"))
  /\ client' = [client EXCEPT ![s].prioLate = TRUE]
  /\ UNCHANGED <<sampling, net, routerVars, recvVars, outVars, muteIn, silent, ghostVars>>

GoSilent(s) ==
  /\ s \in Leaving \ silent
  /\ silent' = silent \cup {s}
  /\ UNCHANGED <<clientVars, net, routerVars, recvVars, outVars, muteIn, ghostVars>>

\* RouterThread::Sync brings the user's setting.
Sync ==
  /\ muteIn' \in Mutes \ {muteIn}
  /\ UNCHANGED <<clientVars, net, routerVars, recvVars, outVars, silent, ghostVars>>

-----------------------------------------------------------------------------
(* The router thread.                                                      *)

\* BuildsACN calls ListenUniverse, which subscribes before it starts the sampling
\* period: packets are received from the start.
ListenUniverse ==
  /\ rpc = "listen"
  /\ rpc' = "top"
  /\ sampling' = TRUE
  /\ UNCHANGED <<client, net, lost, pcpLost, recvVars, outVars, muteIn, silent, ghostVars>>

\* MainLoop, when the 200 ms of recvTimer are not over.
StartLoop ==
  /\ rpc = "top"
  /\ rpc' = "recv"
  /\ muted' = muteIn
  /\ UNCHANGED <<clientVars, net, lost, pcpLost, recvVars, merged, prev, routed, muteIn,
                 silent, ghostVars>>

\* Records whose data timer has run out, and the others whose priorities have.
DataExpired == {s \in Sources : client[s] # None /\ client[s].dataLate}
PrioritiesExpired ==
  {s \in Sources : client[s] # None /\ ~client[s].dataLate
                   /\ client[s].doingPcp /\ client[s].prioLate}

\* Mutant: the sources that notifications are held back for are not reported either.
ToNotifyWaited == {s \in DataExpired : client[s].doingDmx /\ client[s].waitedForDd}

\* The application has never heard of the others.
ToNotify == {s \in DataExpired : client[s].doingDmx}

\* The same with FindExpiredSources, up to its ReleaseLock.
StartLoopWithPoll ==
  /\ rpc = "top"
  /\ rpc' = "recv"
  /\ muted' = muteIn
  /\ lost' = ToNotify
  /\ pcpLost' = PrioritiesExpired
  /\ client' = [s \in Sources |->
       IF s \in DataExpired THEN None
       ELSE IF s \in PrioritiesExpired THEN [client[s] EXCEPT !.doingPcp = FALSE]
       ELSE client[s]]
  /\ sampling' \in {sampling, FALSE}    \* FindExpiredSamples
  /\ orphans' = orphans \cup {t \in Threads : net[t] # None /\ net[t].src \in DataExpired}
  /\ pcpOrphans' = pcpOrphans \cup
       {t \in Threads : /\ net[t] # None
                        /\ net[t].src \in PrioritiesExpired
                        /\ net[t].code = "priority"}
  /\ UNCHANGED <<net, recvVars, merged, prev, routed, muteIn, silent, ghosts, pcpGhosts>>

\* RouterThread::SourceDisappeared.
SourceDisappeared(s) ==
  /\ rpc = "recv"
  /\ s \in lost /\ \A r \in lost : s <= r
  /\ lost' = lost \ {s}
  /\ source' = [source EXCEPT ![s] = Absent]
  /\ dirty' = (dirty \/ source[s] # Absent)
  /\ ghosts' = ghosts \ {s}
  /\ pcpGhosts' = pcpGhosts \ {s}
  /\ UNCHANGED <<clientVars, net, rpc, pcpLost, outVars, muteIn, silent, orphans, pcpOrphans>>

\* RouterThread::SourcePCPExpired.
SourcePCPExpired(s) ==
  /\ rpc = "recv"
  /\ lost = {}
  /\ s \in pcpLost /\ \A r \in pcpLost : s <= r
  /\ pcpLost' = pcpLost \ {s}
  /\ LET expires == source[s] # Absent /\ source[s].pcp
     IN  /\ source' = IF expires THEN [source EXCEPT ![s].pcp = FALSE] ELSE source
         /\ dirty' = (dirty \/ expires)
  /\ pcpGhosts' = pcpGhosts \ {s}
  /\ UNCHANGED <<clientVars, net, rpc, lost, outVars, muteIn, silent, orphans, pcpOrphans, ghosts>>

\* Mutant: the previous levels are only those of the first time.
PreviousFirst(m) ==
  IF m = Absent THEN None
  ELSE IF LevelChangesOnly /\ prev = None THEN m.dmx ELSE prev

\* The previous levels go with the entry of `merged` they are a member of.
Previous(m) ==
  IF m = Absent THEN None
  ELSE IF LevelChangesOnly THEN m.dmx ELSE prev

\* RecvsACN under its lock, and MainLoop routing what it queued: the mute discards
\* levels after they have become the previous ones.
RecvsACN ==
  /\ rpc = "recv" /\ lost = {} /\ pcpLost = {}
  /\ rpc' = "top"
  /\ dirty
  /\ dirty' = FALSE
  /\ LET m == MergeAll(merged, source)
         queued == m # Absent /\ ~(LevelChangesOnly /\ prev = m.dmx)
     IN  /\ merged' = m
         /\ prev' = Previous(m)
         /\ routed' = CASE ~queued -> routed
                        [] queued /\ muted -> Discarded
                        [] queued /\ ~muted -> m.dmx
  /\ UNCHANGED <<clientVars, net, lost, pcpLost, source, muted, muteIn, silent, ghostVars>>

\* Mutant: the loop goes on before the notifications are made.
RecvsACNCleanEarly ==
  /\ rpc = "recv" /\ lost = {}
  /\ rpc' = "top"
  /\ ~dirty
  /\ UNCHANGED <<clientVars, net, lost, pcpLost, recvVars, outVars, muteIn, silent, ghostVars>>

RecvsACNClean ==
  /\ rpc = "recv" /\ lost = {} /\ pcpLost = {}
  /\ rpc' = "top"
  /\ ~dirty
  /\ UNCHANGED <<clientVars, net, lost, pcpLost, recvVars, outVars, muteIn, silent, ghostVars>>

-----------------------------------------------------------------------------

Router ==
  \/ ListenUniverse
  \/ StartLoop
  \/ StartLoopWithPoll
  \/ \E s \in Sources : SourceDisappeared(s) \/ SourcePCPExpired(s)
  \/ RecvsACN
  \/ RecvsACNClean

Next ==
  \/ \E t \in Threads, s \in Sources : ReceiveTerminated(t, s)
  \/ \E t \in Threads, p \in Packet : Receive(t, p)
  \/ \E t \in Threads : UniverseData(t)
  \/ \E s \in Sources : DataTimer(s) \/ PriorityTimer(s) \/ GoSilent(s)
  \/ Sync
  \/ Router

Spec == Init /\ [][Next]_vars

\* The threads are scheduled, the 200 ms of recvTimer pass again and again, and so
\* does the interval of a source that sends no more.
ReceiveFairness ==
  /\ WF_vars(Router) /\ SF_vars(StartLoopWithPoll)
  /\ \A t \in Threads : WF_vars(UniverseData(t))
  /\ \A s \in Sources : WF_vars(s \in silent /\ DataTimer(s))

-----------------------------------------------------------------------------

TypeOK ==
  /\ client \in [Sources -> Record \cup {None}]
  /\ sampling \in BOOLEAN
  /\ net \in [Threads -> Packet \cup {None}]
  /\ rpc \in {"listen", "top", "recv"}
  /\ lost \subseteq Sources /\ pcpLost \subseteq Sources
  /\ rpc # "recv" => lost = {} /\ pcpLost = {}
  /\ source \in [Sources -> Universe \cup {Absent}]
  /\ dirty \in BOOLEAN
  /\ merged \in Universe \cup {Absent}
  /\ prev \in [Channels -> Levels] \cup {None}
  /\ {muteIn, muted} \subseteq BOOLEAN
  /\ routed \in [Channels -> Levels] \cup {None, Discarded}
  /\ silent \subseteq Sources
  /\ orphans \subseteq Threads /\ pcpOrphans \subseteq Threads
  /\ ghosts \subseteq Sources /\ pcpGhosts \subseteq Sources

\* What the rest of the router sees of a merged universe.
Visible(m) ==
  IF m = Absent THEN Absent
  ELSE [dmx |-> m.dmx, ip |-> m.ip, priority |-> [c \in Channels |-> Effective(m, c)]]

\* No update is forgotten: while the universe is not dirty, what is merged is the
\* merge from nothing of the sources on record, whatever came in between the poll,
\* the notifications and the merge.  A source that has only sent other start codes
\* may be missing from it (UniverseData, SourceDisappeared, SourcePCPExpired, RecvsACN).
CleanMerged ==
  ~dirty =>
    \E missing \in SUBSET {s \in Sources : source[s] = NoData} :
      Visible(merged) =
        Visible(MergeAll(Absent, [s \in Sources |-> IF s \in missing THEN Absent ELSE source[s]]))

\* With levelChangesOnly too, the levels last taken to the routes are those of the
\* merge, unless these were discarded by the mute (prevDMX in RecvsACN).
RoutedCurrent ==
  ~dirty /\ merged # Absent => routed \in {merged.dmx, Discarded}

\* The router has data only of sources that the client keeps a timer for, or is about
\* to report.  The one exception is a notification that was between ParsePacket's
\* ReleaseLock and UniverseData when FindExpiredSources erased the record.
GhostOnlyByRace ==
  \A s \in Sources : source[s] # Absent =>
    \/ client[s] # None /\ client[s].doingDmx
    \/ s \in lost
    \/ s \in ghosts

\* The same for per-channel priorities, which otherwise would outlive the source's
\* sending of them and decide the merge for ever.
PcpOnlyByRace ==
  \A s \in Sources : source[s] # Absent /\ source[s].pcp =>
    \/ client[s] # None /\ client[s].doingPcp
    \/ s \in lost \cup pcpLost
    \/ s \in ghosts \cup pcpGhosts

\* Nothing but that race keeps the levels or the priorities of a source that has gone, or the
\* priorities of one that has stopped sending them (FindExpiredSources over ParsePacket).
DataOnlyByRace == GhostOnlyByRace /\ PcpOnlyByRace

\* A source that is never heard of again is forgotten ("This notification is triggered
\* whenever a source has expired", StreamACNCliInterface.h:115, and its handler).
SilentForgotten ==
  \A s \in Sources : s \in silent ~> [](source[s] = Absent)

\* The race of GhostOnlyByRace is the only way in which it is not.
SilentForgottenOrGhost ==
  \A s \in Sources : s \in silent ~> [](source[s] = Absent \/ s \in ghosts)
=============================================================================
