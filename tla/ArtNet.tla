-------------------------------- MODULE ArtNet --------------------------------
(***************************************************************************)
(* ArtNet in RouterThread: one node of the artnet library per universe     *)
(* that is routed, which merges what two sources send to it; the levels    *)
(* that are routed to ArtNet universes; and FlushArtNet, which sends what  *)
(* has changed and repeats the rest.                                       *)
(*                                                                         *)
(* One turn of MainLoop is a phase of reading, in which every node handles *)
(* any frames, the routing of what is dirty, and the flush.  Each node has *)
(* a socket of its own, so that a frame may reach some nodes only.         *)
(***************************************************************************)
EXTENDS Naturals, Sequences, FiniteSets, SequencesExt, FiniteSetsExt

CONSTANTS
  ArtRoutes,         \* the routes from ArtNet to ArtNet: see ArtRoute
  ArtOsc,            \* levels that other input sends to ArtNet: see ArtLevels
  Nibble,            \* 16: universes of a subnet, and subnets
  ArtSize,           \* ARTNET_DMX_LENGTH
  ArtLevel,          \* values of a slot
  ArtTraffic,        \* the frames on the network: see ArtFrame
  ArtSource,         \* addresses of senders
  NoSource,          \* an empty slot of a merge; in a route, any sender
  ArtMutes,          \* sets of routes that are muted together
  LevelChangesOnly,  \* the setting levelChangesOnly
  MaxFrames          \* bound on the frames handled and the levels sent

ArtChannel == 1..ArtSize
Address    == 0..(Nibble * Nibble - 1)

\* Universe numbers are uint16 in a route and uint8 in the maps of nodes and outputs.
ArtRoute  == [from: Nat, ip: ArtSource \cup {NoSource}, to: Nat, offset: Nat]
ArtFrame  == [universe: Nat, source: ArtSource, levels: Seq(ArtLevel)]
ArtLevels == [to: Nat, offset: Nat, args: Seq(ArtLevel)]
Cut(n)    == n % (Nibble * Nibble)

ASSUME ArtNetAssumption ==
  /\ ArtMutes \subseteq SUBSET ArtRoutes
  /\ IsFiniteSet(ArtRoutes) /\ ArtRoutes \subseteq ArtRoute /\ ArtOsc \subseteq ArtLevels
  /\ Nibble \in Nat \ {0} /\ ArtSize \in Nat \ {0} /\ MaxFrames \in Nat
  /\ 0 \in ArtLevel /\ ArtLevel \subseteq Nat
  /\ \A f \in ArtTraffic : f \in ArtFrame /\ Len(f.levels) \in 1..ArtSize
  /\ NoSource \notin ArtSource
  /\ LevelChangesOnly \in BOOLEAN

VARIABLES
  nodes,     \* ArtNet::inputs with the output port 0 of each node, by universe number
  inputIPs,  \* the sender each node heard last
  artDirty,     \* the nodes that have had a frame since the last routing
  artServer,    \* ArtNet::server could be started
  artOutput,   \* ArtNet::output, by universe number
  artWire,      \* the last levels of each universe that were handed to the socket
  artMute,      \* what the turn has sampled: incoming, and the routes that are muted
  artPhase,     \* where MainLoop is: "read", "route" or "flush"
  artFrames,    \* number of frames handled and of levels sent so far
  artHistory    \* what the properties compare with: see ArtHistory

artVars == <<nodes, inputIPs, artDirty, artServer, artOutput, artWire, artMute, artPhase, artFrames, artHistory>>

Blank == [c \in ArtChannel |-> 0]

\* output_port_t.  A slot is old once it is silent for MERGE_TIMEOUT_SECONDS; `newest` is the
\* slot with the later time.
Port ==
  [addr: Address, ipA: ArtSource \cup {NoSource}, ipB: ArtSource \cup {NoSource},
   oldA: BOOLEAN, oldB: BOOLEAN, newest: {"A", "B"},
   dataA: [ArtChannel -> ArtLevel], dataB: [ArtChannel -> ArtLevel],
   data: [ArtChannel -> ArtLevel], length: 0..ArtSize,
   prevDMX: [ArtChannel -> ArtLevel], hasPrevDMX: BOOLEAN]

\* artnet_set_subnet_addr and artnet_set_port_addr, as BuildArtNet calls them.
MakeAddr(subnet, port) == (subnet % Nibble) * Nibble + (port % Nibble)

PortAddress(u) == IF u > Nibble THEN MakeAddr(u \div Nibble, u % Nibble) ELSE MakeAddr(0, u)

NewNode(u) ==
  [addr |-> PortAddress(u), ipA |-> NoSource, ipB |-> NoSource, oldA |-> TRUE, oldB |-> TRUE,
   newest |-> "A", dataA |-> Blank, dataB |-> Blank, data |-> Blank, length |-> 0,
   prevDMX |-> Blank, hasPrevDMX |-> FALSE]

\* Per node the last frame of each source, and the source that had the last frames to itself
\* with their number up to 2; the channels of routes whose last levels were discarded.
ArtHistory ==
  [sent: [DOMAIN nodes -> [ArtSource -> Seq(ArtLevel)]],
   alone: [DOMAIN nodes -> [source: ArtSource \cup {NoSource}, count: 0..2]],
   lost: SUBSET (ArtRoutes \X ArtChannel)]

\* BuildArtNet: a node per universe, but for those that cannot be created or started.
ArtInit ==
  /\ \E made \in SUBSET {Cut(r.from) : r \in ArtRoutes} :
       /\ nodes = [u \in made |-> NewNode(u)]
       /\ inputIPs = [u \in made |-> NoSource]
       /\ artHistory = [sent |-> [u \in made |-> [s \in ArtSource |-> <<>>]],
                     alone |-> [u \in made |-> [source |-> NoSource, count |-> 0]],
                     lost |-> {}]
  /\ artDirty = {}
  /\ artServer \in BOOLEAN
  /\ artOutput = <<>>
  /\ artWire = <<>>
  /\ artMute = [incoming |-> FALSE, outgoing |-> {}]
  /\ artPhase = "read"
  /\ artFrames = 0

-----------------------------------------------------------------------------
(* artnet_read: handle_dmx and its merge.                                  *)

\* Levels copied over the beginning of others.
Over(data, frame) == [c \in ArtChannel |-> IF c <= Len(frame) THEN frame[c] ELSE data[c]]

CheckMergeTimeouts(p) ==
  [p EXCEPT !.ipA = IF p.oldA THEN NoSource ELSE @, !.ipB = IF p.oldB THEN NoSource ELSE @]

StoreA(p, frame) ==
  [p EXCEPT !.dataA = Over(@, frame), !.oldA = FALSE, !.newest = "A", !.length = Len(frame)]

StoreB(p, frame) ==
  [p EXCEPT !.dataB = Over(@, frame), !.oldB = FALSE, !.newest = "B", !.length = Len(frame)]

Show(p, frame) == [p EXCEPT !.data = Over(@, frame)]

\* Mutant: the levels of A are shown, as they are.
MergeOfA(p) == [p EXCEPT !.data = [c \in ArtChannel |-> IF c <= p.length THEN p.dataA[c] ELSE @[c]]]

\* merge: the mode is HTP, which only an ArtAddress packet can change, and these nodes ignore.
Merge(p) ==
  [p EXCEPT !.data = [c \in ArtChannel |-> IF c <= p.length THEN Max({p.dataA[c], p.dataB[c]})
                                           ELSE @[c]]]

IsOther(slot, s) == slot \notin {s, NoSource}

\* handle_dmx for a frame of the port's universe.  The two addresses that decide are those
\* from before the timeouts are looked at.
HandleDmx(old, s, frame) ==
  LET p == CheckMergeTimeouts(old)
  IN  CASE old.ipA = NoSource /\ old.ipB = NoSource ->
             Show(StoreA([p EXCEPT !.ipA = s], frame), frame)
        [] IsOther(old.ipA, s) /\ old.ipB = NoSource ->
             Merge(StoreB([p EXCEPT !.ipB = s], frame))
        [] old.ipA = s /\ old.ipB = NoSource -> Show(StoreA(p, frame), frame)
        [] old.ipA = NoSource /\ old.ipB = s -> Show(StoreB(p, frame), frame)
        [] old.ipA = s /\ IsOther(old.ipB, s) -> Merge(StoreA(p, frame))
        [] IsOther(old.ipA, s) /\ old.ipB = s -> Merge(StoreB(p, frame))
        [] OTHER -> p

\* No other source holds a slot that is not old.
IsAlone(p, s) == /\ p.ipA \in {s, NoSource} \/ p.oldA
                 /\ p.ipB \in {s, NoSource} \/ p.oldB

\* A node handles a frame of any universe: ArtNetRecv, handle_dmx, ArtNetUniverseData.
Handle(u, s, universe, frame) ==
  /\ artPhase = "read" /\ artFrames < MaxFrames
  /\ artFrames' = artFrames + 1
  /\ inputIPs' = [inputIPs EXCEPT ![u] = s]
  /\ IF universe = nodes[u].addr
     THEN /\ nodes' = [nodes EXCEPT ![u] = HandleDmx(@, s, frame)]
          /\ artDirty' = artDirty \cup {u}
          /\ LET was  == artHistory.alone[u]
                 more == IF ~IsAlone(nodes[u], s) THEN 0
                         ELSE IF was.source = s /\ was.count > 0 THEN 2 ELSE 1
             IN  artHistory' = [artHistory EXCEPT !.sent[u][s] = frame,
                                            !.alone[u] = [source |-> s, count |-> more]]
     ELSE UNCHANGED <<nodes, artDirty, artHistory>>
  /\ UNCHANGED <<artServer, artOutput, artWire, artMute, artPhase>>

\* Time passes: the slot with the earlier time grows old first.
GrowOld(u, slot) ==
  /\ artPhase = "read"
  /\ LET p == nodes[u]
     IN  \/ slot = "A" /\ ~p.oldA /\ (p.newest = "B" \/ p.oldB) /\ nodes' = [nodes EXCEPT ![u].oldA = TRUE]
         \/ slot = "B" /\ ~p.oldB /\ (p.newest = "A" \/ p.oldA) /\ nodes' = [nodes EXCEPT ![u].oldB = TRUE]
  /\ UNCHANGED <<inputIPs, artDirty, artServer, artOutput, artWire, artMute, artPhase, artFrames, artHistory>>

ReadDone ==
  /\ artPhase = "read"
  /\ artPhase' = "route"
  /\ UNCHANGED <<nodes, inputIPs, artDirty, artServer, artOutput, artWire, artMute, artFrames, artHistory>>

-----------------------------------------------------------------------------
(* RecvArtNet and SendArtNet.                                              *)

SameLevels(p) ==
  p.hasPrevDMX /\ \A c \in 1..p.length : p.prevDMX[c] = p.data[c]

Noted(p) == [p EXCEPT !.hasPrevDMX = TRUE,
                      !.prevDMX = [c \in ArtChannel |-> IF c <= p.length THEN p.data[c] ELSE @[c]]]

\* What is routed of a dirty node, and what is noted of it.  Without levels to compare, or
\* with the same, it is nothing.  The levels are those of the node of that number, which is
\* not always the one that is dirty.
Queued(st, u) ==
  LET number == st.nodes[u].addr
      entry  == [number |-> number, ip |-> inputIPs[u]]
  IN  CASE ~LevelChangesOnly -> [st EXCEPT !.q = Append(@, entry)]
        [] LevelChangesOnly /\ number \in DOMAIN st.nodes /\ st.nodes[number].length > 0
             /\ ~SameLevels(st.nodes[number]) ->
             [nodes |-> [st.nodes EXCEPT ![number] = Noted(@)], q |-> Append(st.q, entry)]
        [] OTHER -> st

NoArtOutput == [dmx |-> Blank, dirty |-> TRUE, started |-> FALSE]

\* The universe that levels are sent to is made for the first ones.
OutputOf(outs, to) == IF Cut(to) \in DOMAIN outs THEN outs[Cut(to)] ELSE NoArtOutput

Updated(outs, to, dmx) ==
  LET o == OutputOf(outs, to)
  IN  [n \in DOMAIN outs \cup {Cut(to)} |->
         IF n = Cut(to) THEN [o EXCEPT !.dmx = dmx, !.dirty = @ \/ dmx # o.dmx] ELSE outs[n]]

\* SendArtNet for a packet with levels.
WithArgs(outs, l) ==
  IF l.offset >= ArtSize THEN outs
  ELSE Updated(outs, l.to, [c \in ArtChannel |->
         IF c > l.offset /\ c - l.offset <= Len(l.args) THEN l.args[c - l.offset]
         ELSE OutputOf(outs, l.to).dmx[c]])

\* The channels that a route without levels of its own copies of a port.
Covered(r, p) == {c \in ArtChannel : c > r.offset /\ c <= r.offset + p.length}

\* SendArtNet for a universe that was received.
WithUniverse(outs, r, ports) ==
  IF r.offset >= ArtSize THEN outs
  ELSE Updated(outs, r.to, [c \in ArtChannel |->
         IF r.from \in DOMAIN ports /\ c \in Covered(r, ports[r.from]) THEN ports[r.from].data[c]
         ELSE OutputOf(outs, r.to).dmx[c]])

\* ProcessRecvPacket: routes for the sender, then those for any.
RoutesOf(entry) ==
  SetToSeq({r \in ArtRoutes : r.from = entry.number /\ r.ip = entry.ip /\ r.ip # NoSource}) \o
  SetToSeq({r \in ArtRoutes : r.from = entry.number /\ r.ip = NoSource})

RoutedOn(outs, r, ports) == IF r \in artMute.outgoing THEN outs ELSE WithUniverse(outs, r, ports)

Routed(outs, entry, ports) ==
  LET routes == RoutesOf(entry)
      after[n \in 0..Len(routes)] == IF n = 0 THEN outs ELSE RoutedOn(after[n - 1], routes[n], ports)
  IN  after[Len(routes)]

\* The queue of a turn, entry by entry.
QueueRouted(outs, q, ports) ==
  LET after[n \in 0..Len(q)] == IF n = 0 THEN outs ELSE Routed(after[n - 1], q[n], ports)
  IN  after[Len(q)]

\* Which levels an entry makes routes lose, or catch up with.
Taken(entry, r) ==
  ~artMute.incoming /\ r \notin artMute.outgoing /\ r.ip \in {NoSource, entry.ip}

Losses(lost, entry, ports) ==
  IF entry.number \notin DOMAIN ports THEN lost
  ELSE LET cells(take) == UNION {{<<r, c>> : c \in Covered(r, ports[entry.number])} :
                                   r \in {r \in ArtRoutes : r.from = entry.number
                                                            /\ Taken(entry, r) = take}}
       IN  (lost \cup cells(FALSE)) \ cells(TRUE)

QueueLosses(lost, q, ports) ==
  LET after[n \in 0..Len(q)] == IF n = 0 THEN lost ELSE Losses(after[n - 1], q[n], ports)
  IN  after[Len(q)]

\* The dirty nodes are looked at in an order, which gives the queue of the turn.
Inspected(order) ==
  LET after[n \in 0..Len(order)] ==
        IF n = 0 THEN [nodes |-> nodes, q |-> <<>>] ELSE Queued(after[n - 1], order[n])
  IN  after[Len(order)]

\* RecvArtNet for what is dirty, in the order of a hash table, and the routing of it.
RouteArtNet ==
  /\ artPhase = "route"
  /\ \E order \in SetToSeqs(artDirty) :
       \E st \in {Inspected(order)} :
         /\ nodes' = st.nodes
         /\ artOutput' = IF artMute.incoming \/ ~artServer THEN artOutput
                         ELSE QueueRouted(artOutput, st.q, st.nodes)
         /\ artHistory' = [artHistory EXCEPT !.lost = QueueLosses(@, st.q, st.nodes)]
  /\ artDirty' = {}
  /\ artPhase' = "flush"
  /\ UNCHANGED <<inputIPs, artServer, artWire, artMute, artFrames>>

\* Levels from another input.
SendLevels(l) ==
  /\ artPhase = "read" /\ artFrames < MaxFrames
  /\ artFrames' = artFrames + 1
  /\ artServer /\ artOutput' = WithArgs(artOutput, l)
  /\ UNCHANGED <<nodes, inputIPs, artDirty, artServer, artWire, artMute, artPhase, artHistory>>

\* artnet_raw_send_dmx, whose result the flush ignores.
RawSendDmx(due) == [n \in DOMAIN artWire \cup due |-> IF n \in due THEN artOutput[n].dmx ELSE artWire[n]]

\* FlushArtNet: what has never been sent, what is dirty for 22 ms, and the rest after 1000 ms.
\* Muting has no part in it.  With it the turn ends, and the next one samples the mutes.
FlushArtNet(due) ==
  /\ artPhase = "flush"
  /\ \A n \in DOMAIN artOutput : ~artOutput[n].started => n \in due
  /\ artOutput' = [n \in DOMAIN artOutput |->
                   IF n \in due THEN [artOutput[n] EXCEPT !.dirty = FALSE, !.started = TRUE] ELSE artOutput[n]]
  /\ artWire' = RawSendDmx(due)
  /\ artPhase' = "read"
  /\ artMute' \in [incoming: BOOLEAN, outgoing: ArtMutes]
  /\ UNCHANGED <<nodes, inputIPs, artDirty, artServer, artFrames, artHistory>>

ArtNext ==
  \/ \E u \in DOMAIN nodes : \E f \in ArtTraffic : Handle(u, f.source, f.universe, f.levels)
  \/ \E u \in DOMAIN nodes : \E slot \in {"A", "B"} : GrowOld(u, slot)
  \/ ReadDone
  \/ RouteArtNet
  \/ \E l \in ArtOsc : SendLevels(l)
  \/ \E due \in SUBSET DOMAIN artOutput : FlushArtNet(due)

ArtSpec == ArtInit /\ [][ArtNext]_artVars

-----------------------------------------------------------------------------
(* Properties.                                                             *)

ArtOutput == [dmx: [ArtChannel -> ArtLevel], dirty: BOOLEAN, started: BOOLEAN]

ArtTypeOK ==
  /\ DOMAIN nodes \subseteq Address /\ \A u \in DOMAIN nodes : nodes[u] \in Port
  /\ inputIPs \in [DOMAIN nodes -> ArtSource \cup {NoSource}]
  /\ artDirty \subseteq DOMAIN nodes
  /\ DOMAIN artOutput \subseteq Address /\ \A n \in DOMAIN artOutput : artOutput[n] \in ArtOutput
  /\ DOMAIN artWire \subseteq DOMAIN artOutput
  /\ artHistory \in ArtHistory

\* A node for one of the routed universes listens to that universe, whether it is addressed
\* with a subnet or without one; but for number 16, which has neither (BuildArtNet 1531).
ListensWhereRouted == \A u \in Address \ {Nibble} : NewNode(u).addr = u

\* The comment on handle_dmx calls it invalid that both slots hold one sender.
SlotsDiffer == \A u \in DOMAIN nodes : nodes[u].ipA = nodes[u].ipB => nodes[u].ipA = NoSource

\* While both sources of a merge keep sending, the levels are the higher ones of the last
\* frames of both, as far as both reach, whatever was discarded, forgotten and begun anew
\* before (handle_dmx, merge).
TogetherAreMerged ==
  \A u \in DOMAIN nodes :
    LET p == nodes[u]
        last(s) == artHistory.sent[u][s]
    IN  p.ipA # NoSource /\ p.ipB # NoSource /\ ~p.oldA /\ ~p.oldB =>
          \A c \in 1..Min({p.length, Len(last(p.ipA)), Len(last(p.ipB))}) :
            p.data[c] = Max({last(p.ipA)[c], last(p.ipB)[c]})

\* A source that is alone, the others silent for the time of a merge, has the universe to
\* itself by its second frame at the latest: handle_dmx decides about a frame by slots that
\* check_merge_timeouts empties only then.
AloneIsShown ==
  \A u \in DOMAIN nodes :
    LET a == artHistory.alone[u]
    IN  a.count = 2 => \A c \in 1..nodes[u].length : nodes[u].data[c] = artHistory.sent[u][a.source][c]

\* Nothing else writes the universe a route writes.
Sole(r) ==
  /\ \A s \in ArtRoutes \ {r} : Cut(s.to) # Cut(r.to)
  /\ \A l \in ArtOsc : Cut(l.to) # Cut(r.to)

\* An input of the route listens to its universe, and what the route copies is what is compared.
Follows(r) ==
  /\ r.from \in DOMAIN nodes /\ nodes[r.from].addr = r.from
  /\ r.offset < ArtSize
  /\ LevelChangesOnly => r.offset = 0

\* After the routing of a turn an output has the levels that its input shows, even with
\* levelChangesOnly, which routes differences to what was noted last; but for levels that
\* were discarded by a mute or by the route's sender, and have not been routed since
\* (RecvArtNet, SendArtNet).  With levelChangesOnly this is said of routes without an offset:
\* the comparison (3680) is of the length of the frame from the start, the copy (2546) of as
\* many channels from the offset, so that a frame that is shorter than one before can leave
\* an old level behind its end.
OutputFollowsInput ==
  artPhase = "flush" /\ artServer =>
    \A r \in ArtRoutes :
      Sole(r) /\ Follows(r) =>
        \A c \in Covered(r, nodes[r.from]) :
          \/ <<r, c>> \in artHistory.lost
          \/ OutputOf(artOutput, r.to).dmx[c] = nodes[r.from].data[c]

\* What differs from what was sent last is dirty, so that the next flush after 22 ms sends
\* it (SendArtNet, FlushArtNet).
UnsentIsDirty ==
  \A n \in DOMAIN artOutput :
    \/ artOutput[n].dirty
    \/ n \in DOMAIN artWire /\ artWire[n] = artOutput[n].dmx

\* The ArtNet server hears the universes that are routed, each universe has a port of its
\* own, and what is shown of one is what its sources sent, merged.
ArtInputSound == ListensWhereRouted /\ SlotsDiffer /\ TogetherAreMerged /\ AloneIsShown

\* The same, and what is shown of an input is put into the outputs that it is routed to, and
\* sent from there.
ArtNetSound == ArtInputSound /\ OutputFollowsInput /\ UnsentIsDirty
=============================================================================
