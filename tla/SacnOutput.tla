------------------------------ MODULE SacnOutput ------------------------------
(***************************************************************************)
(* sACN output: RouterThread::SendsACN, which puts the levels of a packet  *)
(* in the universes of the sACN server and creates them on demand, and     *)
(* CStreamServer, whose Tick sends what is dirty and repeats the rest.  A  *)
(* receiver that is told of every packet is composed with them, with the   *)
(* test of the sequence number that CStreamClient::ParsePacket makes.      *)
(*                                                                         *)
(* A universe of levels (start code "dmx") can have a companion of         *)
(* priorities (start code "pcp").  A packet to send is what its path says  *)
(* (offset; nothing, a priority, or a per channel priority) with levels,   *)
(* or with a universe that has been received.                              *)
(***************************************************************************)
EXTENDS Naturals, Sequences, FiniteSets, SequencesExt, FiniteSetsExt

CONSTANTS
  Number,        \* sACN universe numbers
  Size,          \* UNIVERSE_SIZE
  Priority,      \* values of a priority
  Default,       \* DEFAULT_PRIORITY
  Level,         \* values of a slot
  OutPackets,    \* per number the packets that are sent to it: see OutPacket
  Repeats,       \* 3: repetitions before inactivity, and terminated packets
  SeqSize,        \* 256
  SeqWindow,     \* 20: how far back ParsePacket takes a sequence number for an old one
  MaxSends,      \* bound on the packets sent
  NoUniverse     \* a packet without a universe; nothing received

Channel == 1..Size

OutPacket ==
  [offset: Nat, mode: {"plain", "priority", "perChannelPriority"}, priority: Priority,
   args: Seq(Level), universe: [Channel -> Level] \cup {NoUniverse}]

ASSUME SacnOutputAssumption ==
  /\ IsFiniteSet(Number)
  /\ {Size, Repeats, SeqSize} \subseteq Nat \ {0}
  /\ 0 \in Priority /\ Default \in Priority /\ Priority \subseteq Nat
  /\ 0 \in Level /\ Level \subseteq Nat
  /\ SeqWindow \in 1..SeqSize
  /\ MaxSends \in Nat
  /\ \A n \in Number : \A p \in OutPackets[n] : p \in OutPacket

\* CStreamServer's universe; `live` is psend # NULL, `ended` the terminated bit of its header.
Stream ==
  [number: Number, code: {"dmx", "pcp"}, live: BOOLEAN, dirty: BOOLEAN, waited: BOOLEAN,
   terminates: 0..Repeats, inactive: 0..Repeats, ended: BOOLEAN, priority: Priority,
   data: [Channel -> Nat]]

\* RouterThread::SendUniverse; a handle is a position in m_multiverse, and 0 is none.
OutUniverse ==
  [dmx: Nat, pcp: Nat, priority: Priority, pcpPriority: Priority, connected: BOOLEAN]

VARIABLES
  streams,    \* CStreamServer::m_multiverse
  seqs,       \* m_seqmap: per number how many streams use it, and the next sequence number
  output,     \* sACN::output
  reachable,  \* every selected interface has a socket
  muteOut,    \* the mute of everything outgoing
  at,         \* the stream that Tick is at, or 0 between two ticks
  sends,      \* number of packets sent so far
  receiver    \* per number what a receiver that loses no packet has accepted last

sacnOutVars == <<streams, seqs, output, reachable, muteOut, at, sends, receiver>>

\* `behind` is history: of which streams nothing was accepted since the sequence started anew.
Receiver ==
  [known: BOOLEAN, behind: SUBSET {"dmx", "pcp"}, seq: 0..(SeqSize - 1), priority: Priority,
   dmx: [Channel -> Level] \cup {NoUniverse}, pcp: [Channel -> Priority] \cup {NoUniverse}]

Unseen ==
  [known |-> FALSE, behind |-> {}, seq |-> 0, priority |-> 0, dmx |-> NoUniverse,
   pcp |-> NoUniverse]

NoSequence == [n \in Number |-> [refs |-> 0, seq |-> 0]]

NoOutput ==
  [n \in Number |-> [dmx |-> 0, pcp |-> 0, priority |-> Default, pcpPriority |-> Default,
                     connected |-> FALSE]]

SacnOutputInit ==
  /\ streams = <<>>
  /\ seqs = NoSequence
  /\ output = NoOutput
  /\ reachable \in BOOLEAN
  /\ muteOut = FALSE
  /\ at = 0
  /\ sends = 0
  /\ receiver = [n \in Number |-> Unseen]

-----------------------------------------------------------------------------
(* CStreamServer.  `st` is what one call changes: the streams, the         *)
(* sequence numbers, the router's universes and the receiver.              *)

\* GetPSeq: the first stream of a number starts its sequence.
SeqTaken(seq) == IF seq.refs = 0 THEN [refs |-> 1, seq |-> 0] ELSE [seq EXCEPT !.refs = @ + 1]

\* DoDestruction, with RemovePSeq.
Destruction(st, h) ==
  IF st.streams[h].live
  THEN [st EXCEPT !.streams[h].live = FALSE, !.streams[h].terminates = 0,
                  !.seqs[st.streams[h].number].refs = @ - 1]
  ELSE st

\* Mutant: the first free place is taken although the universe has one.
PlaceFree(st, n, code) ==
  LET free == {h \in DOMAIN st.streams : ~st.streams[h].live}
  IN  IF free # {} THEN Min(free) ELSE Len(st.streams) + 1

\* Where a stream is put: in the place of the same number and start code, or in the first
\* free one, or behind the others.
Place(st, n, code) ==
  LET same == {h \in DOMAIN st.streams : st.streams[h].number = n /\ st.streams[h].code = code}
      free == {h \in DOMAIN st.streams : ~st.streams[h].live}
  IN  IF same # {} THEN Min(same) ELSE IF free # {} THEN Min(free) ELSE Len(st.streams) + 1

\* InitStreamHeader, and what CreateUniverse sets beside the header.
InitStreamHeader(n, code, priority) ==
  [number |-> n, code |-> code, live |-> reachable, dirty |-> FALSE, waited |-> FALSE,
   terminates |-> 0, inactive |-> 0, ended |-> FALSE, priority |-> priority,
   data |-> [c \in Channel |-> 0]]

\* CreateUniverse.  Without a socket for each interface it fails, and has counted the
\* reference to the sequence number by then.
CreateUniverse(st, n, code, priority) ==
  LET h    == Place(st, n, code)
      gone == IF h \in DOMAIN st.streams THEN Destruction(st, h) ELSE st
      new  == InitStreamHeader(n, code, priority)
  IN  [gone EXCEPT !.streams = IF h \in DOMAIN @ THEN [@ EXCEPT ![h] = new] ELSE Append(@, new),
                   !.seqs[n] = SeqTaken(@),
                   !.receiver[n].behind = IF gone.receiver[n].known /\ gone.seqs[n].refs = 0
                                          THEN {"dmx", "pcp"} ELSE @]

SetUniverseDirty(st, h) == [st EXCEPT !.streams[h].dirty = TRUE, !.streams[h].waited = TRUE]

DestroyUniverse(st, h) ==
  IF st.streams[h].live THEN [st EXCEPT !.streams[h].ended = TRUE] ELSE st

\* What a receiver that knows the source thinks of the sequence number of a packet.
IsOld(last, seq) == (last + SeqSize - seq) % SeqSize < SeqWindow

\* A receiver is given a packet: a terminated one is not looked at further.
Received(r, s, seq) ==
  LET heard == [r EXCEPT !.known = TRUE, !.behind = @ \ {s.code}, !.seq = seq]
  IN  IF r.known /\ (s.ended \/ IsOld(r.seq, seq)) THEN r
      ELSE IF s.code = "pcp" THEN [heard EXCEPT !.pcp = s.data]
      ELSE [heard EXCEPT !.dmx = s.data, !.priority = s.priority]

SeqAdvanced(q, s) == [q EXCEPT !.seq = (@ + 1) % SeqSize]

\* SeqSendUniverse, to a receiver that gets every packet.
SeqSendUniverse(st, h) ==
  LET s == st.streams[h]
  IN  [st EXCEPT !.seqs[s.number] = SeqAdvanced(@, s),
                 !.receiver[s.number] = Received(@, s, st.seqs[s.number].seq)]

\* Mutant: what is not dirty is not repeated.
IsDueDirty(s, expired) == s.live /\ s.dirty

\* Whether Tick sends a stream.
IsDue(s, expired) == s.live /\ (s.dirty \/ (s.waited /\ (s.inactive < Repeats \/ expired)))

\* Tick, for one stream.
TickStream(st, h, expired) ==
  LET old  == st.streams[h]
      kept == IF old.terminates >= Repeats THEN Destruction(st, h) ELSE st
      s    == kept.streams[h]
      sent == [s EXCEPT !.inactive = IF s.dirty THEN 0 ELSE IF @ < Repeats THEN @ + 1 ELSE @,
                        !.terminates = IF s.ended THEN @ + 1 ELSE @,
                        !.dirty = FALSE]
  IN  IF IsDue(s, expired) THEN [SeqSendUniverse(kept, h) EXCEPT !.streams[h] = sent] ELSE kept

-----------------------------------------------------------------------------
(* RouterThread::SendsACN.                                                 *)

\* Levels, or priorities, written behind an offset as far as the universe reaches.
Written(data, offset, values) ==
  [c \in DOMAIN data |-> IF c - offset \in DOMAIN values /\ c > offset THEN values[c - offset]
                         ELSE data[c]]

\* The universe of levels, created for the first packet and for another priority.
WithDmx(st, n, p) ==
  LET o       == st.output[n]
      changed == p.mode = "priority" /\ o.priority # p.priority
      made    == CreateUniverse(st, n, "dmx", p.priority)
      h       == Place(st, n, "dmx")
  IN  IF o.dmx # 0 /\ ~changed THEN st
      ELSE IF reachable
           THEN SetUniverseDirty([made EXCEPT !.output[n] =
                  [@ EXCEPT !.dmx = h, !.priority = p.priority, !.connected = TRUE]], h)
           ELSE [made EXCEPT !.output[n].dmx = 0]

PcpMarked(st, h, initialize) == SetUniverseDirty(st, h)

\* The universe of priorities: created for a per channel priority, written when created or
\* when the priority is another one, and ended by any packet without one.
WithPcp(st, n, p) ==
  LET o          == st.output[n]
      initialize == o.pcp = 0
      made       == IF initialize
                    THEN [CreateUniverse(st, n, "pcp", p.priority) EXCEPT
                            !.output[n].pcp = Place(st, n, "pcp")]
                    ELSE st
      h          == made.output[n].pcp
      marked     == PcpMarked(made, h, initialize)
      priorities == [i \in DOMAIN p.args |-> p.priority]
  IN  CASE p.mode = "perChannelPriority" /\ (initialize \/ o.pcpPriority # p.priority) ->
             [marked EXCEPT !.output[n].pcpPriority = p.priority,
                            !.streams[h].data = Written(@, p.offset, priorities)]
        [] p.mode # "perChannelPriority" /\ o.pcp # 0 ->
             [DestroyUniverse(st, o.pcp) EXCEPT !.output[n].pcp = 0]
        [] OTHER -> st

\* The levels of the packet, or those of the universe it is of.
NewLevels(data, p) ==
  IF p.args # <<>> THEN Written(data, p.offset, p.args)
  ELSE IF p.universe # NoUniverse THEN [c \in Channel |-> IF c > p.offset THEN p.universe[c] ELSE data[c]]
  ELSE data

\* Mutant: only the first slot is compared.
LevelsMarkedFirst(st, h, new) == IF new[1] = st.streams[h].data[1] THEN st ELSE SetUniverseDirty(st, h)

\* The universe is dirty if a level is another one.
LevelsMarked(st, h, new) == IF new = st.streams[h].data THEN st ELSE SetUniverseDirty(st, h)

WithLevels(st, n, p) ==
  LET h   == st.output[n].dmx
      new == NewLevels(st.streams[h].data, p)
  IN  [LevelsMarked(st, h, new) EXCEPT !.streams[h].data = new]

OutState == [streams |-> streams, seqs |-> seqs, output |-> output, receiver |-> receiver]

\* A call of the server is one step: the wrappers make each under one lock, which the
\* router thread, the only one that calls it, takes and releases.
Becomes(st) ==
  /\ streams' = st.streams
  /\ seqs' = st.seqs
  /\ output' = st.output
  /\ receiver' = st.receiver

SendsACN(n, p) ==
  /\ at = 0
  /\ sends < MaxSends
  /\ sends' = sends + 1
  /\ IF p.offset < Size
     THEN \E dmx \in {WithDmx(OutState, n, p)} :
            IF dmx.output[n].dmx = 0 THEN Becomes(dmx)
            ELSE \E pcp \in {WithPcp(dmx, n, p)} :
                   \E st \in {WithLevels(pcp, n, p)} : Becomes(st)
     ELSE Becomes(OutState)
  /\ UNCHANGED <<reachable, muteOut, at>>

\* MainLoop ticks the server every 22 ms, unless all output is muted: Tick passes over the
\* streams, on the thread that sends.
StartTick ==
  /\ at = 0 /\ ~muteOut
  /\ at' = IF streams = <<>> THEN 0 ELSE 1
  /\ UNCHANGED <<streams, seqs, output, reachable, muteOut, sends, receiver>>

Tick(expired) ==
  /\ at # 0
  /\ Becomes(TickStream(OutState, at, expired))
  /\ at' = IF at = Len(streams) THEN 0 ELSE at + 1
  /\ UNCHANGED <<reachable, muteOut, sends>>

MuteOut ==
  /\ muteOut' = ~muteOut
  /\ UNCHANGED <<streams, seqs, output, reachable, at, sends, receiver>>

\* The router thread is stopped and another one is started: DestroysACN tells no receiver,
\* and BuildsACN starts with nothing, on the interfaces there are by then.
Rebuild ==
  /\ at = 0
  /\ sends < MaxSends
  /\ sends' = sends + 1
  /\ streams' = <<>>
  /\ seqs' = NoSequence
  /\ output' = NoOutput
  /\ reachable' \in BOOLEAN
  /\ UNCHANGED <<muteOut, at, receiver>>

SacnOutputNext ==
  \/ \E n \in Number : \E p \in OutPackets[n] : SendsACN(n, p)
  \/ StartTick
  \/ \E expired \in BOOLEAN : Tick(expired)
  \/ MuteOut
  \/ Rebuild

\* The router thread goes on, and the send interval of each stream expires again and again.
SacnOutputFairness ==
  /\ WF_sacnOutVars(StartTick)
  /\ WF_sacnOutVars(\E expired \in BOOLEAN : Tick(expired))
  /\ \A h \in 1..(2 * Cardinality(Number)) : SF_sacnOutVars(at = h /\ Tick(TRUE))

SacnOutputSpec == SacnOutputInit /\ [][SacnOutputNext]_sacnOutVars /\ SacnOutputFairness

-----------------------------------------------------------------------------
(* Properties.                                                             *)

SacnOutputTypeOK ==
  /\ streams \in Seq(Stream)
  /\ seqs \in [Number -> [refs: Nat, seq: 0..(SeqSize - 1)]]
  /\ output \in [Number -> OutUniverse]
  /\ reachable \in BOOLEAN /\ muteOut \in BOOLEAN
  /\ at \in 0..Len(streams)
  /\ sends \in 0..MaxSends
  /\ receiver \in [Number -> Receiver]

\* Stream h is the one that handle `handle` of universe n stands for.
IsStreamOf(h, n, code, handle) ==
  streams[h].number = n /\ streams[h].code = code /\ handle = h /\ ~streams[h].ended

\* However universes are created, ended and created anew, the router's handles name streams
\* of their own universe that are being sent, and every stream that is sent is named by a
\* handle or on its way out: a universe is never sent twice (SendsACN 2261-2338,
\* CreateUniverse).
HandlesAreStreams ==
  /\ \A n \in Number : output[n].dmx # 0 => /\ streams[output[n].dmx].live
                                            /\ IsStreamOf(output[n].dmx, n, "dmx", output[n].dmx)
                                            /\ streams[output[n].dmx].priority = output[n].priority
  /\ \A n \in Number : output[n].pcp # 0 => /\ streams[output[n].pcp].live
                                            /\ IsStreamOf(output[n].pcp, n, "pcp", output[n].pcp)
  /\ \A h \in DOMAIN streams : streams[h].live =>
       streams[h].ended \/ LET o == output[streams[h].number] IN h \in {o.dmx, o.pcp}
  /\ \A h, i \in DOMAIN streams :
       streams[h].live /\ streams[i].live /\ h # i =>
         streams[h].number # streams[i].number \/ streams[h].code # streams[i].code

\* What a receiver accepted last of a stream is what the router has in it, once Tick has
\* nothing left to send of it; but for a sequence that has started anew, whose first packets
\* have old numbers (RemovePSeq and GetPSeq against ParsePacket 365).
ReceiverFollows ==
  \A n \in Number :
    LET o == output[n]
    IN  /\ o.dmx # 0 /\ ~streams[o.dmx].dirty =>
             \/ "dmx" \in receiver[n].behind
             \/ receiver[n].dmx = streams[o.dmx].data /\ receiver[n].priority = o.priority
        /\ o.pcp # 0 /\ ~streams[o.pcp].dirty =>
             \/ "pcp" \in receiver[n].behind
             \/ receiver[n].pcp = streams[o.pcp].data

\* A receiver that has taken the first packets of a new sequence for old ones is not lost:
\* the repetitions of Tick advance the number until it follows again.  And a stream of
\* priorities that has been ended is told so and then freed, unless a packet takes it up
\* again (DestroyUniverse leaves that to Tick).
StreamsSettle ==
  []<>(\/ muteOut
       \/ /\ \A n \in Number : output[n].dmx # 0 => "dmx" \notin receiver[n].behind
          /\ \A h \in DOMAIN streams : streams[h].live => ~streams[h].ended)
=============================================================================
