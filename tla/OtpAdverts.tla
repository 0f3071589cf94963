----------------------------- MODULE OtpAdverts -----------------------------
(***************************************************************************)
(* The adverts of names and systems.  A host, the reader, asks every       *)
(* producer what its points are called or which systems it sends, and      *)
(* producers answer to kPort of the host that asked, where the consumer of *)
(* the reader listens and, if there is one, a producer as well.  An answer *)
(* of names is not written as it is read.  The router asks for neither,    *)
(* but its producer answers whoever does.                                  *)
(***************************************************************************)
EXTENDS OtpRelay

CONSTANTS
  AdvHosts,   \* hosts with a producer
  AdvReaders, \* the hosts that may ask: some of them have a producer too
  AdvPoints,  \* what a producer may have: sets of [system, group, point, name]
  MaxAsks,    \* bound on the requests
  MaxAnswers  \* bound on the answers to them

VARIABLES
  advReader,  \* the host that asks
  advPoints,  \* Producer::props_.data, by host
  advWire,    \* datagrams that nobody has read: [from, to, data]
  advPeers,   \* Consumer::producers_ of the reader, by what tells their CIDs apart
  advLearnt,  \* what the reader was answered
  advAsked,   \* the requests: names and systems
  advAnswered \* the answers

advVars == <<advReader, advPoints, advWire, advPeers, advLearnt, advAsked, advAnswered>>

-----------------------------------------------------------------------------
(* The datagrams.  A name is a sequence of characters, a character the     *)
(* bytes it has in UTF-8.                                                  *)
kMaxLength == 31

\* As many characters as fit in, none of them in part.
ToProtocolString(name) ==
  LET size(k) == Len(FlattenSeq(SubSeq(name, 1, k)))
      kept    == CHOOSE k \in 0..Len(name) :
                   /\ k <= kMaxLength /\ size(k) <= kMaxLength
                   /\ k = Len(name) \/ k = kMaxLength \/ size(k + 1) > kMaxLength
  IN  FlattenSeq(SubSeq(name, 1, kept)) \o Bytes(0, kMaxLength + 1 - size(kept))

\* It ends at the first zero.
FromProtocolString(b) == SubSeq(b, 1, SelectInSeq(b \o <<0>>, LAMBDA x : x = 0) - 1)

kAdvertTypeName == 2
kAdvertTypeSystem == 3
kRequest == 0
kResponse == 128

ToList(type, op, list) ==
  ToDatagram(kMessageTypeAdvert,
    Bytes(type, 2) \o Measured(Bytes(0, 4) \o Bytes(1, 2) \o Measured(<<op>> \o Bytes(0, 4) \o list)))

\* The maps of systems, groups and points are sorted.
SortedPoints(points) ==
  SetToSortSeq(points, LAMBDA p, q :
    \/ p.system < q.system
    \/ p.system = q.system /\ p.group < q.group
    \/ p.system = q.system /\ p.group = q.group /\ p.point < q.point)

\* A byte array that is streamed has its length before it.
Streamed(bytes) == Bytes(Len(bytes), 4) \o bytes

\* The options of a list of names are 0, be it a request or an answer.
ToDatagramAdvertName(op, points) ==
  LET sorted == SortedPoints(points)
  IN  ToList(kAdvertTypeName, kRequest,
        FlattenSeq([i \in DOMAIN sorted |->
          Bytes(sorted[i].system, 1) \o Bytes(sorted[i].group, 2) \o Bytes(sorted[i].point, 4)
          \o Streamed(ToProtocolString(sorted[i].name))]))

ToDatagramAdvertSystem(op, points) ==
  ToList(kAdvertTypeSystem, op, SetToSortSeq({p.system : p \in points}, <))

\* Where the items of a list begin, and the size of a name's as it is read: without the length.
ListStart == LayerSize + 17
NameSize == 1 + 2 + 4 + kMaxLength + 1

IsAdvert(b, type) == IsOtp(b, kMessageTypeAdvert) /\ Number(b, LayerSize, 2) = type

\* A list of names whose last item is cut is refused: every one with a point in it, unless
\* there are as many points as bytes in an item.
IsListOfNames(b) == IsAdvert(b, kAdvertTypeName) /\ (Len(b) - ListStart) % NameSize = 0
IsRequest(b) == Number(b, LayerSize + 12, 1) < kResponse

FromDatagramAdvertName(b) ==
  {LET at == ListStart + i * NameSize
   IN  [system |-> Number(b, at, 1), group |-> Number(b, at + 1, 2), point |-> Number(b, at + 3, 4),
        name |-> FromProtocolString(SubSeq(b, at + 8, at + NameSize))]
   : i \in 0..((Len(b) - ListStart) \div NameSize - 1)}

FromDatagramAdvertSystem(b) == {b[i] : i \in ListStart + 1..Len(b)}

-----------------------------------------------------------------------------
AdvInit ==
  /\ advReader \in AdvReaders
  /\ advPoints \in [AdvHosts -> AdvPoints]
  /\ advWire = {} /\ advPeers = {} /\ advLearnt = {}
  /\ advAsked = [name |-> 0, system |-> 0] /\ advAnswered = [name |-> 0, system |-> 0]

AdvertTo(from, to, data) == [from |-> from, to |-> to, data |-> data]

\* A request, to the group that every producer has joined: its own host's too.
Ask(kind, data) ==
  /\ advAsked.name + advAsked.system < MaxAsks
  /\ advAsked' = [advAsked EXCEPT ![kind] = @ + 1]
  /\ advWire' = advWire \cup {AdvertTo(advReader, h, data) : h \in AdvHosts}
  /\ UNCHANGED <<advReader, advPoints, advPeers, advLearnt, advAnswered>>

\* Producer::HandleAdvert of a list: to the address it came from, if it looks like a request.
\* Without a point there is no list of systems to send.
Answer(d, kind, data) ==
  /\ advAnswered[kind] < MaxAnswers
  /\ advAnswered' = [advAnswered EXCEPT ![kind] = @ + 1]
  /\ advWire' = (advWire \ {d}) \cup {AdvertTo(d.to, d.from, data)}
  /\ UNCHANGED <<advReader, advPoints, advPeers, advLearnt, advAsked>>

NothingToAnswer(d) ==
  /\ advWire' = advWire \ {d}
  /\ UNCHANGED <<advReader, advPoints, advPeers, advLearnt, advAsked, advAnswered>>

HandleAdvertName(d) ==
  /\ IsAdvert(d.data, kAdvertTypeName)
  /\ IF IsListOfNames(d.data) /\ IsRequest(d.data)
     THEN Answer(d, "name", ToDatagramAdvertName(kResponse, advPoints[d.to]))
     ELSE NothingToAnswer(d)

HandleAdvertSystem(d) ==
  /\ IsAdvert(d.data, kAdvertTypeSystem)
  /\ IF IsRequest(d.data) /\ advPoints[d.to] # {}
     THEN Answer(d, "system", ToDatagramAdvertSystem(kResponse, advPoints[d.to]))
     ELSE NothingToAnswer(d)

\* Consumer::TickTransform of the reader, which shares the port with a producer of its host:
\* one of the two gets a datagram.  AddProducer takes whoever has sent something that can be
\* read for a producer.
ReadAnswer(d) ==
  /\ d.to = advReader
  /\ advWire' = advWire \ {d}
  /\ IF IsAdvert(d.data, kAdvertTypeName) /\ ~IsListOfNames(d.data) THEN UNCHANGED <<advPeers, advLearnt>>
     ELSE /\ advPeers' = advPeers \cup {d.from}
          /\ advLearnt' = advLearnt \cup
               IF IsAdvert(d.data, kAdvertTypeName)
               THEN {[host |-> d.from, kind |-> "name", items |-> FromDatagramAdvertName(d.data)]}
               ELSE IF IsRequest(d.data) THEN {}
               ELSE {[host |-> d.from, kind |-> "system", items |-> FromDatagramAdvertSystem(d.data)]}
  /\ UNCHANGED <<advReader, advPoints, advAsked, advAnswered>>

\* Consumer::TickProducers: kAdvertDataLossTimeout after its last datagram.
ExpireProducer(h) ==
  /\ h \in advPeers
  /\ advPeers' = advPeers \ {h}
  /\ UNCHANGED <<advReader, advPoints, advWire, advLearnt, advAsked, advAnswered>>

LoseAdvert(d) == NothingToAnswer(d)

AdvNext ==
  \/ Ask("name", ToDatagramAdvertName(kRequest, {}))
  \/ Ask("system", ToDatagramAdvertSystem(kRequest, {}))
  \/ \E d \in advWire :
       \/ d.to \in AdvHosts /\ (HandleAdvertName(d) \/ HandleAdvertSystem(d))
       \/ ReadAnswer(d)
       \/ LoseAdvert(d)
  \/ \E h \in advPeers : ExpireProducer(h)

AdvSpec == AdvInit /\ [][AdvNext]_advVars

-----------------------------------------------------------------------------
(* Properties.                                                             *)

\* What a reader is told of a host's systems, by ToDatagramAdvertSystem and its reader, is what
\* the producer there has, every one once, and never an empty list.  Of names it is told that
\* there are none, and only by a host without a point or by its own request that comes back to
\* its consumer: ToDatagramAdvertName writes the length of a name that FromDatagramAdvert does
\* not read, so that nobody learns a name, but for wrong ones of 39 points.
AnswersAreTrue ==
  \A l \in advLearnt :
    LET points == IF l.host \in AdvHosts THEN advPoints[l.host] ELSE {}
    IN  IF l.kind = "system" THEN l.items = {p.system : p \in points} /\ points # {}
        ELSE \/ l.items = {} /\ (points = {} \/ l.host = advReader)
             \/ points # {} /\ Cardinality(points) % NameSize = 0

\* The answers of systems are no requests: there are never more of them than requests for
\* each producer (HandleAdvert).  Of names they are, if they can be read: the empty ones are
\* answered in turn by a producer on the reader's host, and only if it has no point either
\* do the two go on.
AnswersEnd ==
  LET bare == {h \in AdvHosts : advPoints[h] = {}}
  IN  /\ advAnswered.system <= advAsked.system * Cardinality(AdvHosts)
      /\ advReader \notin AdvHosts => advAnswered.name <= advAsked.name * Cardinality(AdvHosts)
      /\ advReader \in AdvHosts \ bare =>
           advAnswered.name <= advAsked.name * (Cardinality(AdvHosts) + Cardinality(bare))

\* What is asked for is answered truly or not at all, and answers come to an end but for those
\* of names between two producers without a point.
AdvertsSound == AnswersAreTrue /\ AnswersEnd
=============================================================================
