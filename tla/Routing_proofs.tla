---------------------------- MODULE Routing_proofs ----------------------------
(***************************************************************************)
(* The two passes of the router thread over what it has received.          *)
(*                                                                         *)
(* For any number of sources, any set of channels and any data: the pass   *)
(* of RecvsACN over the sources leaves in `merged` what the highest        *)
(* priority source of each channel sends, ties going to the smaller CID.   *)
(*                                                                         *)
(* For every list of routes: the tables hold each enabled route once, at   *)
(* its own key and in the order of the list, and the look-ups of a packet  *)
(* reach the keys of exactly the routes it is for, each by one pass.       *)
(***************************************************************************)
EXTENDS SacnMerge, RouteTable, FiniteSetTheorems, TLAPS

-----------------------------------------------------------------------------
(* The merge.                                                              *)

\* The source that controls each channel among those seen so far.
MergedOK ==
  active =>
    /\ merged \in Universe
    /\ \A c \in Channels : \E w \in Seen :
         /\ Controls(source, w, Seen, c)
         /\ merged.dmx[c] = source[w].dmx[c]
         /\ Effective(merged, c) = Effective(source[w], c)

IpOK ==
  active => \E c \in Channels : \E w \in Seen :
              Controls(source, w, Seen, c) /\ merged.ip = source[w].ip

\* The loop invariant.
MergeInv ==
  /\ MergeTypeOK
  /\ MergedOK
  /\ IpOK
  /\ ~active => Seen = {}
  /\ merged = Absent => ~active /\ i = N + 1

-----------------------------------------------------------------------------
(* Facts about the merge operators.                                        *)

\* A priority is a natural number, so priorities are totally ordered.
LEMMA EffectiveNat ==
  ASSUME NEW u \in Universe, NEW c \in Channels
  PROVE  Effective(u, c) \in Nat
BY DEF Universe, Priority, Effective

\* Starting a merge from u leaves u's levels, priorities and address.
LEMMA FirstInstanceIsInput ==
  ASSUME NEW m \in Universe, NEW u \in Universe
  PROVE  /\ FirstInstance(m, u) \in Universe
         /\ FirstInstance(m, u).ip = u.ip
         /\ \A c \in Channels : /\ FirstInstance(m, u).dmx[c] = u.dmx[c]
                                /\ Effective(FirstInstance(m, u), c) = Effective(u, c)
BY DEF FirstInstance, Universe, Effective

\* Merging u into m takes a channel from u exactly where u has the higher
\* priority, and takes u's address if and only if it takes some channel.
MergeStep(m, u, r) ==
  /\ r \in Universe
  /\ \A c \in Channels :
       IF Effective(u, c) > Effective(m, c)
       THEN r.dmx[c] = u.dmx[c] /\ Effective(r, c) = Effective(u, c)
       ELSE r.dmx[c] = m.dmx[c] /\ Effective(r, c) = Effective(m, c)
  /\ r.ip = IF \E c \in Channels : Effective(u, c) > Effective(m, c) THEN u.ip ELSE m.ip

LEMMA PcpIntoPcpStep ==
  ASSUME NEW m \in Universe, NEW u \in Universe, u.pcp, m.pcp
  PROVE  MergeStep(m, u, PcpIntoPcp(m, u))
BY DEF MergeStep, PcpIntoPcp, TakeWhere, Universe, Effective

LEMMA PcpIntoBasicStep ==
  ASSUME NEW m \in Universe, NEW u \in Universe, u.pcp, ~m.pcp
  PROVE  MergeStep(m, u, PcpIntoBasic(m, u))
BY DEF MergeStep, PcpIntoBasic, TakeWhere, Universe, Effective

LEMMA BasicIntoPcpStep ==
  ASSUME NEW m \in Universe, NEW u \in Universe, ~u.pcp, m.pcp
  PROVE  MergeStep(m, u, BasicIntoPcp(m, u))
BY DEF MergeStep, BasicIntoPcp, TakeWhere, Universe, Effective

LEMMA BasicIntoBasicStep ==
  ASSUME NEW m \in Universe, NEW u \in Universe, ~u.pcp, ~m.pcp
  PROVE  MergeStep(m, u, BasicIntoBasic(m, u))
BY MergeAssumption DEF MergeStep, BasicIntoBasic, Universe, Effective

LEMMA MergeIntoStep ==
  ASSUME NEW m \in Universe, NEW u \in Universe
  PROVE  MergeStep(m, u, MergeInto(m, u))
<1>1. u.pcp \in BOOLEAN /\ m.pcp \in BOOLEAN
  BY DEF Universe
<1>2. CASE u.pcp /\ m.pcp
  <2>1. MergeInto(m, u) = PcpIntoPcp(m, u)
    BY <1>2 DEF MergeInto
  <2> QED BY <1>2, <2>1, PcpIntoPcpStep
<1>3. CASE u.pcp /\ ~m.pcp
  <2>1. MergeInto(m, u) = PcpIntoBasic(m, u)
    BY <1>3 DEF MergeInto
  <2> QED BY <1>3, <2>1, PcpIntoBasicStep
<1>4. CASE ~u.pcp /\ m.pcp
  <2>1. MergeInto(m, u) = BasicIntoPcp(m, u)
    BY <1>4 DEF MergeInto
  <2> QED BY <1>4, <2>1, BasicIntoPcpStep
<1>5. CASE ~u.pcp /\ ~m.pcp
  <2>1. MergeInto(m, u) = BasicIntoBasic(m, u)
    BY <1>5 DEF MergeInto
  <2> QED BY <1>5, <2>1, BasicIntoBasicStep
<1> QED BY <1>1, <1>2, <1>3, <1>4, <1>5

-----------------------------------------------------------------------------
(* One more source: who controls a channel among the sources seen.         *)

\* A source of the same universe joining the ones seen takes over a channel
\* exactly when its priority is higher than that of the controlling source.
LEMMA ControlAfterJoin ==
  ASSUME NEW S \in SUBSET (1..N), NEW k \in 1..N,
         \A j \in S : j < k,
         \A j \in S \cup {k} : source[j] \in Universe,
         NEW c \in Channels, NEW w \in S, Controls(source, w, S, c)
  PROVE  IF Effective(source[k], c) > Effective(source[w], c)
         THEN Controls(source, k, S \cup {k}, c)
         ELSE Controls(source, w, S \cup {k}, c)
<1> DEFINE E(j) == Effective(source[j], c)
<1>1. \A j \in S \cup {k} : E(j) \in Nat /\ j \in Nat
  BY EffectiveNat, MergeAssumption
<1>2. \A j \in S : E(j) <= E(w) /\ (j < w => E(j) < E(w))
  BY DEF Controls
<1>3. CASE E(k) > E(w)
  <2>1. \A j \in S \cup {k} : E(j) <= E(k) /\ (j < k => E(j) < E(k))
    <3> HIDE DEF E
    <3> QED BY <1>1, <1>2, <1>3, w \in S
  <2> QED BY <1>3, <2>1 DEF Controls
<1>4. CASE ~(E(k) > E(w))
  <2>1. \A j \in S \cup {k} : E(j) <= E(w) /\ (j < w => E(j) < E(w))
    <3> HIDE DEF E
    <3> QED BY <1>1, <1>2, <1>4, w \in S
  <2> QED BY <1>4, <2>1 DEF Controls
<1> QED BY <1>3, <1>4

\* The sources seen after the loop has passed source i.
LEMMA SeenAfterSource ==
  ASSUME MergeTypeOK, i \in 1..N, i' = i + 1, source' = source
  PROVE  Seen' = IF source[i] # Absent THEN Seen \cup {i} ELSE Seen
BY MergeAssumption DEF MergeTypeOK, Seen

LEMMA SourceIsUniverse ==
  ASSUME MergeTypeOK, NEW j \in 1..N, source[j] # Absent
  PROVE  source[j] \in Universe
BY MergeAssumption DEF MergeTypeOK

-----------------------------------------------------------------------------
LEMMA InitMergeInv == MergeInit => MergeInv
<1> SUFFICES ASSUME MergeInit PROVE MergeInv
  OBVIOUS
<1>1. MergeTypeOK
  <2>1. i \in 1..(N + 1)
    BY MergeAssumption DEF MergeInit
  <2>2. merged \in Universe
    BY MergeAssumption DEF MergeInit
  <2> QED BY <2>1, <2>2 DEF MergeInit, MergeTypeOK
<1>2. Seen = {}
  BY MergeAssumption DEF MergeInit, Seen
<1>3. merged # Absent /\ ~active
  BY MergeAssumption DEF MergeInit
<1> QED BY <1>1, <1>2, <1>3 DEF MergeInv, MergedOK, IpOK

LEMMA StepMergeInv == MergeInv /\ [MergeNext]_mergeVars => MergeInv'
<1> SUFFICES ASSUME MergeInv, [MergeNext]_mergeVars PROVE MergeInv'
  OBVIOUS
<1> USE DEF MergeInv
<1>1. CASE SkipSource
  <2>1. Seen' = Seen
    BY <1>1, SeenAfterSource DEF SkipSource
  <2>2. MergeTypeOK'
    BY <1>1, MergeAssumption DEF SkipSource, MergeTypeOK
  <2>3. merged # Absent
    BY <1>1, MergeAssumption DEF SkipSource
  <2>4. MergedOK' /\ IpOK'
    BY <1>1, <2>1 DEF SkipSource, MergedOK, IpOK, Controls
  <2> QED BY <1>1, <2>1, <2>2, <2>3, <2>4 DEF SkipSource
<1>2. CASE StartMerge
  <2>1. Seen' = {i} /\ i \in 1..N /\ source' = source
    BY <1>2, SeenAfterSource DEF StartMerge
  <2>2. source[i] \in Universe /\ merged \in Universe
    BY <1>2, SourceIsUniverse, MergeAssumption DEF StartMerge, MergeTypeOK
  <2>3. merged' \in Universe /\ active' = TRUE
    BY <1>2, <2>2, FirstInstanceIsInput DEF StartMerge
  <2>4. MergeTypeOK'
    BY <1>2, <2>3, MergeAssumption DEF StartMerge, MergeTypeOK
  <2>5. \A c \in Channels : Controls(source, i, {i}, c)
    BY <2>1, <2>2, EffectiveNat DEF Controls
  <2>7. MergedOK'
    <3> SUFFICES ASSUME NEW c \in Channels
                 PROVE  /\ merged'.dmx[c] = source[i].dmx[c]
                        /\ Effective(merged', c) = Effective(source[i], c)
                        /\ Controls(source, i, Seen', c)
      BY <2>1, <2>3 DEF MergedOK
    <3> QED BY <1>2, <2>1, <2>2, <2>5, FirstInstanceIsInput DEF StartMerge
  <2>8. IpOK'
    BY <1>2, <2>1, <2>2, <2>5, FirstInstanceIsInput, MergeAssumption DEF StartMerge, IpOK
  <2>9. merged' # Absent
    BY <2>3, MergeAssumption
  <2> QED BY <2>3, <2>4, <2>7, <2>8, <2>9
<1>3. CASE MergeSource
  <2> DEFINE u == source[i]
  <2>1. Seen' = Seen \cup {i} /\ i \in 1..N /\ source' = source /\ active /\ active'
    BY <1>3, SeenAfterSource DEF MergeSource, MergeTypeOK
  <2>2. u \in Universe /\ merged \in Universe
    BY <1>3, SourceIsUniverse, MergeAssumption DEF MergeSource, MergedOK
  <2>3. MergeStep(merged, u, merged')
    BY <1>3, <2>2, MergeIntoStep DEF MergeSource
  <2>4. merged' \in Universe
    BY <2>3 DEF MergeStep
  <2>5. MergeTypeOK'
    BY <1>3, <2>4, MergeAssumption DEF MergeSource, MergeTypeOK
  <2>6. Seen \in SUBSET (1..N) /\ (\A j \in Seen : j < i)
        /\ \A j \in Seen \cup {i} : source[j] \in Universe
    BY <2>1, <2>2, SourceIsUniverse DEF Seen
  <2>7. ASSUME NEW c \in Channels, NEW w \in Seen, Controls(source, w, Seen, c),
               Effective(merged, c) = Effective(source[w], c)
        PROVE  IF Effective(u, c) > Effective(merged, c)
               THEN Controls(source, i, Seen', c)
               ELSE Controls(source, w, Seen', c)
    <3>1. IF Effective(u, c) > Effective(source[w], c)
          THEN Controls(source, i, Seen \cup {i}, c)
          ELSE Controls(source, w, Seen \cup {i}, c)
      BY <2>1, <2>6, <2>7, ControlAfterJoin
    <3> QED BY <2>1, <2>7, <3>1 DEF Controls
  <2>8. MergedOK'
    <3> SUFFICES ASSUME NEW c \in Channels
                 PROVE  \E w \in Seen' : /\ Controls(source, w, Seen', c)
                                         /\ merged'.dmx[c] = source[w].dmx[c]
                                         /\ Effective(merged', c) = Effective(source[w], c)
      BY <2>1, <2>4 DEF MergedOK
    <3>1. PICK w \in Seen : /\ Controls(source, w, Seen, c)
                            /\ merged.dmx[c] = source[w].dmx[c]
                            /\ Effective(merged, c) = Effective(source[w], c)
      BY <2>1 DEF MergedOK
    <3>2. CASE Effective(u, c) > Effective(merged, c)
      BY <2>1, <2>3, <2>7, <3>1, <3>2 DEF MergeStep
    <3>3. CASE ~(Effective(u, c) > Effective(merged, c))
      BY <2>1, <2>3, <2>7, <3>1, <3>3 DEF MergeStep
    <3> QED BY <3>2, <3>3
  <2>9. IpOK'
    <3>1. CASE \E c \in Channels : Effective(u, c) > Effective(merged, c)
      <4>1. PICK c \in Channels : Effective(u, c) > Effective(merged, c)
        BY <3>1
      <4>2. PICK w \in Seen : /\ Controls(source, w, Seen, c)
                              /\ Effective(merged, c) = Effective(source[w], c)
        BY <2>1 DEF MergedOK
      <4>3. Controls(source, i, Seen', c) /\ merged'.ip = u.ip
        BY <2>3, <2>7, <3>1, <4>1, <4>2 DEF MergeStep
      <4> QED BY <2>1, <4>3 DEF IpOK
    <3>2. CASE ~\E c \in Channels : Effective(u, c) > Effective(merged, c)
      <4>1. PICK c \in Channels, w \in Seen :
              Controls(source, w, Seen, c) /\ merged.ip = source[w].ip
        BY <2>1 DEF IpOK
      <4>2. PICK v \in Seen : /\ Controls(source, v, Seen, c)
                              /\ Effective(merged, c) = Effective(source[v], c)
        BY <2>1 DEF MergedOK
      <4>3. v = w
        <5>1. /\ Effective(source[v], c) \in Nat
              /\ Effective(source[w], c) \in Nat
              /\ v \in Nat /\ w \in Nat
          BY <2>6, EffectiveNat, MergeAssumption
        <5>2. /\ Effective(source[v], c) <= Effective(source[w], c)
              /\ v < w => Effective(source[v], c) < Effective(source[w], c)
              /\ Effective(source[w], c) <= Effective(source[v], c)
              /\ w < v => Effective(source[w], c) < Effective(source[v], c)
          BY <4>1, <4>2 DEF Controls
        <5> QED BY <5>1, <5>2
      <4>4. Controls(source, w, Seen', c) /\ merged'.ip = merged.ip
        BY <2>3, <2>7, <3>2, <4>1, <4>2, <4>3 DEF MergeStep
      <4> QED BY <2>1, <4>1, <4>4 DEF IpOK
    <3> QED BY <3>1, <3>2
  <2>10. merged' # Absent
    BY <2>4, MergeAssumption
  <2> QED BY <2>1, <2>5, <2>8, <2>9, <2>10
<1>4. CASE RemoveInactive
  <2>1. Seen' = Seen
    BY <1>4 DEF RemoveInactive, Seen
  <2> QED BY <1>4, <2>1 DEF RemoveInactive, MergeTypeOK, MergedOK, IpOK
<1>5. CASE UNCHANGED mergeVars
  BY <1>5 DEF mergeVars, MergeTypeOK, MergedOK, IpOK, Seen, Controls
<1> QED BY <1>1, <1>2, <1>3, <1>4, <1>5 DEF MergeNext

\* The loop keeps its invariant for any sources and any earlier contents of merged.
THEOREM MergeInvariant == MergeSpec => []MergeInv
BY InitMergeInv, StepMergeInv, PTL DEF MergeSpec

\* Every merged channel is controlled by the highest priority source, ties going to the smaller
\* CID, and not by one that asks to be ignored there, except where nobody bids above 0 and
\* somebody asks to be ignored (the result of RecvsACN's merge loop).
THEOREM MergeIsCorrect == MergeSpec => []HighestPriorityWins
<1>1. MergeInv => HighestPriorityWins
  <2> SUFFICES ASSUME MergeInv, i = N + 1, active, NEW c \in Channels, Contested(source, Seen, c)
               PROVE  \E w \in Seen : /\ Controls(source, w, Seen, c) /\ ~Ignored(source[w], c)
                                      /\ merged.dmx[c] = source[w].dmx[c]
                                      /\ Effective(merged, c) = Effective(source[w], c)
    BY DEF HighestPriorityWins
  <2>1. PICK w \in Seen : /\ Controls(source, w, Seen, c)
                          /\ merged.dmx[c] = source[w].dmx[c]
                          /\ Effective(merged, c) = Effective(source[w], c)
    BY DEF MergeInv, MergedOK
  <2>2. ~Ignored(source[w], c)
    <3> SUFFICES ASSUME Ignored(source[w], c) PROVE FALSE OBVIOUS
    <3>1. Effective(source[w], c) = 0 BY DEF Ignored, Effective
    <3>2. PICK j \in Seen : Effective(source[j], c) > 0 BY DEF Contested
    <3>3. Effective(source[j], c) <= 0 BY <2>1, <3>1 DEF Controls
    <3>4. MergeTypeOK /\ j \in 1..N /\ source[j] # Absent BY DEF Seen, MergeInv
    <3>5. Effective(source[j], c) \in Int BY <3>4, SourceIsUniverse, EffectiveNat
    <3> QED BY <3>2, <3>3, <3>5
  <2> QED BY <2>1, <2>2
<1> QED BY <1>1, MergeInvariant, PTL

\* The merged universe is routed under the address of a source in control of a
\* channel (the merged.ip assignments of RecvsACN).
THEOREM MergedAddressIsCorrect == MergeSpec => []RoutedUnderAController
<1>1. MergeInv => RoutedUnderAController
  BY DEF MergeInv, IpOK, RoutedUnderAController
<1> QED BY <1>1, MergeInvariant, PTL

-----------------------------------------------------------------------------
(* The routing table.                                                      *)

USE RouteAssumption

-----------------------------------------------------------------------------
(* The look-ups, without the tables.                                       *)

\* The pass that finds a route: the sender's, unless the route is for any sender.
PassOf(r, p) == IF r.ip = 0 /\ p.ip # 0 THEN "any" ELSE "sender"

LEMMA KeyInKey == \A r \in TableRoute : KeyOf(r) \in Key
  BY DEF TableRoute, Key, KeyOf, Tables

\* A packet is looked up under the key of a route exactly if the route is for it,
\* and then by one pass only.
LEMMA LookUpFinds ==
  ASSUME NEW r \in TableRoute, NEW p \in RoutePacket, r.enable
  PROVE  /\ IsFor(r, p) => PassOf(r, p) \in Passes(p) /\ KeyOf(r) \in LookedUp(p, PassOf(r, p))
         /\ \A pass \in Passes(p) :
              KeyOf(r) \in LookedUp(p, pass) => IsFor(r, p) /\ pass = PassOf(r, p)
<1> DEFINE key(pass, wild, path) ==
             [table |-> p.table, port |-> p.port,
              ip |-> IF pass = "any" THEN 0 ELSE p.ip, wild |-> wild, path |-> path]
<1>1. /\ r.path \in Paths \cup {NoPath} /\ r.ip \in Senders /\ r.protocol \in Protocols
      /\ p.path \in Paths \cup {NoPath} /\ p.ip \in Senders
  BY DEF TableRoute, RoutePacket
<1>2. \A pass : LookedUp(p, pass) =
        {key(pass, FALSE, p.path), key(pass, FALSE, NoPath)}
        \cup {key(pass, TRUE, w) : w \in {v \in Wildcards : p.path \in Covers[v]}}
  BY DEF LookedUp
<1> HIDE DEF key
<1> DEFINE atSource(pass) ==
             /\ TableOf(r.protocol) = p.table /\ r.port = p.port
             /\ r.ip = (IF pass = "any" THEN 0 ELSE p.ip)
<1>3. \A pass, path :
        /\ KeyOf(r) = key(pass, FALSE, path) <=>
             atSource(pass) /\ r.path \notin Wildcards /\ r.path = path
        /\ KeyOf(r) = key(pass, TRUE, path) <=>
             atSource(pass) /\ r.path \in Wildcards /\ r.path = path
  <2> TAKE pass, path
  <2>1. ASSUME NEW wild \in BOOLEAN
        PROVE  KeyOf(r) = key(pass, wild, path) <=>
                 /\ TableOf(r.protocol) = p.table /\ r.port = p.port
                 /\ r.ip = (IF pass = "any" THEN 0 ELSE p.ip)
                 /\ (r.path \in Wildcards <=> wild) /\ r.path = path
    BY DEF key, KeyOf
  <2> QED BY <2>1
<1>4. NoPath \notin Wildcards
  OBVIOUS
<1>5. \A pass : KeyOf(r) \in LookedUp(p, pass) <=>
        /\ atSource(pass)
        /\ \/ r.path = NoPath
           \/ r.path \in Wildcards /\ p.path \in Covers[r.path]
           \/ r.path \notin Wildcards /\ r.path = p.path
  <2> TAKE pass
  <2> HIDE DEF atSource
  <2>0. LookedUp(p, pass) = {key(pass, FALSE, p.path), key(pass, FALSE, NoPath)}
          \cup {key(pass, TRUE, w) : w \in {v \in Wildcards : p.path \in Covers[v]}}
    BY <1>2
  <2>1. KeyOf(r) \in LookedUp(p, pass) <=>
          \/ KeyOf(r) = key(pass, FALSE, p.path) \/ KeyOf(r) = key(pass, FALSE, NoPath)
          \/ \E w \in Wildcards : p.path \in Covers[w] /\ KeyOf(r) = key(pass, TRUE, w)
    BY <2>0
  <2>2. KeyOf(r) = key(pass, FALSE, p.path) \/ KeyOf(r) = key(pass, FALSE, NoPath) <=>
          atSource(pass) /\ r.path \notin Wildcards /\ r.path \in {p.path, NoPath}
    BY <1>3
  <2>3. (\E w \in Wildcards : p.path \in Covers[w] /\ KeyOf(r) = key(pass, TRUE, w)) <=>
          atSource(pass) /\ r.path \in Wildcards /\ p.path \in Covers[r.path]
    BY <1>3
  <2> QED BY <2>1, <2>2, <2>3, <1>4
<1>6. IsFor(r, p) => PassOf(r, p) \in Passes(p) /\ KeyOf(r) \in LookedUp(p, PassOf(r, p))
  BY <1>5, <1>1 DEF IsFor, PassOf, Passes
<1>7. ASSUME NEW pass \in Passes(p), KeyOf(r) \in LookedUp(p, pass)
      PROVE  IsFor(r, p) /\ pass = PassOf(r, p)
  BY <1>5, <1>1, <1>7 DEF IsFor, PassOf, Passes
<1> QED BY <1>6, <1>7

-----------------------------------------------------------------------------
(* The tables.                                                             *)

\* Every entry is an enabled route that BuildRoutes has been at, under its own key ...
EntriesAreRoutes ==
  \A k \in Key : \A j \in DOMAIN index[k] :
    index[k][j] < position /\ routes[index[k][j]].enable /\ KeyOf(routes[index[k][j]]) = k

\* ... and every such route has an entry.
RoutesHaveEntries ==
  \A r \in 1..RouteCount : r < position /\ routes[r].enable =>
    \E j \in DOMAIN index[KeyOf(routes[r])] : index[KeyOf(routes[r])][j] = r

\* Packets are processed once the tables are complete.
SentFromTables ==
  packet # None =>
    /\ position = RouteCount + 1 /\ packet \in RoutePacket
    /\ sentTo = {d \in Destinations(packet) : index[d.key][d.at] \notin muted}

TableInv == RouteTypeOK /\ EntriesAreRoutes /\ RoutesHaveEntries /\ ServedInOrder /\ SentFromTables

LEMMA DestinationsAreEntries ==
  ASSUME index \in [Key -> Seq(1..RouteCount)], NEW p \in RoutePacket
  PROVE  \A d : d \in Destinations(p) <=>
                 /\ d = [pass |-> d.pass, key |-> d.key, at |-> d.at]
                 /\ d.pass \in Passes(p) /\ d.key \in LookedUp(p, d.pass)
                 /\ d.at \in DOMAIN index[d.key]
  BY DEF Destinations

LEMMA LookedUpIsKey ==
  ASSUME NEW p \in RoutePacket, NEW pass
  PROVE  LookedUp(p, pass) \subseteq Key
<1>1. p.table \in Tables /\ p.port \in Ports /\ p.ip \in Senders /\ p.path \in Paths \cup {NoPath}
  BY DEF RoutePacket
<1>2. ASSUME NEW wild \in BOOLEAN, NEW path \in Paths \cup {NoPath}
      PROVE  [table |-> p.table, port |-> p.port, ip |-> IF pass = "any" THEN 0 ELSE p.ip,
              wild |-> wild, path |-> path] \in Key
  BY <1>1 DEF Key
<1> QED BY <1>1, <1>2 DEF LookedUp

LEMMA InitTableInv == RouteInit => TableInv
<1> SUFFICES ASSUME RouteInit PROVE TableInv
  OBVIOUS
<1>1. RouteTypeOK
  BY DEF RouteInit, RouteTypeOK
<1>2. EntriesAreRoutes /\ RoutesHaveEntries /\ ServedInOrder /\ SentFromTables
  BY DEF RouteInit, EntriesAreRoutes, RoutesHaveEntries, ServedInOrder, SentFromTables
<1> QED BY <1>1, <1>2 DEF TableInv

LEMMA AddRouteTableInv == TableInv /\ AddRoute => TableInv'
<1> SUFFICES ASSUME TableInv, AddRoute PROVE TableInv'
  OBVIOUS
<1> DEFINE key == KeyOf(routes[position])
<1>1. /\ routes \in [1..RouteCount -> TableRoute] /\ position \in 1..RouteCount /\ routes[position].enable /\ routes[position] \in TableRoute
      /\ index \in [Key -> Seq(1..RouteCount)]
  BY DEF TableInv, RouteTypeOK, AddRoute
<1>2. key \in Key
  BY <1>1, KeyInKey
<1>3. /\ index' = [index EXCEPT ![key] = Append(@, position)] /\ position' = position + 1
      /\ UNCHANGED <<routes, muted, packet, sentTo>>
  BY DEF AddRoute
<1> HIDE DEF key
<1>4. /\ index' \in [Key -> Seq(1..RouteCount)]
      /\ \A k \in Key : k # key => index'[k] = index[k]
      /\ DOMAIN index'[key] = 1..(Len(index[key]) + 1)
      /\ DOMAIN index[key] = 1..Len(index[key]) /\ Len(index[key]) \in Nat
      /\ \A j \in DOMAIN index[key] : index'[key][j] = index[key][j]
      /\ index'[key][Len(index[key]) + 1] = position
  BY <1>1, <1>2, <1>3
<1>5. packet = None
  BY <1>1 DEF TableInv, SentFromTables
<1>6. RouteTypeOK'
  <2>1. udpIn' \in [Ports -> UdpIn \cup {None}]
    <3>1. /\ routes[position].protocol \in Protocols /\ routes[position].port \in Ports /\ routes[position].ip \in Senders
          /\ udpIn \in [Ports -> UdpIn \cup {None}] /\ udpIn' = Listening(routes[position], position, udpIn)
      BY <1>1 DEF TableRoute, TableInv, RouteTypeOK, AddRoute
    <3>2. CASE TableOf(routes[position].protocol) # "port"
      BY <3>1, <3>2 DEF Listening
    <3>3. CASE TableOf(routes[position].protocol) = "port" /\ udpIn[routes[position].port] = None
      <4>1. [ip |-> routes[position].ip, protocol |-> routes[position].protocol, ids |-> {position}] \in UdpIn
        BY <3>1, <1>1 DEF UdpIn
      <4> QED BY <3>1, <3>3, <4>1 DEF Listening
    <3>4. CASE TableOf(routes[position].protocol) = "port" /\ udpIn[routes[position].port] # None
      <4>1. udpIn[routes[position].port] \in UdpIn
        BY <3>1, <3>4
      <4>2. [udpIn[routes[position].port] EXCEPT !.ids = @ \cup {position}] \in UdpIn
        BY <4>1, <1>1 DEF UdpIn
      <4>3. udpIn' = [udpIn EXCEPT ![routes[position].port] =
                        [udpIn[routes[position].port] EXCEPT !.ids = @ \cup {position}]]
        BY <3>1, <3>4 DEF Listening
      <4> QED BY <3>1, <4>2, <4>3
    <3> QED BY <3>2, <3>3, <3>4
  <2> QED BY <2>1, <1>1, <1>3, <1>4 DEF TableInv, RouteTypeOK
<1>7. EntriesAreRoutes'
  <2> SUFFICES ASSUME NEW k \in Key, NEW j \in DOMAIN index'[k]
               PROVE  /\ index'[k][j] < position + 1 /\ routes[index'[k][j]].enable
                      /\ KeyOf(routes[index'[k][j]]) = k
    BY <1>3 DEF EntriesAreRoutes
  <2>1. CASE k # key \/ j \in DOMAIN index[k]
    <3>1. j \in DOMAIN index[k] /\ index'[k][j] = index[k][j]
      BY <2>1, <1>4
    <3>2. index[k] \in Seq(1..RouteCount)
      BY <1>1
    <3>3. index[k][j] \in 1..RouteCount
      BY <3>1, <3>2
    <3> QED BY <3>1, <3>3, <1>1 DEF TableInv, EntriesAreRoutes
  <2>2. CASE k = key /\ j \notin DOMAIN index[k]
    <3>1. index'[k][j] = position
      BY <2>2, <1>4
    <3> QED BY <3>1, <2>2, <1>1 DEF key
  <2> QED BY <2>1, <2>2
<1>8. RoutesHaveEntries'
  <2> SUFFICES ASSUME NEW r \in 1..RouteCount, r < position + 1, routes[r].enable
               PROVE  \E j \in DOMAIN index'[KeyOf(routes[r])] : index'[KeyOf(routes[r])][j] = r
    BY <1>3 DEF RoutesHaveEntries
  <2>1. CASE r = position
    <3>1. KeyOf(routes[r]) = key
      BY <2>1 DEF key
    <3>2. Len(index[key]) + 1 \in DOMAIN index'[key]
      BY <1>4
    <3> QED BY <3>1, <3>2, <2>1, <1>4
  <2>2. CASE r < position
    <3>1. PICK j \in DOMAIN index[KeyOf(routes[r])] : index[KeyOf(routes[r])][j] = r
      BY <2>2 DEF TableInv, RoutesHaveEntries
    <3>2. KeyOf(routes[r]) \in Key
      BY <1>1, KeyInKey
    <3> DEFINE k == KeyOf(routes[r])
    <3>3. k \in Key /\ j \in DOMAIN index[k] /\ index[k][j] = r
      BY <3>1, <3>2
    <3> HIDE DEF k
    <3>4. j \in DOMAIN index'[k] /\ index'[k][j] = r
      <4>1. CASE k = key
        BY <4>1, <3>3, <1>4
      <4>2. CASE k # key
        BY <4>2, <3>3, <1>4
      <4> QED BY <4>1, <4>2
    <3> QED BY <3>4 DEF k
  <2> QED BY <2>1, <2>2, <1>1
<1>9. ServedInOrder'
  <2> SUFFICES ASSUME NEW k \in Key, NEW j \in DOMAIN index'[k], NEW l \in DOMAIN index'[k], j < l
               PROVE  index'[k][j] < index'[k][l]
    BY DEF ServedInOrder
  <2>1. CASE k # key \/ l \in DOMAIN index[k]
    <3>1. /\ j \in DOMAIN index[k] /\ l \in DOMAIN index[k]
          /\ index'[k][j] = index[k][j] /\ index'[k][l] = index[k][l]
      <4>1. CASE k # key
        BY <4>1, <1>4
      <4>2. CASE k = key /\ l \in DOMAIN index[key]
        <5>1. l \in Nat /\ j \in Nat /\ l <= Len(index[key]) /\ 1 <= j
          BY <4>2, <1>4
        <5>2. j \in DOMAIN index[key]
          BY <5>1, <1>4
        <5> QED BY <4>2, <5>2, <1>4
      <4> QED BY <2>1, <4>1, <4>2
    <3> QED BY <3>1 DEF TableInv, ServedInOrder
  <2>2. CASE k = key /\ l \notin DOMAIN index[k]
    <3>1. j \in 1..(Len(index[key]) + 1) /\ l \in 1..(Len(index[key]) + 1)
      <4>1. DOMAIN index'[k] = 1..(Len(index[key]) + 1)
        BY <2>2, <1>4
      <4> QED BY <4>1
    <3>2. l = Len(index[key]) + 1 /\ j \in 1..Len(index[key])
      <4>1. l \notin 1..Len(index[key]) /\ Len(index[key]) \in Nat
        BY <2>2, <1>4
      <4> QED BY <3>1, <4>1
    <3>3. /\ j \in DOMAIN index[k] /\ index'[k][l] = position /\ index'[k][j] = index[k][j]
      BY <3>2, <2>2, <1>4
    <3> QED BY <3>3 DEF TableInv, EntriesAreRoutes
  <2> QED BY <2>1, <2>2
<1>10. SentFromTables'
  BY <1>3, <1>5 DEF SentFromTables
<1> QED BY <1>6, <1>7, <1>8, <1>9, <1>10 DEF TableInv

LEMMA SkipDisabledTableInv == TableInv /\ SkipDisabled => TableInv'
<1> SUFFICES ASSUME TableInv, SkipDisabled PROVE TableInv'
  OBVIOUS
<1>1. /\ position \in 1..RouteCount /\ ~routes[position].enable /\ position' = position + 1
      /\ UNCHANGED <<routes, muted, index, udpIn, packet, sentTo>>
  BY DEF SkipDisabled
<1>2. packet = None
  BY <1>1 DEF TableInv, SentFromTables
<1>3. RouteTypeOK'
  BY <1>1 DEF TableInv, RouteTypeOK
<1>4. EntriesAreRoutes'
  <2> SUFFICES ASSUME NEW k \in Key, NEW j \in DOMAIN index[k]
               PROVE  /\ index[k][j] < position + 1 /\ routes[index[k][j]].enable
                      /\ KeyOf(routes[index[k][j]]) = k
    BY <1>1 DEF EntriesAreRoutes
  <2>1. index[k][j] \in 1..RouteCount
    BY DEF TableInv, RouteTypeOK
  <2> QED BY <2>1, <1>1 DEF TableInv, EntriesAreRoutes
<1>5. RoutesHaveEntries'
  BY <1>1 DEF TableInv, RoutesHaveEntries
<1>6. ServedInOrder' /\ SentFromTables'
  BY <1>1, <1>2 DEF TableInv, ServedInOrder, SentFromTables
<1> QED BY <1>3, <1>4, <1>5, <1>6 DEF TableInv

LEMMA ProcessRecvPacketTableInv ==
  ASSUME TableInv, NEW p \in RoutePacket, ProcessRecvPacket(p) PROVE TableInv'
<1>1. /\ position = RouteCount + 1 /\ packet' = p /\ UNCHANGED <<routes, muted, position, index, udpIn>>
      /\ sentTo' = {d \in Destinations(p) : index[d.key][d.at] \notin muted}
  BY DEF ProcessRecvPacket
<1>2. index \in [Key -> Seq(1..RouteCount)]
  BY DEF TableInv, RouteTypeOK
<1>3. RouteTypeOK'
  <2>1. ASSUME NEW d \in sentTo' PROVE d \in Entry
    <3>1. /\ d = [pass |-> d.pass, key |-> d.key, at |-> d.at]
          /\ d.pass \in Passes(p) /\ d.key \in LookedUp(p, d.pass) /\ d.at \in DOMAIN index[d.key]
      BY <1>1, <1>2, DestinationsAreEntries
    <3>2. d.key \in Key
      BY <3>1, LookedUpIsKey
    <3>3. d.at \in Nat /\ d.pass \in {"sender", "any"}
      BY <3>1, <3>2, <1>2 DEF Passes
    <3> QED BY <3>1, <3>2, <3>3 DEF Entry
  <2> QED BY <2>1, <1>1 DEF TableInv, RouteTypeOK
<1>4. EntriesAreRoutes' /\ RoutesHaveEntries' /\ ServedInOrder'
  BY <1>1 DEF TableInv, EntriesAreRoutes, RoutesHaveEntries, ServedInOrder
<1>5. SentFromTables'
  BY <1>1 DEF SentFromTables, Destinations
<1> QED BY <1>3, <1>4, <1>5 DEF TableInv

LEMMA NextTableInv == TableInv /\ [RouteNext]_routeVars => TableInv'
<1> SUFFICES ASSUME TableInv, [RouteNext]_routeVars PROVE TableInv'
  OBVIOUS
<1>1. CASE AddRoute
  BY <1>1, AddRouteTableInv
<1>2. CASE SkipDisabled
  BY <1>2, SkipDisabledTableInv
<1>3. CASE \E p \in RoutePacket : ProcessRecvPacket(p)
  BY <1>3, ProcessRecvPacketTableInv
<1>4. CASE UNCHANGED routeVars
  <2>1. UNCHANGED <<routes, muted, position, index, udpIn, packet, sentTo>>
    BY <1>4 DEF routeVars
  <2> QED BY <2>1 DEF TableInv, RouteTypeOK, EntriesAreRoutes, RoutesHaveEntries, ServedInOrder,
                     SentFromTables, Destinations
<1> QED BY <1>1, <1>2, <1>3, <1>4 DEF RouteNext

-----------------------------------------------------------------------------

LEMMA IInvRoutesOnce == TableInv => RoutedExactlyOnce
<1> SUFFICES ASSUME TableInv, packet # None, NEW r \in 1..RouteCount
             PROVE  Cardinality({d \in sentTo : index[d.key][d.at] = r})
                      = IF IsFor(routes[r], packet) /\ r \notin muted THEN 1 ELSE 0
  BY DEF RoutedExactlyOnce
<1> DEFINE S == {d \in sentTo : index[d.key][d.at] = r}
           k == KeyOf(routes[r])
<1>1. /\ position = RouteCount + 1 /\ packet \in RoutePacket /\ routes[r] \in TableRoute /\ index \in [Key -> Seq(1..RouteCount)]
      /\ sentTo = {d \in Destinations(packet) : index[d.key][d.at] \notin muted}
  BY DEF TableInv, SentFromTables, RouteTypeOK
<1>2. ASSUME NEW d \in S
      PROVE  /\ d = [pass |-> d.pass, key |-> k, at |-> d.at]
             /\ routes[r].enable /\ IsFor(routes[r], packet) /\ r \notin muted
             /\ d.pass = PassOf(routes[r], packet) /\ d.at \in DOMAIN index[k] /\ index[k][d.at] = r
  <2>1. /\ d \in Destinations(packet) /\ index[d.key][d.at] = r /\ r \notin muted
    BY <1>1
  <2>2. /\ d = [pass |-> d.pass, key |-> d.key, at |-> d.at]
        /\ d.pass \in Passes(packet) /\ d.key \in LookedUp(packet, d.pass)
        /\ d.at \in DOMAIN index[d.key]
    BY <2>1, <1>1, DestinationsAreEntries
  <2>3. d.key \in Key
    BY <2>2, <1>1, LookedUpIsKey
  <2>4. routes[r].enable /\ d.key = k
    BY <2>1, <2>2, <2>3 DEF TableInv, EntriesAreRoutes
  <2>5. IsFor(routes[r], packet) /\ d.pass = PassOf(routes[r], packet)
    BY <2>2, <2>4, <1>1, LookUpFinds
  <2> QED BY <2>1, <2>2, <2>4, <2>5
<1>3. CASE IsFor(routes[r], packet) /\ r \notin muted
  <2>1. routes[r].enable /\ k \in Key
    BY <1>3, <1>1, KeyInKey DEF IsFor
  <2>2. PICK j \in DOMAIN index[k] : index[k][j] = r
    BY <2>1, <1>1 DEF TableInv, RoutesHaveEntries
  <2> DEFINE e == [pass |-> PassOf(routes[r], packet), key |-> k, at |-> j]
  <2>3. e \in S
    <3>1. e.pass \in Passes(packet) /\ e.key \in LookedUp(packet, e.pass)
      BY <1>1, <1>3, <2>1, LookUpFinds
    <3>2. e \in Destinations(packet)
      BY <3>1, <2>2, <1>1, DestinationsAreEntries
    <3> QED BY <3>2, <2>2, <1>1, <1>3
  <2>4. ASSUME NEW d \in S PROVE d = e
    <3>1. /\ d = [pass |-> d.pass, key |-> k, at |-> d.at] /\ d.pass = PassOf(routes[r], packet)
          /\ d.at \in DOMAIN index[k] /\ index[k][d.at] = r
      BY <1>2
    <3>2. index[k] \in Seq(1..RouteCount)
      BY <2>1, <1>1
    <3>3. d.at \in Nat /\ j \in Nat
      BY <3>1, <3>2, <2>2
    <3>4. ~(d.at < j) /\ ~(j < d.at)
      BY <3>1, <2>1, <2>2 DEF TableInv, ServedInOrder
    <3>5. d.at = j
      BY <3>3, <3>4
    <3> QED BY <3>1, <3>5
  <2>5. S = {e}
    BY <2>3, <2>4
  <2> QED BY <2>5, <1>3, FS_Singleton
<1>4. CASE ~(IsFor(routes[r], packet) /\ r \notin muted)
  <2>1. S = {}
    BY <1>2, <1>4
  <2> QED BY <2>1, <1>4, FS_EmptySet
<1> QED BY <1>3, <1>4

THEOREM Inductive == RouteSpec => []TableInv
<1> QED BY InitTableInv, NextTableInv, PTL DEF RouteSpec

\* The variables keep their types.
THEOREM RouteTableTypes == RouteSpec => []RouteTypeOK
<1>1. TableInv => RouteTypeOK
  BY DEF TableInv
<1> QED BY <1>1, Inductive, PTL

\* A packet goes once to every route it is for that is not muted, and nowhere else.
THEOREM PacketsRoutedOnce == RouteSpec => []RoutedExactlyOnce
<1> QED BY IInvRoutesOnce, Inductive, PTL

\* Routes with the same source are served in the order of the list.
THEOREM RoutesServedInOrder == RouteSpec => []ServedInOrder
<1>1. TableInv => ServedInOrder
  BY DEF TableInv
<1> QED BY <1>1, Inductive, PTL
=============================================================================
