----------------------------- MODULE ArtNet_proofs -----------------------------
(***************************************************************************)
(* Proofs about ArtNet: that a node shows what its sources sent, merged,   *)
(* and that the outputs follow the inputs that are routed to them, for any *)
(* routes, sources, levels and sizes.                                      *)
(***************************************************************************)
EXTENDS ArtNet, Induction

Levels  == [ArtChannel -> ArtLevel]
Sources == ArtSource \cup {NoSource}

LEMMA Sizes == /\ Nibble \in Nat /\ Nibble > 0 /\ ArtSize \in Nat /\ ArtSize > 0
               /\ 0 \in ArtLevel /\ ArtLevel \subseteq Nat /\ NoSource \notin ArtSource
               /\ ArtChannel \subseteq Nat
  BY ArtNetAssumption DEF ArtChannel

\* The higher of two levels is one of them.
LEMMA HigherLevel == \A a, b \in ArtLevel : Max({a, b}) \in ArtLevel
<1> SUFFICES ASSUME NEW a \in ArtLevel, NEW b \in ArtLevel PROVE Max({a, b}) \in ArtLevel OBVIOUS
<1>1. a \in Nat /\ b \in Nat BY Sizes
<1>2. \E x \in {a, b} : \A y \in {a, b} : x >= y BY <1>1
<1>3. Max({a, b}) \in {a, b} BY <1>2 DEF Max
<1> QED BY <1>3

-----------------------------------------------------------------------------
(* Addresses.                                                              *)

LEMMA Quotients ==
  ASSUME NEW k \in Nat, k > 0, NEW u \in Nat
  PROVE  /\ u % k \in 0..(k - 1) /\ u \div k \in Nat /\ u = k * (u \div k) + (u % k)
         /\ u < k * k => u \div k < k
<1>1. u % k \in 0..(k - 1) /\ u \div k \in Nat OBVIOUS
<1>2. u = k * (u \div k) + (u % k) OBVIOUS
<1>3. ASSUME u < k * k PROVE u \div k < k
  <2> DEFINE d == u \div k
  <2>1. \A x, y, z \in Nat : x >= y => z * x >= z * y OBVIOUS
  <2>2. d \in Nat /\ u >= k * d BY <1>1, <1>2
  <2> HIDE DEF d
  <2>3. CASE d >= k
    <3>1. k * d >= k * k BY <2>1, <2>2, <2>3
    <3> QED BY <1>3, <2>2, <3>1
  <2> QED BY <2>2, <2>3 DEF d
<1> QED BY <1>1, <1>2, <1>3

LEMMA CutAddress == \A n \in Nat : Cut(n) \in Address
<1>1. Nibble * Nibble \in Nat /\ Nibble * Nibble > 0 BY Sizes
<1>2. \A k \in Nat, n \in Nat : k > 0 => n % k \in 0..(k - 1) OBVIOUS
<1> QED BY <1>1, <1>2 DEF Cut, Address

LEMMA AddressMade == \A s, p \in Nat : MakeAddr(s, p) \in Address
<1> SUFFICES ASSUME NEW s \in Nat, NEW p \in Nat PROVE MakeAddr(s, p) \in Address OBVIOUS
<1>1. Nibble \in Nat /\ Nibble > 0 BY Sizes
<1>2. s % Nibble \in 0..(Nibble - 1) /\ p % Nibble \in 0..(Nibble - 1) BY <1>1, Quotients
<1>3. \A k \in Nat : \A a, b \in 0..(k - 1) : k > 0 => a * k + b \in 0..(k * k - 1) OBVIOUS
<1> QED BY <1>1, <1>2, <1>3 DEF MakeAddr, Address

\* Every universe but one has an address of its own.
LEMMA AddressesListen == ListensWhereRouted
<1> SUFFICES ASSUME NEW u \in Address \ {Nibble} PROVE PortAddress(u) = u
  BY DEF ListensWhereRouted, NewNode
<1>1. Nibble \in Nat /\ Nibble > 0 /\ u \in Nat /\ u < Nibble * Nibble BY Sizes DEF Address
<1> DEFINE q == u \div Nibble   r == u % Nibble
<1>2. q \in Nat /\ q < Nibble /\ r \in 0..(Nibble - 1) /\ u = Nibble * q + r BY <1>1, Quotients
<1>3. \A k \in Nat, n \in Nat : n < k => n % k = n OBVIOUS
<1>4. CASE u > Nibble
  <2>1. q % Nibble = q /\ r % Nibble = r BY <1>1, <1>2, <1>3
  <2>2. PortAddress(u) = q * Nibble + r BY <1>4, <2>1 DEF PortAddress, MakeAddr
  <2> HIDE DEF q, r
  <2> QED BY <1>1, <1>2, <2>2
<1>5. CASE u < Nibble
  <2>1. u % Nibble = u /\ 0 % Nibble = 0 BY <1>1, <1>3, <1>5
  <2>2. PortAddress(u) = 0 * Nibble + u BY <1>1, <1>5, <2>1 DEF PortAddress, MakeAddr
  <2> QED BY <1>1, <2>2
<1> QED BY <1>1, <1>4, <1>5

-----------------------------------------------------------------------------
(* A frame in a node.                                                      *)

\* What handle_dmx makes of a port that holds two different senders: the frame is dropped, or
\* stored in a slot and shown, alone or merged with the other slot.
Dropped(old, s, w) ==
  /\ s \notin {old.ipA, old.ipB}
  /\ w.dataA = old.dataA /\ w.dataB = old.dataB /\ w.data = old.data /\ w.length = old.length
  /\ w.ipA \in {old.ipA, NoSource} /\ w.ipB \in {old.ipB, NoSource}

ShownOf(old, frame, w) ==
  /\ w.length = Len(frame)
  /\ \A c \in ArtChannel : c <= w.length => w.data[c] = frame[c]

MergedOf(w, frame) ==
  /\ w.length = Len(frame)
  /\ \A c \in ArtChannel : c <= w.length => w.data[c] = Max({w.dataA[c], w.dataB[c]})

Holds(data, frame) == \A c \in ArtChannel : c <= Len(frame) => data[c] = frame[c]

InA(old, s, frame, w) ==
  /\ Holds(w.dataA, frame) /\ w.dataB = old.dataB
  /\ w.ipA \in {s, NoSource}
  /\ \/ w.ipB = NoSource /\ ShownOf(old, frame, w)
     \/ w.ipB \in {old.ipB, NoSource} /\ IsOther(old.ipB, s) /\ MergedOf(w, frame)

InB(old, s, frame, w) ==
  /\ Holds(w.dataB, frame) /\ w.dataA = old.dataA
  /\ w.ipB \in {s, NoSource}
  /\ \/ w.ipA = NoSource /\ ShownOf(old, frame, w)
     \/ w.ipA \in {old.ipA, NoSource} /\ IsOther(old.ipA, s) /\ MergedOf(w, frame)

\* A sender that has no other beside it is shown as it is.
ShownAlone(old, s, frame, w) ==
  old.ipA \in {s, NoSource} /\ old.ipB \in {s, NoSource} => ShownOf(old, frame, w)

Outcome(old, s, frame, w) ==
  /\ w \in Port
  /\ w.addr = old.addr /\ w.prevDMX = old.prevDMX /\ w.hasPrevDMX = old.hasPrevDMX
  /\ Dropped(old, s, w) \/ InA(old, s, frame, w) \/ InB(old, s, frame, w)
  /\ old.oldA => w.ipA \in {s, NoSource}
  /\ old.oldB => w.ipB \in {s, NoSource}
  /\ ShownAlone(old, s, frame, w)

Frame == {f \in Seq(ArtLevel) : Len(f) \in 1..ArtSize}

LEMMA OverLevels ==
  ASSUME NEW data \in Levels, NEW frame \in Frame
  PROVE  Over(data, frame) \in Levels /\ Holds(Over(data, frame), frame)
<1>1. Len(frame) \in 1..ArtSize /\ \A c \in 1..Len(frame) : frame[c] \in ArtLevel BY DEF Frame
<1>2. \A c \in ArtChannel : c <= Len(frame) => c \in 1..Len(frame) BY <1>1, Sizes DEF ArtChannel
<1> QED BY <1>1, <1>2 DEF Over, Holds, Levels

LEMMA TimeoutsPort ==
  ASSUME NEW p \in Port
  PROVE  LET w == CheckMergeTimeouts(p)
         IN  /\ w \in Port /\ w.addr = p.addr /\ w.prevDMX = p.prevDMX /\ w.hasPrevDMX = p.hasPrevDMX
             /\ w.dataA = p.dataA /\ w.dataB = p.dataB /\ w.data = p.data /\ w.length = p.length
             /\ w.ipA = IF p.oldA THEN NoSource ELSE p.ipA
             /\ w.ipB = IF p.oldB THEN NoSource ELSE p.ipB
  BY DEF CheckMergeTimeouts, Port

LEMMA StoreFields ==
  ASSUME NEW p \in Port, NEW frame \in Frame
  PROVE  /\ LET w == StoreA(p, frame)
            IN  /\ w \in Port /\ w.addr = p.addr /\ w.prevDMX = p.prevDMX /\ w.hasPrevDMX = p.hasPrevDMX
                /\ w.dataA = Over(p.dataA, frame) /\ w.dataB = p.dataB /\ w.data = p.data
                /\ w.length = Len(frame) /\ w.ipA = p.ipA /\ w.ipB = p.ipB
         /\ LET w == StoreB(p, frame)
            IN  /\ w \in Port /\ w.addr = p.addr /\ w.prevDMX = p.prevDMX /\ w.hasPrevDMX = p.hasPrevDMX
                /\ w.dataB = Over(p.dataB, frame) /\ w.dataA = p.dataA /\ w.data = p.data
                /\ w.length = Len(frame) /\ w.ipA = p.ipA /\ w.ipB = p.ipB
<1>1. p.dataA \in Levels /\ p.dataB \in Levels BY DEF Port, Levels
<1>2. Over(p.dataA, frame) \in Levels /\ Over(p.dataB, frame) \in Levels BY <1>1, OverLevels
<1>3. Len(frame) \in 0..ArtSize BY Sizes DEF Frame
<1> QED BY <1>2, <1>3 DEF StoreA, StoreB, Port, Levels

LEMMA ShowFields ==
  ASSUME NEW p \in Port, NEW frame \in Frame, p.length = Len(frame)
  PROVE  LET w == Show(p, frame)
         IN  /\ w \in Port /\ w.addr = p.addr /\ w.prevDMX = p.prevDMX /\ w.hasPrevDMX = p.hasPrevDMX
             /\ w.dataA = p.dataA /\ w.dataB = p.dataB /\ w.ipA = p.ipA /\ w.ipB = p.ipB
             /\ ShownOf(p, frame, w)
<1>1. p.data \in Levels BY DEF Port, Levels
<1>2. Over(p.data, frame) \in Levels /\ Holds(Over(p.data, frame), frame) BY <1>1, OverLevels
<1>3. Len(frame) \in 1..ArtSize BY DEF Frame
<1> QED BY <1>2, <1>3 DEF Show, Port, Levels, ShownOf, Holds

LEMMA MergeFields ==
  ASSUME NEW p \in Port, NEW frame \in Frame, p.length = Len(frame)
  PROVE  LET w == Merge(p)
         IN  /\ w \in Port /\ w.addr = p.addr /\ w.prevDMX = p.prevDMX /\ w.hasPrevDMX = p.hasPrevDMX
             /\ w.dataA = p.dataA /\ w.dataB = p.dataB /\ w.ipA = p.ipA /\ w.ipB = p.ipB
             /\ MergedOf(w, frame)
<1> DEFINE merged == [c \in ArtChannel |-> IF c <= p.length THEN Max({p.dataA[c], p.dataB[c]})
                                           ELSE p.data[c]]
<1>1. \A c \in ArtChannel : p.dataA[c] \in ArtLevel /\ p.dataB[c] \in ArtLevel /\ p.data[c] \in ArtLevel
  BY DEF Port
<1>2. \A c \in ArtChannel : Max({p.dataA[c], p.dataB[c]}) \in ArtLevel BY <1>1, HigherLevel
<1>3. merged \in Levels BY <1>1, <1>2 DEF Levels
<1>4. \A c \in ArtChannel : c <= p.length => merged[c] = Max({p.dataA[c], p.dataB[c]}) OBVIOUS
<1>5. Merge(p) = [p EXCEPT !.data = merged] BY DEF Merge
<1> HIDE DEF merged
<1> QED BY <1>3, <1>4, <1>5 DEF Port, Levels, MergedOf

LEMMA TakenBy ==
  ASSUME NEW p \in Port, NEW s \in ArtSource
  PROVE  /\ LET w == [p EXCEPT !.ipA = s]
            IN  /\ w \in Port /\ w.addr = p.addr /\ w.prevDMX = p.prevDMX /\ w.hasPrevDMX = p.hasPrevDMX
                /\ w.dataA = p.dataA /\ w.dataB = p.dataB /\ w.data = p.data
                /\ w.ipA = s /\ w.ipB = p.ipB
         /\ LET w == [p EXCEPT !.ipB = s]
            IN  /\ w \in Port /\ w.addr = p.addr /\ w.prevDMX = p.prevDMX /\ w.hasPrevDMX = p.hasPrevDMX
                /\ w.dataA = p.dataA /\ w.dataB = p.dataB /\ w.data = p.data
                /\ w.ipA = p.ipA /\ w.ipB = s
  BY DEF Port

AShows(p, frame)  == Show(StoreA(p, frame), frame)
BShows(p, frame)  == Show(StoreB(p, frame), frame)
AMerges(p, frame) == Merge(StoreA(p, frame))
BMerges(p, frame) == Merge(StoreB(p, frame))

\* What a port has after a frame was put in slot A or B, of what it had before.
Kept(p, w) ==
  /\ w \in Port /\ w.addr = p.addr /\ w.prevDMX = p.prevDMX /\ w.hasPrevDMX = p.hasPrevDMX
  /\ w.ipA = p.ipA /\ w.ipB = p.ipB

LEMMA StoreThen ==
  ASSUME NEW p \in Port, NEW frame \in Frame
  PROVE  /\ Kept(p, AShows(p, frame)) /\ Holds(AShows(p, frame).dataA, frame)
         /\ AShows(p, frame).dataB = p.dataB /\ ShownOf(p, frame, AShows(p, frame))
         /\ Kept(p, BShows(p, frame)) /\ Holds(BShows(p, frame).dataB, frame)
         /\ BShows(p, frame).dataA = p.dataA /\ ShownOf(p, frame, BShows(p, frame))
         /\ Kept(p, AMerges(p, frame)) /\ Holds(AMerges(p, frame).dataA, frame)
         /\ AMerges(p, frame).dataB = p.dataB /\ MergedOf(AMerges(p, frame), frame)
         /\ Kept(p, BMerges(p, frame)) /\ Holds(BMerges(p, frame).dataB, frame)
         /\ BMerges(p, frame).dataA = p.dataA /\ MergedOf(BMerges(p, frame), frame)
<1> DEFINE a == StoreA(p, frame)   b == StoreB(p, frame)
<1>1. /\ a \in Port /\ a.addr = p.addr /\ a.prevDMX = p.prevDMX /\ a.hasPrevDMX = p.hasPrevDMX
      /\ a.dataA = Over(p.dataA, frame) /\ a.dataB = p.dataB
      /\ a.length = Len(frame) /\ a.ipA = p.ipA /\ a.ipB = p.ipB
  BY StoreFields
<1>2. /\ b \in Port /\ b.addr = p.addr /\ b.prevDMX = p.prevDMX /\ b.hasPrevDMX = p.hasPrevDMX
      /\ b.dataB = Over(p.dataB, frame) /\ b.dataA = p.dataA
      /\ b.length = Len(frame) /\ b.ipA = p.ipA /\ b.ipB = p.ipB
  BY StoreFields
<1>3. Holds(a.dataA, frame) /\ Holds(b.dataB, frame)
  <2>1. p.dataA \in Levels /\ p.dataB \in Levels BY DEF Port, Levels
  <2> QED BY <1>1, <1>2, <2>1, OverLevels
<1> HIDE DEF a, b
<1>4. \A t \in Port : t.length = Len(frame) =>
        LET v == Show(t, frame)   m == Merge(t)
        IN  /\ v \in Port /\ v.addr = t.addr /\ v.prevDMX = t.prevDMX /\ v.hasPrevDMX = t.hasPrevDMX
            /\ v.dataA = t.dataA /\ v.dataB = t.dataB /\ v.ipA = t.ipA /\ v.ipB = t.ipB
            /\ ShownOf(p, frame, v)
            /\ m \in Port /\ m.addr = t.addr /\ m.prevDMX = t.prevDMX /\ m.hasPrevDMX = t.hasPrevDMX
            /\ m.dataA = t.dataA /\ m.dataB = t.dataB /\ m.ipA = t.ipA /\ m.ipB = t.ipB
            /\ MergedOf(m, frame)
  BY ShowFields, MergeFields DEF ShownOf
<1>5. Kept(p, Show(a, frame)) /\ Kept(p, Merge(a)) BY <1>1, <1>4 DEF Kept
<1>6. Kept(p, Show(b, frame)) /\ Kept(p, Merge(b)) BY <1>2, <1>4 DEF Kept
<1>7. /\ Holds(Show(a, frame).dataA, frame) /\ Show(a, frame).dataB = p.dataB
      /\ Holds(Merge(a).dataA, frame) /\ Merge(a).dataB = p.dataB
      /\ ShownOf(p, frame, Show(a, frame)) /\ MergedOf(Merge(a), frame)
  BY <1>1, <1>3, <1>4
<1>8. /\ Holds(Show(b, frame).dataB, frame) /\ Show(b, frame).dataA = p.dataA
      /\ Holds(Merge(b).dataB, frame) /\ Merge(b).dataA = p.dataA
      /\ ShownOf(p, frame, Show(b, frame)) /\ MergedOf(Merge(b), frame)
  BY <1>2, <1>3, <1>4
<1> QED BY <1>5, <1>6, <1>7, <1>8 DEF AShows, BShows, AMerges, BMerges, a, b

LEMMA HandleOutcome ==
  ASSUME NEW old \in Port, NEW s \in ArtSource, NEW frame \in Frame, old.ipA = old.ipB => old.ipA = NoSource
  PROVE  Outcome(old, s, frame, HandleDmx(old, s, frame))
<1> DEFINE p == CheckMergeTimeouts(old)
           w == HandleDmx(old, s, frame)
           a == [p EXCEPT !.ipA = s]
           b == [p EXCEPT !.ipB = s]
<1>0. s # NoSource /\ old.ipA \in Sources /\ old.ipB \in Sources BY Sizes DEF Port, Sources
<1>1. /\ p \in Port /\ p.addr = old.addr /\ p.prevDMX = old.prevDMX /\ p.hasPrevDMX = old.hasPrevDMX
      /\ p.dataA = old.dataA /\ p.dataB = old.dataB /\ p.data = old.data /\ p.length = old.length
      /\ p.ipA = IF old.oldA THEN NoSource ELSE old.ipA
      /\ p.ipB = IF old.oldB THEN NoSource ELSE old.ipB
  BY TimeoutsPort
<1>2. /\ a \in Port /\ a.addr = p.addr /\ a.prevDMX = p.prevDMX /\ a.hasPrevDMX = p.hasPrevDMX
      /\ a.dataA = p.dataA /\ a.dataB = p.dataB /\ a.ipA = s /\ a.ipB = p.ipB
  BY <1>1, TakenBy
<1>3. /\ b \in Port /\ b.addr = p.addr /\ b.prevDMX = p.prevDMX /\ b.hasPrevDMX = p.hasPrevDMX
      /\ b.dataA = p.dataA /\ b.dataB = p.dataB /\ b.ipA = p.ipA /\ b.ipB = s
  BY <1>1, TakenBy
<1>4. /\ old.ipA = NoSource /\ old.ipB = NoSource => w = AShows(a, frame)
      /\ IsOther(old.ipA, s) /\ old.ipB = NoSource => w = BMerges(b, frame)
      /\ old.ipA = s /\ old.ipB = NoSource => w = AShows(p, frame)
      /\ old.ipA = NoSource /\ old.ipB = s => w = BShows(p, frame)
      /\ old.ipA = s /\ IsOther(old.ipB, s) => w = AMerges(p, frame)
      /\ IsOther(old.ipA, s) /\ old.ipB = s => w = BMerges(p, frame)
      /\ s \notin {old.ipA, old.ipB} /\ old.ipB # NoSource => w = p
  <2>1. old.ipA = NoSource /\ old.ipB = NoSource => w = AShows(a, frame) BY <1>0 DEF HandleDmx, IsOther, AShows, BShows, AMerges, BMerges
  <2>2. IsOther(old.ipA, s) /\ old.ipB = NoSource => w = BMerges(b, frame) BY <1>0 DEF HandleDmx, IsOther, AShows, BShows, AMerges, BMerges
  <2>3. old.ipA = s /\ old.ipB = NoSource => w = AShows(p, frame) BY <1>0 DEF HandleDmx, IsOther, AShows, BShows, AMerges, BMerges
  <2>4. old.ipA = NoSource /\ old.ipB = s => w = BShows(p, frame) BY <1>0 DEF HandleDmx, IsOther, AShows, BShows, AMerges, BMerges
  <2>5. old.ipA = s /\ IsOther(old.ipB, s) => w = AMerges(p, frame) BY <1>0 DEF HandleDmx, IsOther, AShows, BShows, AMerges, BMerges
  <2>6. IsOther(old.ipA, s) /\ old.ipB = s => w = BMerges(p, frame) BY <1>0 DEF HandleDmx, IsOther, AShows, BShows, AMerges, BMerges
  <2>7. s \notin {old.ipA, old.ipB} /\ old.ipB # NoSource => w = p BY <1>0 DEF HandleDmx, IsOther, AShows, BShows, AMerges, BMerges
  <2> QED BY <2>1, <2>2, <2>3, <2>4, <2>5, <2>6, <2>7
<1> SUFFICES Outcome(old, s, frame, w) OBVIOUS
<1> HIDE DEF p, w, a, b
<1>5. \A t \in {p, a, b} : /\ t \in Port /\ t.addr = old.addr /\ t.prevDMX = old.prevDMX
                           /\ t.hasPrevDMX = old.hasPrevDMX
                           /\ t.dataA = old.dataA /\ t.dataB = old.dataB
  BY <1>1, <1>2, <1>3
<1>6. \A t \in {p, a, b} :
        /\ Kept(t, AShows(t, frame)) /\ Holds(AShows(t, frame).dataA, frame)
        /\ AShows(t, frame).dataB = old.dataB /\ ShownOf(old, frame, AShows(t, frame))
        /\ Kept(t, BShows(t, frame)) /\ Holds(BShows(t, frame).dataB, frame)
        /\ BShows(t, frame).dataA = old.dataA /\ ShownOf(old, frame, BShows(t, frame))
        /\ Kept(t, AMerges(t, frame)) /\ Holds(AMerges(t, frame).dataA, frame)
        /\ AMerges(t, frame).dataB = old.dataB /\ MergedOf(AMerges(t, frame), frame)
        /\ Kept(t, BMerges(t, frame)) /\ Holds(BMerges(t, frame).dataB, frame)
        /\ BMerges(t, frame).dataA = old.dataA /\ MergedOf(BMerges(t, frame), frame)
  BY <1>5, StoreThen DEF ShownOf
<1> DEFINE Good(v) ==
      /\ v \in Port /\ v.addr = old.addr /\ v.prevDMX = old.prevDMX /\ v.hasPrevDMX = old.hasPrevDMX
      /\ old.oldA => v.ipA \in {s, NoSource}
      /\ old.oldB => v.ipB \in {s, NoSource}
<1>7. \A t \in {p, a, b} : \A v : Kept(t, v) => Good(v)
  BY <1>0, <1>1, <1>2, <1>3, <1>5 DEF Kept
<1>8. CASE old.ipA = NoSource /\ old.ipB = NoSource
  <2>1. w = AShows(a, frame) BY <1>4, <1>8
  <2>2. Kept(a, w) /\ Holds(w.dataA, frame) /\ w.dataB = old.dataB /\ ShownOf(old, frame, w)
    BY <1>6, <2>1
  <2>3. w.ipA = s /\ w.ipB = NoSource BY <1>1, <1>2, <1>8, <2>2 DEF Kept
  <2>4. InA(old, s, frame, w) BY <2>2, <2>3 DEF InA
  <2>5. Good(w) BY <1>7, <2>2
  <2> QED BY <2>2, <2>4, <2>5 DEF Outcome, ShownAlone
<1>9. CASE IsOther(old.ipA, s) /\ old.ipB = NoSource
  <2>1. w = BMerges(b, frame) BY <1>4, <1>9
  <2>2. Kept(b, w) /\ Holds(w.dataB, frame) /\ w.dataA = old.dataA /\ MergedOf(w, frame)
    BY <1>6, <2>1
  <2>3. w.ipA \in {old.ipA, NoSource} /\ w.ipB = s BY <1>1, <1>3, <2>2 DEF Kept
  <2>4. InB(old, s, frame, w) BY <1>9, <2>2, <2>3 DEF InB
  <2>5. Good(w) BY <1>7, <2>2
  <2> QED BY <1>9, <2>2, <2>4, <2>5 DEF Outcome, ShownAlone, IsOther
<1>10. CASE old.ipA = s /\ old.ipB = NoSource
  <2>1. w = AShows(p, frame) BY <1>4, <1>10
  <2>2. Kept(p, w) /\ Holds(w.dataA, frame) /\ w.dataB = old.dataB /\ ShownOf(old, frame, w)
    BY <1>6, <2>1
  <2>3. w.ipA \in {s, NoSource} /\ w.ipB = NoSource BY <1>1, <1>10, <2>2 DEF Kept
  <2>4. InA(old, s, frame, w) BY <2>2, <2>3 DEF InA
  <2>5. Good(w) BY <1>7, <2>2
  <2> QED BY <2>2, <2>4, <2>5 DEF Outcome, ShownAlone
<1>11. CASE old.ipA = NoSource /\ old.ipB = s
  <2>1. w = BShows(p, frame) BY <1>4, <1>11
  <2>2. Kept(p, w) /\ Holds(w.dataB, frame) /\ w.dataA = old.dataA /\ ShownOf(old, frame, w)
    BY <1>6, <2>1
  <2>3. w.ipB \in {s, NoSource} /\ w.ipA = NoSource BY <1>1, <1>11, <2>2 DEF Kept
  <2>4. InB(old, s, frame, w) BY <2>2, <2>3 DEF InB
  <2>5. Good(w) BY <1>7, <2>2
  <2> QED BY <2>2, <2>4, <2>5 DEF Outcome, ShownAlone
<1>12. CASE old.ipA = s /\ IsOther(old.ipB, s)
  <2>1. w = AMerges(p, frame) BY <1>4, <1>12
  <2>2. Kept(p, w) /\ Holds(w.dataA, frame) /\ w.dataB = old.dataB /\ MergedOf(w, frame)
    BY <1>6, <2>1
  <2>3. w.ipA \in {s, NoSource} /\ w.ipB \in {old.ipB, NoSource} BY <1>1, <1>12, <2>2 DEF Kept
  <2>4. InA(old, s, frame, w) BY <1>12, <2>2, <2>3 DEF InA
  <2>5. Good(w) BY <1>7, <2>2
  <2> QED BY <1>12, <2>2, <2>4, <2>5 DEF Outcome, ShownAlone, IsOther
<1>13. CASE IsOther(old.ipA, s) /\ old.ipB = s
  <2>1. w = BMerges(p, frame) BY <1>4, <1>13
  <2>2. Kept(p, w) /\ Holds(w.dataB, frame) /\ w.dataA = old.dataA /\ MergedOf(w, frame)
    BY <1>6, <2>1
  <2>3. w.ipB \in {s, NoSource} /\ w.ipA \in {old.ipA, NoSource} BY <1>1, <1>13, <2>2 DEF Kept
  <2>4. InB(old, s, frame, w) BY <1>13, <2>2, <2>3 DEF InB
  <2>5. Good(w) BY <1>7, <2>2
  <2> QED BY <1>13, <2>2, <2>4, <2>5 DEF Outcome, ShownAlone, IsOther
<1>14. CASE s \notin {old.ipA, old.ipB} /\ old.ipB # NoSource
  <2>1. w = p BY <1>4, <1>14
  <2>2. Dropped(old, s, w) BY <1>1, <1>14, <2>1 DEF Dropped
  <2>3. Good(w) BY <1>1, <2>1
  <2>4. ShownAlone(old, s, frame, w) BY <1>14 DEF ShownAlone
  <2> QED BY <2>2, <2>3, <2>4 DEF Outcome
<1> QED
  BY <1>0, <1>8, <1>9, <1>10, <1>11, <1>12, <1>13, <1>14 DEF IsOther

-----------------------------------------------------------------------------
(* The inductive invariant.                                                *)

\* A slot has what its source sent last, and a node with two sources shows both.
SlotsHold(p, sent) ==
  /\ p.ipA = p.ipB => p.ipA = NoSource
  /\ p.ipA # NoSource => Holds(p.dataA, sent[p.ipA])
  /\ p.ipB # NoSource => Holds(p.dataB, sent[p.ipB])
  /\ p.ipA # NoSource /\ p.ipB # NoSource =>
       \A c \in ArtChannel : c <= p.length => p.data[c] = Max({p.dataA[c], p.dataB[c]})

\* From its first frame alone a source has no other beside it.
AloneHolds(p, sent, alone) ==
  /\ alone.count # 0 => /\ alone.source # NoSource
                        /\ p.ipA \in {alone.source, NoSource} /\ p.ipB \in {alone.source, NoSource}
  /\ alone.count = 2 => \A c \in ArtChannel : c <= p.length => p.data[c] = sent[alone.source][c]

InputsHold ==
  \A u \in DOMAIN nodes : /\ SlotsHold(nodes[u], artHistory.sent[u])
                          /\ AloneHolds(nodes[u], artHistory.sent[u], artHistory.alone[u])

Outputs == UNION {[S -> ArtOutput] : S \in SUBSET Address}

\* What is noted of a port is what it shows.
PrevIsData(p) == \A c \in ArtChannel : c <= p.length => p.prevDMX[c] = p.data[c]

PrevNoted ==
  LevelChangesOnly =>
    \A u \in DOMAIN nodes : nodes[u].addr = u /\ u \notin artDirty => PrevIsData(nodes[u])

Shows(r, c) == OutputOf(artOutput, r.to).dmx[c]

\* An output has what was noted last of its input, or what the input shows unless it is dirty.
OutputsHold ==
  artServer =>
    \A r \in ArtRoutes : Sole(r) /\ Follows(r) =>
      /\ LevelChangesOnly =>
           \A c \in ArtChannel : <<r, c>> \in artHistory.lost \/ Shows(r, c) = nodes[r.from].prevDMX[c]
      /\ ~LevelChangesOnly /\ r.from \notin artDirty =>
           \A c \in Covered(r, nodes[r.from]) :
             <<r, c>> \in artHistory.lost \/ Shows(r, c) = nodes[r.from].data[c]

ArtTypes ==
  /\ DOMAIN nodes \subseteq Address /\ nodes \in [DOMAIN nodes -> Port]
  /\ inputIPs \in [DOMAIN nodes -> Sources]
  /\ artDirty \subseteq DOMAIN nodes
  /\ artServer \in BOOLEAN
  /\ artOutput \in Outputs /\ DOMAIN artWire \subseteq DOMAIN artOutput
  /\ artMute \in [incoming: BOOLEAN, outgoing: SUBSET ArtRoutes]
  /\ artPhase \in {"read", "route", "flush"}
  /\ artHistory \in ArtHistory

ArtInv ==
  /\ ArtTypes
  /\ InputsHold
  /\ artPhase = "flush" => artDirty = {}
  /\ PrevNoted /\ OutputsHold
  /\ UnsentIsDirty

-----------------------------------------------------------------------------
(* What a node shows.                                                      *)

LEMMA SlotsKept ==
  ASSUME NEW old \in Port, NEW s \in ArtSource, NEW frame \in Frame, NEW w, Outcome(old, s, frame, w),
         NEW sent \in [ArtSource -> Seq(ArtLevel)], SlotsHold(old, sent)
  PROVE  SlotsHold(w, [sent EXCEPT ![s] = frame])
<1> DEFINE now == [sent EXCEPT ![s] = frame]
<1>0. s # NoSource /\ old.ipA \in Sources /\ old.ipB \in Sources BY Sizes DEF Port, Sources
<1>1. now[s] = frame /\ \A x \in ArtSource : x # s => now[x] = sent[x] OBVIOUS
<1> HIDE DEF now
<1>2. CASE Dropped(old, s, w)
  <2>1. w.ipA # NoSource => w.ipA = old.ipA /\ w.ipA \in ArtSource /\ now[w.ipA] = sent[w.ipA]
    BY <1>0, <1>1, <1>2 DEF Dropped, Sources
  <2>2. w.ipB # NoSource => w.ipB = old.ipB /\ w.ipB \in ArtSource /\ now[w.ipB] = sent[w.ipB]
    BY <1>0, <1>1, <1>2 DEF Dropped, Sources
  <2>3. w.dataA = old.dataA /\ w.dataB = old.dataB /\ w.data = old.data /\ w.length = old.length
    BY <1>2 DEF Dropped
  <2>4. w.ipA = w.ipB => w.ipA = NoSource BY <2>1, <2>2 DEF SlotsHold
  <2>5. w.ipA # NoSource => Holds(w.dataA, now[w.ipA]) BY <2>1, <2>3 DEF SlotsHold
  <2>6. w.ipB # NoSource => Holds(w.dataB, now[w.ipB]) BY <2>2, <2>3 DEF SlotsHold
  <2>7. w.ipA # NoSource /\ w.ipB # NoSource =>
          \A c \in ArtChannel : c <= w.length => w.data[c] = Max({w.dataA[c], w.dataB[c]})
    BY <2>1, <2>2, <2>3 DEF SlotsHold
  <2> QED BY <2>4, <2>5, <2>6, <2>7 DEF SlotsHold, now
<1>3. CASE InA(old, s, frame, w)
  <2>1. Holds(w.dataA, frame) /\ w.dataB = old.dataB /\ w.ipA \in {s, NoSource} BY <1>3 DEF InA
  <2>2. w.ipB # NoSource => w.ipB = old.ipB /\ w.ipB # s /\ MergedOf(w, frame)
    BY <1>3 DEF InA, IsOther
  <2>3. w.ipB # NoSource => w.ipB \in ArtSource /\ now[w.ipB] = sent[w.ipB]
    BY <1>0, <1>1, <2>2 DEF Sources
  <2>4. w.ipA = w.ipB => w.ipA = NoSource BY <2>1, <2>2
  <2>5. w.ipA # NoSource => Holds(w.dataA, now[w.ipA]) BY <1>1, <2>1
  <2>6. w.ipB # NoSource => Holds(w.dataB, now[w.ipB]) BY <2>1, <2>2, <2>3 DEF SlotsHold
  <2>7. w.ipA # NoSource /\ w.ipB # NoSource =>
          \A c \in ArtChannel : c <= w.length => w.data[c] = Max({w.dataA[c], w.dataB[c]})
    BY <2>2 DEF MergedOf
  <2> QED BY <2>4, <2>5, <2>6, <2>7 DEF SlotsHold, now
<1>4. CASE InB(old, s, frame, w)
  <2>1. Holds(w.dataB, frame) /\ w.dataA = old.dataA /\ w.ipB \in {s, NoSource} BY <1>4 DEF InB
  <2>2. w.ipA # NoSource => w.ipA = old.ipA /\ w.ipA # s /\ MergedOf(w, frame)
    BY <1>4 DEF InB, IsOther
  <2>3. w.ipA # NoSource => w.ipA \in ArtSource /\ now[w.ipA] = sent[w.ipA]
    BY <1>0, <1>1, <2>2 DEF Sources
  <2>4. w.ipA = w.ipB => w.ipA = NoSource BY <2>1, <2>2
  <2>5. w.ipB # NoSource => Holds(w.dataB, now[w.ipB]) BY <1>1, <2>1
  <2>6. w.ipA # NoSource => Holds(w.dataA, now[w.ipA]) BY <2>1, <2>2, <2>3 DEF SlotsHold
  <2>7. w.ipA # NoSource /\ w.ipB # NoSource =>
          \A c \in ArtChannel : c <= w.length => w.data[c] = Max({w.dataA[c], w.dataB[c]})
    BY <2>2 DEF MergedOf
  <2> QED BY <2>4, <2>5, <2>6, <2>7 DEF SlotsHold, now
<1> QED BY <1>2, <1>3, <1>4 DEF Outcome

Alone == [source: Sources, count: 0..2]

\* What Handle notes of who is alone.
Noticed(old, s, alone) ==
  IF ~IsAlone(old, s) THEN 0
  ELSE IF alone.source = s /\ alone.count > 0 THEN 2 ELSE 1

LEMMA AloneKept ==
  ASSUME NEW old \in Port, NEW s \in ArtSource, NEW frame \in Frame, NEW w, Outcome(old, s, frame, w),
         NEW sent \in [ArtSource -> Seq(ArtLevel)], NEW alone \in Alone, AloneHolds(old, sent, alone)
  PROVE  LET count == Noticed(old, s, alone)
         IN  /\ count \in 0..2
             /\ AloneHolds(w, [sent EXCEPT ![s] = frame], [source |-> s, count |-> count])
<1> DEFINE now == [sent EXCEPT ![s] = frame]
           count == Noticed(old, s, alone)
           after == [source |-> s, count |-> count]
<1>0. s # NoSource BY Sizes
<1>1. now[s] = frame OBVIOUS
<1>2. after.source = s /\ after.count = count OBVIOUS
<1>3. count \in 0..2 BY DEF Noticed
<1>4. ASSUME count # 0 PROVE w.ipA \in {s, NoSource} /\ w.ipB \in {s, NoSource}
  <2>1. IsAlone(old, s) BY <1>4 DEF Noticed
  <2>2. CASE Dropped(old, s, w)
    BY <2>1, <2>2 DEF IsAlone, Dropped, Outcome
  <2>3. CASE InA(old, s, frame, w)
    BY <2>1, <2>3 DEF IsAlone, InA, Outcome
  <2>4. CASE InB(old, s, frame, w)
    BY <2>1, <2>4 DEF IsAlone, InB, Outcome
  <2> QED BY <2>2, <2>3, <2>4 DEF Outcome
<1>5. ASSUME count = 2 PROVE \A c \in ArtChannel : c <= w.length => w.data[c] = frame[c]
  <2>1. alone.source = s /\ alone.count # 0 BY <1>5 DEF Noticed
  <2>2. old.ipA \in {s, NoSource} /\ old.ipB \in {s, NoSource} BY <2>1 DEF AloneHolds
  <2> QED BY <2>2 DEF Outcome, ShownAlone, ShownOf
<1> HIDE DEF now, after, count
<1>6. AloneHolds(w, now, after) BY <1>0, <1>1, <1>2, <1>4, <1>5 DEF AloneHolds
<1> QED BY <1>3, <1>6 DEF now, after, count

-----------------------------------------------------------------------------
(* The routing of a queue.                                                 *)

\* A set in a sequence: every element is there.
LEMMA InSomeOrder ==
  ASSUME NEW S, IsFiniteSet(S), NEW f \in [1..Cardinality(S) -> S], IsInjective(f)
  PROVE  f \in Seq(S) /\ Len(f) = Cardinality(S) /\ Len(f) \in Nat /\ \A x \in S : \E k \in 1..Len(f) : f[k] = x
<1> DEFINE n == Cardinality(S)
<1>1. n \in Nat BY FS_CardinalityType
<1>2. IsFiniteSet(1..n) /\ Cardinality(1..n) = n
  <2>1. IsFiniteSet(1..n) /\ Cardinality(1..n) = IF 1 > n THEN 0 ELSE n - 1 + 1 BY <1>1, FS_Interval
  <2> QED BY <1>1, <2>1
<1>3. f \in Injection(1..n, S) BY DEF Injection
<1>4. f \in Surjection(1..n, S) BY <1>2, <1>3, FS_Injection
<1>5. \A x \in S : \E k \in 1..n : f[k] = x BY <1>4 DEF Surjection
<1>6. f \in Seq(S) /\ Len(f) = n BY <1>1
<1> QED BY <1>1, <1>5, <1>6

LEMMA SetInSequence ==
  ASSUME NEW S, IsFiniteSet(S)
  PROVE  SetToSeq(S) \in Seq(S) /\ \A x \in S : \E k \in 1..Len(SetToSeq(S)) : SetToSeq(S)[k] = x
<1>1. ExistsBijection(1..Cardinality(S), S) BY FS_CardinalityType
<1>2. \E f \in [1..Cardinality(S) -> S] : IsInjective(f)
  BY <1>1 DEF ExistsBijection, Bijection, Injection
<1> DEFINE f == SetToSeq(S)
<1>3. f \in [1..Cardinality(S) -> S] /\ IsInjective(f) BY <1>2 DEF SetToSeq
<1> HIDE DEF f
<1>4. f \in Seq(S) /\ \A x \in S : \E k \in 1..Len(f) : f[k] = x BY <1>3, InSomeOrder
<1> QED BY <1>4 DEF f

Entry == [number: Address, ip: Sources]
IsFor(r, entry) == r.from = entry.number /\ r.ip \in {NoSource, entry.ip}

LEMMA RoutesFound ==
  ASSUME NEW entry \in Entry
  PROVE  /\ RoutesOf(entry) \in Seq(ArtRoutes)
         /\ \A k \in 1..Len(RoutesOf(entry)) : IsFor(RoutesOf(entry)[k], entry)
         /\ \A r \in ArtRoutes : IsFor(r, entry) => \E k \in 1..Len(RoutesOf(entry)) : RoutesOf(entry)[k] = r
<1> DEFINE A == {r \in ArtRoutes : r.from = entry.number /\ r.ip = entry.ip /\ r.ip # NoSource}
           B == {r \in ArtRoutes : r.from = entry.number /\ r.ip = NoSource}
           a == SetToSeq(A)   b == SetToSeq(B)
<1>1. IsFiniteSet(A) /\ IsFiniteSet(B)
  <2>1. IsFiniteSet(ArtRoutes) BY ArtNetAssumption
  <2>2. A \in SUBSET ArtRoutes /\ B \in SUBSET ArtRoutes OBVIOUS
  <2> HIDE DEF A, B
  <2> QED BY <2>1, <2>2, FS_Subset
<1>2. a \in Seq(A) /\ \A x \in A : \E k \in 1..Len(a) : a[k] = x
  <2> HIDE DEF A
  <2> QED BY <1>1, SetInSequence
<1>3. b \in Seq(B) /\ \A x \in B : \E k \in 1..Len(b) : b[k] = x
  <2> HIDE DEF B
  <2> QED BY <1>1, SetInSequence
<1>4. RoutesOf(entry) = a \o b BY DEF RoutesOf
<1>5. \A x \in A \cup B : x \in ArtRoutes /\ IsFor(x, entry) BY DEF IsFor
<1>6. \A x \in ArtRoutes : IsFor(x, entry) => x \in A \cup B BY DEF IsFor
<1> HIDE DEF A, B, a, b
<1>7. \A k \in 1..Len(a) : a[k] \in A BY <1>2
<1>8. \A k \in 1..Len(b) : b[k] \in B BY <1>3
<1>9. Len(a) \in Nat /\ Len(b) \in Nat /\ Len(a \o b) = Len(a) + Len(b) BY <1>2, <1>3
<1>10. \A k \in 1..Len(a) : (a \o b)[k] = a[k] /\ k \in 1..Len(a \o b) BY <1>2, <1>3, <1>9
<1>11. \A k \in 1..Len(b) : (a \o b)[Len(a) + k] = b[k] /\ Len(a) + k \in 1..Len(a \o b)
  BY <1>2, <1>3, <1>9
<1>12. \A k \in 1..Len(a \o b) : (a \o b)[k] \in A \cup B
  <2> SUFFICES ASSUME NEW k \in 1..Len(a \o b) PROVE (a \o b)[k] \in A \cup B OBVIOUS
  <2>1. CASE k <= Len(a)
    <3>1. k \in 1..Len(a) BY <2>1, <1>9
    <3> QED BY <3>1, <1>7, <1>10
  <2>2. CASE k > Len(a)
    <3>1. k - Len(a) \in 1..Len(b) /\ Len(a) + (k - Len(a)) = k BY <2>2, <1>9
    <3> QED BY <3>1, <1>8, <1>11
  <2> QED BY <2>1, <2>2, <1>9
<1>13. a \o b \in Seq(ArtRoutes)
  <2>1. a \in Seq(ArtRoutes)
    <3>1. A \subseteq ArtRoutes BY <1>5
    <3> QED BY <3>1, <1>2
  <2>2. b \in Seq(ArtRoutes)
    <3>1. B \subseteq ArtRoutes BY <1>5
    <3> QED BY <3>1, <1>3
  <2> QED BY <2>1, <2>2
<1>14. \A x \in A \cup B : \E k \in 1..Len(a \o b) : (a \o b)[k] = x
  <2> SUFFICES ASSUME NEW x \in A \cup B PROVE \E k \in 1..Len(a \o b) : (a \o b)[k] = x OBVIOUS
  <2>1. CASE x \in A
    <3>1. PICK k \in 1..Len(a) : a[k] = x BY <2>1, <1>2
    <3> QED BY <3>1, <1>10
  <2>2. CASE x \in B
    <3>1. PICK k \in 1..Len(b) : b[k] = x BY <2>2, <1>3
    <3> QED BY <3>1, <1>11
  <2> QED BY <2>1, <2>2
<1> QED BY <1>4, <1>5, <1>6, <1>12, <1>13, <1>14

\* Outputs in which what has not been sent is dirty.
SoundOutputs ==
  {o \in Outputs :
     /\ DOMAIN artWire \subseteq DOMAIN o
     /\ \A n \in DOMAIN o : o[n].dirty \/ (n \in DOMAIN artWire /\ artWire[n] = o[n].dmx)}

LEMMA OutputMembers ==
  \A o : o \in Outputs <=> /\ DOMAIN o \subseteq Address
                           /\ o \in [DOMAIN o -> ArtOutput]
<1> SUFFICES ASSUME NEW o
             PROVE  o \in Outputs <=> DOMAIN o \subseteq Address /\ o \in [DOMAIN o -> ArtOutput]
  OBVIOUS
<1>1. ASSUME o \in Outputs PROVE DOMAIN o \subseteq Address /\ o \in [DOMAIN o -> ArtOutput]
  <2>1. PICK S \in SUBSET Address : o \in [S -> ArtOutput] BY <1>1 DEF Outputs
  <2> QED BY <2>1
<1>2. ASSUME DOMAIN o \subseteq Address, o \in [DOMAIN o -> ArtOutput] PROVE o \in Outputs
  BY <1>2 DEF Outputs
<1> QED BY <1>1, <1>2

LEMMA OutputThere ==
  ASSUME NEW o \in Outputs, NEW to
  PROVE  OutputOf(o, to) \in ArtOutput /\ OutputOf(o, to).dmx \in Levels
<1>1. o \in [DOMAIN o -> ArtOutput] BY OutputMembers
<1>2. NoArtOutput \in ArtOutput BY Sizes DEF NoArtOutput, ArtOutput, Blank
<1>3. OutputOf(o, to) \in ArtOutput BY <1>1, <1>2 DEF OutputOf
<1> QED BY <1>3 DEF ArtOutput, Levels

\* Levels are put in one output, which is dirty if they are new.
LEMMA UpdatedSound ==
  ASSUME NEW o \in SoundOutputs, NEW to \in Nat, NEW dmx \in Levels
  PROVE  /\ Updated(o, to, dmx) \in SoundOutputs
         /\ OutputOf(Updated(o, to, dmx), to).dmx = dmx
         /\ \A n : Cut(n) # Cut(to) => OutputOf(Updated(o, to, dmx), n) = OutputOf(o, n)
<1> DEFINE w == Updated(o, to, dmx)
           old == OutputOf(o, to)
           new == [old EXCEPT !.dmx = dmx, !.dirty = @ \/ dmx # old.dmx]
           D == DOMAIN o \cup {Cut(to)}
<1>1. Cut(to) \in Address BY CutAddress
<1>2. o \in Outputs /\ DOMAIN o \subseteq Address /\ o \in [DOMAIN o -> ArtOutput]
  BY OutputMembers DEF SoundOutputs
<1>3. old \in ArtOutput BY <1>2, OutputThere
<1>4. new \in ArtOutput /\ new.dmx = dmx /\ new.dirty = (old.dirty \/ dmx # old.dmx)
  BY <1>3 DEF ArtOutput, Levels
<1>5. w = [n \in D |-> IF n = Cut(to) THEN new ELSE o[n]] BY DEF Updated
<1> HIDE DEF new, w, old
<1>6. DOMAIN w = D /\ w[Cut(to)] = new /\ \A n \in DOMAIN o : n # Cut(to) => w[n] = o[n] BY <1>5
<1>7. w \in [D -> ArtOutput] BY <1>2, <1>4, <1>5
<1>8. w \in Outputs BY <1>1, <1>2, <1>6, <1>7, OutputMembers
<1>9. ASSUME NEW n \in D PROVE w[n].dirty \/ (n \in DOMAIN artWire /\ artWire[n] = w[n].dmx)
  <2>1. CASE n # Cut(to) BY <1>6, <1>9, <2>1 DEF SoundOutputs
  <2>2. CASE n = Cut(to) /\ n \in DOMAIN o
    <3>1. old = o[n] BY <2>2 DEF old, OutputOf
    <3>2. old.dirty \/ (n \in DOMAIN artWire /\ artWire[n] = old.dmx) BY <2>2, <3>1 DEF SoundOutputs
    <3> QED BY <1>4, <1>6, <2>2, <3>2
  <2>3. CASE n = Cut(to) /\ n \notin DOMAIN o
    <3>1. old.dirty = TRUE BY <2>3 DEF old, OutputOf, NoArtOutput
    <3> QED BY <1>4, <1>6, <2>3, <3>1
  <2> QED BY <2>1, <2>2, <2>3
<1>10. DOMAIN artWire \subseteq DOMAIN w BY <1>6 DEF SoundOutputs
<1>11. w \in SoundOutputs BY <1>6, <1>8, <1>9, <1>10 DEF SoundOutputs
<1>12. OutputOf(w, to).dmx = dmx BY <1>4, <1>6 DEF OutputOf
<1>13. \A n : Cut(n) # Cut(to) => OutputOf(w, n) = OutputOf(o, n) BY <1>6 DEF OutputOf
<1> QED BY <1>11, <1>12, <1>13 DEF w

Ports == UNION {[S -> Port] : S \in SUBSET Address}

LEMMA PortMembers == \A p : p \in Ports <=> DOMAIN p \subseteq Address /\ p \in [DOMAIN p -> Port]
<1> SUFFICES ASSUME NEW p PROVE p \in Ports <=> DOMAIN p \subseteq Address /\ p \in [DOMAIN p -> Port]
  OBVIOUS
<1>1. ASSUME p \in Ports PROVE DOMAIN p \subseteq Address /\ p \in [DOMAIN p -> Port]
  <2>1. PICK S \in SUBSET Address : p \in [S -> Port] BY <1>1 DEF Ports
  <2> QED BY <2>1
<1>2. ASSUME DOMAIN p \subseteq Address, p \in [DOMAIN p -> Port] PROVE p \in Ports BY <1>2 DEF Ports
<1> QED BY <1>1, <1>2

\* A route that is alone on its output, with an input.
Single(r, ports) == r \in ArtRoutes /\ Sole(r) /\ r.offset < ArtSize /\ r.from \in DOMAIN ports

Cell(outs, r, c) == OutputOf(outs, r.to).dmx[c]
Source(r, c, ports) == ports[r.from].data[c]

\* One route puts what its input shows in the channels it covers, and leaves the others.
LEMMA UniverseSound ==
  ASSUME NEW o \in SoundOutputs, NEW r \in ArtRoutes, NEW ports \in Ports
  PROVE  /\ WithUniverse(o, r, ports) \in SoundOutputs
         /\ \A n : Cut(n) # Cut(r.to) => OutputOf(WithUniverse(o, r, ports), n) = OutputOf(o, n)
         /\ Single(r, ports) =>
              \A c \in ArtChannel :
                Cell(WithUniverse(o, r, ports), r, c) =
                  IF c \in Covered(r, ports[r.from]) THEN Source(r, c, ports) ELSE Cell(o, r, c)
<1>1. r.to \in Nat BY ArtNetAssumption DEF ArtRoute
<1>2. o \in Outputs BY DEF SoundOutputs
<1>3. ports \in [DOMAIN ports -> Port] BY PortMembers
<1> DEFINE dmx == [c \in ArtChannel |->
             IF r.from \in DOMAIN ports /\ c \in Covered(r, ports[r.from]) THEN ports[r.from].data[c]
             ELSE OutputOf(o, r.to).dmx[c]]
<1>4. dmx \in Levels
  <2>1. OutputOf(o, r.to).dmx \in Levels BY <1>2, OutputThere
  <2>2. r.from \in DOMAIN ports => ports[r.from].data \in Levels BY <1>3 DEF Port, Levels
  <2> QED BY <2>1, <2>2 DEF Levels
<1>5. \A c \in ArtChannel : r.from \in DOMAIN ports =>
        dmx[c] = IF c \in Covered(r, ports[r.from]) THEN Source(r, c, ports) ELSE Cell(o, r, c)
  BY DEF Source, Cell
<1>6. CASE r.offset >= ArtSize
  <2>1. WithUniverse(o, r, ports) = o BY <1>6 DEF WithUniverse
  <2>2. ~Single(r, ports)
    <3>1. r.offset \in Nat BY ArtNetAssumption DEF ArtRoute
    <3> QED BY <1>6, <3>1, Sizes DEF Single
  <2> QED BY <2>1, <2>2
<1>7. CASE ~(r.offset >= ArtSize)
  <2>1. WithUniverse(o, r, ports) = Updated(o, r.to, dmx) BY <1>7 DEF WithUniverse
  <2> HIDE DEF dmx
  <2>2. /\ Updated(o, r.to, dmx) \in SoundOutputs
        /\ OutputOf(Updated(o, r.to, dmx), r.to).dmx = dmx
        /\ \A n : Cut(n) # Cut(r.to) => OutputOf(Updated(o, r.to, dmx), n) = OutputOf(o, n)
    BY <1>1, <1>4, UpdatedSound
  <2>3. Single(r, ports) => r.from \in DOMAIN ports BY DEF Single
  <2>4. \A c : Cell(WithUniverse(o, r, ports), r, c) = dmx[c] BY <2>1, <2>2 DEF Cell
  <2> QED BY <1>5, <2>1, <2>2, <2>3, <2>4
<1> QED BY <1>6, <1>7

\* What is routed on reaches the cell of route r only by r.
LEMMA RoutedOnSound ==
  ASSUME NEW o \in SoundOutputs, NEW ports \in Ports, NEW r, Single(r, ports), NEW s \in ArtRoutes,
         NEW c \in ArtChannel
  PROVE  /\ RoutedOn(o, s, ports) \in SoundOutputs
         /\ Cell(RoutedOn(o, s, ports), r, c) =
              IF s = r /\ r \notin artMute.outgoing /\ c \in Covered(r, ports[r.from])
              THEN Source(r, c, ports) ELSE Cell(o, r, c)
<1>1. CASE s \in artMute.outgoing BY <1>1 DEF RoutedOn
<1>2. CASE s \notin artMute.outgoing
  <2>1. RoutedOn(o, s, ports) = WithUniverse(o, s, ports) BY <1>2 DEF RoutedOn
  <2>2. WithUniverse(o, s, ports) \in SoundOutputs BY UniverseSound
  <2>3. CASE s = r
    <3>1. Cell(WithUniverse(o, r, ports), r, c) =
            IF c \in Covered(r, ports[r.from]) THEN Source(r, c, ports) ELSE Cell(o, r, c)
      BY <2>3, UniverseSound
    <3> QED BY <1>2, <2>1, <2>2, <2>3, <3>1
  <2>4. CASE s # r
    <3>1. Cut(s.to) # Cut(r.to) BY <2>4 DEF Single, Sole
    <3>2. OutputOf(WithUniverse(o, s, ports), r.to) = OutputOf(o, r.to) BY <3>1, UniverseSound
    <3>3. Cell(WithUniverse(o, s, ports), r, c) = Cell(o, r, c) BY <3>2 DEF Cell
    <3> QED BY <2>1, <2>2, <2>4, <3>3
  <2> QED BY <2>3, <2>4
<1> QED BY <1>1, <1>2

\* The folds, step by step.
LEMMA RoutedSteps ==
  ASSUME NEW o \in SoundOutputs, NEW entry \in Entry, NEW ports \in Ports
  PROVE  LET routes == RoutesOf(entry)
         IN  \E g : /\ g \in [0..Len(routes) -> SoundOutputs] /\ g[0] = o
                    /\ \A n \in 1..Len(routes) : g[n] = RoutedOn(g[n - 1], routes[n], ports)
                    /\ Routed(o, entry, ports) = g[Len(routes)]
<1> DEFINE routes == RoutesOf(entry)
           N == Len(routes)
           Goes(g) == g = [n \in 0..N |-> IF n = 0 THEN o ELSE RoutedOn(g[n - 1], routes[n], ports)]
           step == [n \in 1..N |-> [w \in SoundOutputs |-> RoutedOn(w, routes[n], ports)]]
           acc == CHOOSE g : Goes(g)
<1>1. N \in Nat /\ \A n \in 1..N : routes[n] \in ArtRoutes BY RoutesFound
<1>2. step \in Steps(N, SoundOutputs)
  <2>1. \A w \in SoundOutputs, s \in ArtRoutes : RoutedOn(w, s, ports) \in SoundOutputs
    BY UniverseSound DEF RoutedOn
  <2> QED BY <1>1, <2>1 DEF Steps
<1>3. PICK g : Runs(g, N, SoundOutputs, o, step)
  <2> HIDE DEF step, N
  <2> QED BY <1>1, <1>2, IterationExists
<1>4. Goes(g)
  <2>1. \A n \in 0..N : n # 0 => n \in 1..N /\ n - 1 \in 0..N BY <1>1
  <2>2. \A n \in 1..N : g[n - 1] \in SoundOutputs BY <1>1, <1>3 DEF Runs
  <2>3. \A n \in 1..N : step[n][g[n - 1]] = RoutedOn(g[n - 1], routes[n], ports) BY <2>2
  <2> HIDE DEF step, N
  <2>4. \A n \in 0..N : g[n] = IF n = 0 THEN o ELSE RoutedOn(g[n - 1], routes[n], ports)
    BY <1>3, <2>1, <2>3 DEF Runs
  <2>5. g = [n \in 0..N |-> g[n]] BY <1>3 DEF Runs
  <2> QED BY <2>4, <2>5
<1>5. Goes(acc)
  <2> HIDE DEF Goes
  <2> QED BY <1>4
<1>6. Routed(o, entry, ports) = acc[N] BY DEF Routed
<1> HIDE DEF acc
<1>7. acc[0] = o /\ \A n \in 1..N : acc[n] = RoutedOn(acc[n - 1], routes[n], ports) BY <1>1, <1>5
<1>8. \A n \in 0..N : acc[n] \in SoundOutputs
  <2>1. \A n \in 1..N : acc[n - 1] \in SoundOutputs => acc[n] \in SoundOutputs
    BY <1>1, <1>7, UniverseSound DEF RoutedOn
  <2> HIDE DEF N
  <2> QED BY <1>1, <1>7, <2>1, IterationStays
<1>9. acc \in [0..N -> SoundOutputs]
  <2>1. acc = [n \in 0..N |-> acc[n]] BY <1>5
  <2> QED BY <1>8, <2>1
<1> QED BY <1>6, <1>7, <1>9

\* An entry changes the cell of a route that it is for, and no other.
LEMMA RoutedSound ==
  ASSUME NEW o \in SoundOutputs, NEW entry \in Entry, NEW ports \in Ports
  PROVE  /\ Routed(o, entry, ports) \in SoundOutputs
         /\ \A r : \A c \in ArtChannel : Single(r, ports) =>
              Cell(Routed(o, entry, ports), r, c) =
                IF IsFor(r, entry) /\ r \notin artMute.outgoing /\ c \in Covered(r, ports[r.from])
                THEN Source(r, c, ports) ELSE Cell(o, r, c)
<1> DEFINE routes == RoutesOf(entry)
           N == Len(routes)
<1>1. N \in Nat /\ \A n \in 1..N : routes[n] \in ArtRoutes BY RoutesFound
<1>2. PICK g : /\ g \in [0..N -> SoundOutputs] /\ g[0] = o
               /\ \A n \in 1..N : g[n] = RoutedOn(g[n - 1], routes[n], ports)
               /\ Routed(o, entry, ports) = g[N]
  BY RoutedSteps
<1>3. N \in 0..N BY <1>1
<1>4. ASSUME NEW r, NEW c \in ArtChannel, Single(r, ports)
      PROVE  Cell(g[N], r, c) =
                IF IsFor(r, entry) /\ r \notin artMute.outgoing /\ c \in Covered(r, ports[r.from])
                THEN Source(r, c, ports) ELSE Cell(o, r, c)
  <2> DEFINE Put == r \notin artMute.outgoing /\ c \in Covered(r, ports[r.from])
             Met(n) == \E k \in 1..n : routes[k] = r
             T == {n \in 0..N : Cell(g[n], r, c) =
                                  IF Met(n) /\ Put THEN Source(r, c, ports) ELSE Cell(o, r, c)}
  <2>1. 0 \in T BY <1>1, <1>2
  <2>2. ASSUME NEW n \in 0..N, n # N, n \in T PROVE n + 1 \in T
    <3>1. n + 1 \in 1..N /\ n + 1 \in 0..N /\ (n + 1) - 1 = n BY <1>1, <2>2
    <3>2. g[n] \in SoundOutputs /\ routes[n + 1] \in ArtRoutes BY <1>1, <1>2, <3>1
    <3>3. g[n + 1] = RoutedOn(g[n], routes[n + 1], ports) BY <1>2, <3>1
    <3>4. Cell(g[n + 1], r, c) = IF routes[n + 1] = r /\ Put
                                 THEN Source(r, c, ports) ELSE Cell(g[n], r, c)
      BY <1>4, <3>2, <3>3, RoutedOnSound
    <3>5. Met(n + 1) <=> Met(n) \/ routes[n + 1] = r
      <4>1. \A k : k \in 1..n + 1 <=> k \in 1..n \/ k = n + 1 BY <2>2
      <4> QED BY <4>1
    <3>6. Cell(g[n], r, c) = IF Met(n) /\ Put THEN Source(r, c, ports) ELSE Cell(o, r, c) BY <2>2
    <3> HIDE DEF Met, Put
    <3> QED BY <3>1, <3>4, <3>5, <3>6
  <2>3. N \in T
    <3>1. 0..N \subseteq T
      <4> HIDE DEF T, N
      <4> QED BY <1>1, <2>1, <2>2, InductionUpTo
    <3> QED BY <1>3, <3>1
  <2>4. Met(N) <=> IsFor(r, entry)
    <3>1. r \in ArtRoutes BY <1>4 DEF Single
    <3> QED BY <3>1, RoutesFound
  <2> QED BY <2>3, <2>4
<1>5. g[N] \in SoundOutputs BY <1>2, <1>3
<1> QED BY <1>2, <1>4, <1>5

LEMMA QueueSteps ==
  ASSUME NEW o \in SoundOutputs, NEW q \in Seq(Entry), NEW ports \in Ports
  PROVE  \E g : /\ g \in [0..Len(q) -> SoundOutputs] /\ g[0] = o
                /\ \A n \in 1..Len(q) : g[n] = Routed(g[n - 1], q[n], ports)
                /\ QueueRouted(o, q, ports) = g[Len(q)]
<1> DEFINE N == Len(q)
           Goes(g) == g = [n \in 0..N |-> IF n = 0 THEN o ELSE Routed(g[n - 1], q[n], ports)]
           step == [n \in 1..N |-> [w \in SoundOutputs |-> Routed(w, q[n], ports)]]
           acc == CHOOSE g : Goes(g)
<1>1. N \in Nat /\ \A n \in 1..N : q[n] \in Entry OBVIOUS
<1>0. \A w \in SoundOutputs, e \in Entry : Routed(w, e, ports) \in SoundOutputs BY RoutedSound
<1>2. step \in Steps(N, SoundOutputs) BY <1>0, <1>1 DEF Steps
<1>3. PICK g : Runs(g, N, SoundOutputs, o, step)
  <2> HIDE DEF step, N
  <2> QED BY <1>1, <1>2, IterationExists
<1>4. Goes(g)
  <2>1. \A n \in 0..N : n # 0 => n \in 1..N /\ n - 1 \in 0..N BY <1>1
  <2>2. \A n \in 1..N : g[n - 1] \in SoundOutputs BY <1>1, <1>3 DEF Runs
  <2>3. \A n \in 1..N : step[n][g[n - 1]] = Routed(g[n - 1], q[n], ports) BY <2>2
  <2> HIDE DEF step, N
  <2>4. \A n \in 0..N : g[n] = IF n = 0 THEN o ELSE Routed(g[n - 1], q[n], ports)
    BY <1>3, <2>1, <2>3 DEF Runs
  <2>5. g = [n \in 0..N |-> g[n]] BY <1>3 DEF Runs
  <2> QED BY <2>4, <2>5
<1>5. Goes(acc)
  <2> HIDE DEF Goes
  <2> QED BY <1>4
<1>6. QueueRouted(o, q, ports) = acc[N] BY DEF QueueRouted
<1> HIDE DEF acc
<1>7. acc[0] = o /\ \A n \in 1..N : acc[n] = Routed(acc[n - 1], q[n], ports) BY <1>1, <1>5
<1>8. \A n \in 0..N : acc[n] \in SoundOutputs
  <2>1. \A n \in 1..N : acc[n - 1] \in SoundOutputs => acc[n] \in SoundOutputs BY <1>0, <1>1, <1>7
  <2> HIDE DEF N
  <2> QED BY <1>1, <1>7, <2>1, IterationStays
<1>9. acc \in [0..N -> SoundOutputs]
  <2>1. acc = [n \in 0..N |-> acc[n]] BY <1>5
  <2> QED BY <1>8, <2>1
<1> QED BY <1>6, <1>7, <1>9

\* What an entry makes routes lose.
Lost == SUBSET (ArtRoutes \X ArtChannel)

LEMMA LossesOf ==
  ASSUME NEW lost \in Lost, NEW entry \in Entry, NEW ports \in Ports
  PROVE  /\ Losses(lost, entry, ports) \in Lost
         /\ \A r : \A c \in ArtChannel : Single(r, ports) =>
              (<<r, c>> \in Losses(lost, entry, ports) <=>
                 IF r.from = entry.number /\ c \in Covered(r, ports[r.from]) THEN ~Taken(entry, r)
                 ELSE <<r, c>> \in lost)
<1>1. CASE entry.number \notin DOMAIN ports
  <2>1. Losses(lost, entry, ports) = lost BY <1>1 DEF Losses
  <2>2. \A r : Single(r, ports) => r.from # entry.number BY <1>1 DEF Single
  <2> QED BY <2>1, <2>2
<1>2. CASE entry.number \in DOMAIN ports
  <2> DEFINE cells(take) == UNION {{<<r, c>> : c \in Covered(r, ports[entry.number])} :
                                   r \in {r \in ArtRoutes : r.from = entry.number
                                                            /\ Taken(entry, r) = take}}
  <2>1. Losses(lost, entry, ports) = (lost \cup cells(FALSE)) \ cells(TRUE) BY <1>2 DEF Losses
  <2>2. \A r, c : \A take \in BOOLEAN :
          <<r, c>> \in cells(take) <=> /\ r \in ArtRoutes /\ r.from = entry.number
                                       /\ Taken(entry, r) = take /\ c \in Covered(r, ports[entry.number])
    OBVIOUS
  <2>3. \A take \in BOOLEAN : cells(take) \in Lost
    <3>1. \A r : Covered(r, ports[entry.number]) \subseteq ArtChannel BY DEF Covered
    <3> QED BY <3>1 DEF Lost
  <2> HIDE DEF cells
  <2>4. Losses(lost, entry, ports) \in Lost BY <2>1, <2>3 DEF Lost
  <2>5. \A r : Taken(entry, r) \in BOOLEAN BY DEF Taken
  <2>6. ASSUME NEW r, NEW c \in ArtChannel, Single(r, ports)
        PROVE <<r, c>> \in Losses(lost, entry, ports) <=>
                 IF r.from = entry.number /\ c \in Covered(r, ports[r.from]) THEN ~Taken(entry, r)
                 ELSE <<r, c>> \in lost
    <3>1. r \in ArtRoutes BY <2>6 DEF Single
    <3>2. <<r, c>> \in cells(TRUE) <=> /\ r.from = entry.number /\ Taken(entry, r)
                                       /\ c \in Covered(r, ports[entry.number])
      BY <2>2, <2>5, <3>1
    <3>3. <<r, c>> \in cells(FALSE) <=> /\ r.from = entry.number /\ ~Taken(entry, r)
                                        /\ c \in Covered(r, ports[entry.number])
      BY <2>2, <2>5, <3>1
    <3>4. CASE r.from = entry.number BY <2>1, <3>2, <3>3, <3>4
    <3>5. CASE r.from # entry.number BY <2>1, <3>2, <3>3, <3>5
    <3> QED BY <3>4, <3>5
  <2> QED BY <2>4, <2>6
<1> QED BY <1>1, <1>2

LEMMA LossesSteps ==
  ASSUME NEW lost \in Lost, NEW q \in Seq(Entry), NEW ports \in Ports
  PROVE  \E g : /\ g \in [0..Len(q) -> Lost] /\ g[0] = lost
                /\ \A n \in 1..Len(q) : g[n] = Losses(g[n - 1], q[n], ports)
                /\ QueueLosses(lost, q, ports) = g[Len(q)]
<1> DEFINE N == Len(q)
           Goes(g) == g = [n \in 0..N |-> IF n = 0 THEN lost ELSE Losses(g[n - 1], q[n], ports)]
           step == [n \in 1..N |-> [w \in Lost |-> Losses(w, q[n], ports)]]
           acc == CHOOSE g : Goes(g)
<1>1. N \in Nat /\ \A n \in 1..N : q[n] \in Entry OBVIOUS
<1>0. \A w \in Lost, e \in Entry : Losses(w, e, ports) \in Lost BY LossesOf
<1>2. step \in Steps(N, Lost) BY <1>0, <1>1 DEF Steps
<1>3. PICK g : Runs(g, N, Lost, lost, step)
  <2> HIDE DEF step, N
  <2> QED BY <1>1, <1>2, IterationExists
<1>4. Goes(g)
  <2>1. \A n \in 0..N : n # 0 => n \in 1..N /\ n - 1 \in 0..N BY <1>1
  <2>2. \A n \in 1..N : g[n - 1] \in Lost BY <1>1, <1>3 DEF Runs
  <2>3. \A n \in 1..N : step[n][g[n - 1]] = Losses(g[n - 1], q[n], ports) BY <2>2
  <2> HIDE DEF step, N
  <2>4. \A n \in 0..N : g[n] = IF n = 0 THEN lost ELSE Losses(g[n - 1], q[n], ports)
    BY <1>3, <2>1, <2>3 DEF Runs
  <2>5. g = [n \in 0..N |-> g[n]] BY <1>3 DEF Runs
  <2> QED BY <2>4, <2>5
<1>5. Goes(acc)
  <2> HIDE DEF Goes
  <2> QED BY <1>4
<1>6. QueueLosses(lost, q, ports) = acc[N] BY DEF QueueLosses
<1> HIDE DEF acc
<1>7. acc[0] = lost /\ \A n \in 1..N : acc[n] = Losses(acc[n - 1], q[n], ports) BY <1>1, <1>5
<1>8. \A n \in 0..N : acc[n] \in Lost
  <2>1. \A n \in 1..N : acc[n - 1] \in Lost => acc[n] \in Lost BY <1>0, <1>1, <1>7
  <2> HIDE DEF N
  <2> QED BY <1>1, <1>7, <2>1, IterationStays
<1>9. acc \in [0..N -> Lost]
  <2>1. acc = [n \in 0..N |-> acc[n]] BY <1>5
  <2> QED BY <1>8, <2>1
<1> QED BY <1>6, <1>7, <1>9

\* After the routing of a queue the cell of a route for a universe that was queued is lost or
\* has what the input shows; the others are as they were.
Numbers(q) == {q[k].number : k \in 1..Len(q)}
RoutedQueue(o, q, ports) == IF artMute.incoming THEN o ELSE QueueRouted(o, q, ports)

LEMMA QueueCaught ==
  ASSUME NEW o \in SoundOutputs, NEW lost \in Lost, NEW q \in Seq(Entry), NEW ports \in Ports
  PROVE  /\ RoutedQueue(o, q, ports) \in SoundOutputs /\ QueueLosses(lost, q, ports) \in Lost
         /\ \A r : \A c \in ArtChannel : Single(r, ports) =>
              IF r.from \in Numbers(q) /\ c \in Covered(r, ports[r.from])
              THEN \/ <<r, c>> \in QueueLosses(lost, q, ports)
                   \/ Cell(RoutedQueue(o, q, ports), r, c) = Source(r, c, ports)
              ELSE /\ <<r, c>> \in QueueLosses(lost, q, ports) <=> <<r, c>> \in lost
                   /\ Cell(RoutedQueue(o, q, ports), r, c) = Cell(o, r, c)
<1> DEFINE N == Len(q)
<1>1. N \in Nat /\ \A n \in 1..N : q[n] \in Entry OBVIOUS
<1>2. PICK g : /\ g \in [0..N -> SoundOutputs] /\ g[0] = o
               /\ \A n \in 1..N : g[n] = Routed(g[n - 1], q[n], ports)
               /\ QueueRouted(o, q, ports) = g[N]
  BY QueueSteps
<1>3. PICK h : /\ h \in [0..N -> Lost] /\ h[0] = lost
               /\ \A n \in 1..N : h[n] = Losses(h[n - 1], q[n], ports)
               /\ QueueLosses(lost, q, ports) = h[N]
  BY LossesSteps
<1>4. N \in 0..N BY <1>1
<1> DEFINE w(n) == IF artMute.incoming THEN o ELSE g[n]
<1>5. RoutedQueue(o, q, ports) = w(N) BY <1>2 DEF RoutedQueue
<1>6. w(N) \in SoundOutputs /\ h[N] \in Lost BY <1>2, <1>3, <1>4
<1>7. ASSUME NEW r, NEW c \in ArtChannel, Single(r, ports)
      PROVE  IF r.from \in Numbers(q) /\ c \in Covered(r, ports[r.from])
             THEN <<r, c>> \in h[N] \/ Cell(w(N), r, c) = Source(r, c, ports)
             ELSE (<<r, c>> \in h[N] <=> <<r, c>> \in lost) /\ Cell(w(N), r, c) = Cell(o, r, c)
  <2> DEFINE Cov == c \in Covered(r, ports[r.from])
             Met(n) == \E k \in 1..n : q[k].number = r.from
             Caught(n) == IF Met(n) /\ Cov
                          THEN <<r, c>> \in h[n] \/ Cell(w(n), r, c) = Source(r, c, ports)
                          ELSE (<<r, c>> \in h[n] <=> <<r, c>> \in lost) /\ Cell(w(n), r, c) = Cell(o, r, c)
             T == {n \in 0..N : Caught(n)}
  <2>1. 0 \in T BY <1>1, <1>2, <1>3
  <2>2. ASSUME NEW n \in 0..N, n # N, n \in T PROVE n + 1 \in T
    <3>1. n + 1 \in 1..N /\ n + 1 \in 0..N /\ (n + 1) - 1 = n BY <1>1, <2>2
    <3>2. g[n] \in SoundOutputs /\ h[n] \in Lost /\ q[n + 1] \in Entry BY <1>1, <1>2, <1>3, <3>1
    <3>3. g[n + 1] = Routed(g[n], q[n + 1], ports) /\ h[n + 1] = Losses(h[n], q[n + 1], ports)
      BY <1>2, <1>3, <3>1
    <3>4. Cell(g[n + 1], r, c) = IF IsFor(r, q[n + 1]) /\ r \notin artMute.outgoing /\ Cov
                                 THEN Source(r, c, ports) ELSE Cell(g[n], r, c)
      BY <1>7, <3>2, <3>3, RoutedSound
    <3>5. <<r, c>> \in h[n + 1] <=> IF r.from = q[n + 1].number /\ Cov THEN ~Taken(q[n + 1], r)
                                    ELSE <<r, c>> \in h[n]
      BY <1>7, <3>2, <3>3, LossesOf
    <3>6. Met(n + 1) <=> Met(n) \/ q[n + 1].number = r.from
      <4>1. \A k : k \in 1..n + 1 <=> k \in 1..n \/ k = n + 1 BY <2>2
      <4> QED BY <4>1
    <3>7. Caught(n) BY <2>2
    <3>8. CASE q[n + 1].number = r.from /\ Cov
      <4>1. <<r, c>> \in h[n + 1] \/ Taken(q[n + 1], r) BY <3>5, <3>8
      <4>2. Taken(q[n + 1], r) => /\ ~artMute.incoming /\ r \notin artMute.outgoing
                                  /\ IsFor(r, q[n + 1])
        BY <3>8 DEF Taken, IsFor
      <4>3. Taken(q[n + 1], r) => Cell(w(n + 1), r, c) = Source(r, c, ports) BY <3>4, <3>8, <4>2
      <4>4. Caught(n + 1) BY <3>6, <3>8, <4>1, <4>3
      <4> QED BY <3>1, <4>4
    <3>9. CASE ~(q[n + 1].number = r.from /\ Cov)
      <4>1. <<r, c>> \in h[n + 1] <=> <<r, c>> \in h[n] BY <3>5, <3>9
      <4>2. ~(IsFor(r, q[n + 1]) /\ Cov) BY <3>9 DEF IsFor
      <4>3. Cell(w(n + 1), r, c) = Cell(w(n), r, c) BY <3>4, <4>2
      <4>4. (Met(n + 1) /\ Cov) <=> (Met(n) /\ Cov) BY <3>6, <3>9
      <4> HIDE DEF Met, Cov, w
      <4>5. Caught(n + 1) BY <3>7, <4>1, <4>3, <4>4
      <4> QED BY <3>1, <4>5
    <3> QED BY <3>8, <3>9
  <2>3. N \in T
    <3>1. 0..N \subseteq T
      <4> HIDE DEF T, N
      <4> QED BY <1>1, <2>1, <2>2, InductionUpTo
    <3> QED BY <1>4, <3>1
  <2>4. Met(N) <=> r.from \in Numbers(q) BY DEF Numbers
  <2> QED BY <2>3, <2>4
<1> QED BY <1>3, <1>5, <1>6, <1>7

-----------------------------------------------------------------------------
(* The inspection of what is dirty.                                        *)

\* Of a port only what is noted of its levels is different, as far as they reach.
SameButNoted(old, new) ==
  /\ new.addr = old.addr /\ new.ipA = old.ipA /\ new.ipB = old.ipB
  /\ new.dataA = old.dataA /\ new.dataB = old.dataB
  /\ new.data = old.data /\ new.length = old.length
  /\ \A c \in ArtChannel : c > old.length => new.prevDMX[c] = old.prevDMX[c]

LEMMA NotedFields ==
  ASSUME NEW p \in Port
  PROVE  Noted(p) \in Port /\ SameButNoted(p, Noted(p)) /\ PrevIsData(Noted(p))
<1> DEFINE prev == [c \in ArtChannel |-> IF c <= p.length THEN p.data[c] ELSE p.prevDMX[c]]
<1>1. prev \in Levels BY DEF Port, Levels
<1>2. \A c \in ArtChannel : c <= p.length => prev[c] = p.data[c] OBVIOUS
<1>3. p.length \in Nat BY Sizes DEF Port
<1>4. \A c \in ArtChannel : c > p.length => prev[c] = p.prevDMX[c] BY <1>3, Sizes
<1>5. Noted(p) = [p EXCEPT !.hasPrevDMX = TRUE, !.prevDMX = prev] BY DEF Noted
<1> HIDE DEF prev
<1> QED BY <1>1, <1>2, <1>4, <1>5 DEF Port, Levels, SameButNoted, PrevIsData

\* What the inspection of the first dirty nodes of an order has made.
Looked(st, seen) ==
  /\ st.nodes \in Ports /\ DOMAIN st.nodes = DOMAIN nodes /\ st.q \in Seq(Entry)
  /\ \A u \in DOMAIN nodes : SameButNoted(nodes[u], st.nodes[u])
  /\ ~LevelChangesOnly => st.nodes = nodes /\ \A u \in seen : nodes[u].addr \in Numbers(st.q)
  /\ LevelChangesOnly => \A u \in DOMAIN nodes :
       /\ u \in Numbers(st.q) => PrevIsData(st.nodes[u])
       /\ u \notin Numbers(st.q) => st.nodes[u].prevDMX = nodes[u].prevDMX
       /\ u \in seen /\ nodes[u].addr = u => PrevIsData(st.nodes[u])

LEMMA NumbersAppend ==
  ASSUME NEW q \in Seq(Entry), NEW e \in Entry
  PROVE  Append(q, e) \in Seq(Entry) /\ Numbers(Append(q, e)) = Numbers(q) \cup {e.number}
<1> DEFINE w == Append(q, e)   n == Len(q)
<1>1. n \in Nat /\ w \in Seq(Entry) /\ Len(w) = n + 1 /\ w[n + 1] = e /\ \A k \in 1..n : w[k] = q[k]
  OBVIOUS
<1>2. \A k : k \in 1..n + 1 <=> k \in 1..n \/ k = n + 1 BY <1>1
<1> HIDE DEF w, n
<1>3. Numbers(w) = {w[k].number : k \in 1..n + 1} BY <1>1 DEF Numbers
<1>4. Numbers(q) = {q[k].number : k \in 1..n} BY DEF Numbers, n
<1>5. Numbers(w) = Numbers(q) \cup {e.number} BY <1>1, <1>2, <1>3, <1>4
<1> QED BY <1>1, <1>5 DEF w

Inspection == [nodes: Ports, q: Seq(Entry)]

LEMMA QueuedLooked ==
  ASSUME ArtTypes, NEW st \in Inspection, NEW seen \in SUBSET DOMAIN nodes, Looked(st, seen),
         NEW u \in DOMAIN nodes
  PROVE  Queued(st, u) \in Inspection /\ Looked(Queued(st, u), seen \cup {u})
<1> DEFINE number == st.nodes[u].addr
           entry  == [number |-> number, ip |-> inputIPs[u]]
           w      == Queued(st, u)
<1>1. /\ st.nodes \in Ports /\ st.q \in Seq(Entry) /\ DOMAIN st.nodes = DOMAIN nodes
      /\ st.nodes \in [DOMAIN nodes -> Port] /\ DOMAIN nodes \subseteq Address
      /\ nodes \in [DOMAIN nodes -> Port]
  BY PortMembers DEF Looked, ArtTypes
<1>2. number = nodes[u].addr /\ number \in Address
  BY <1>1 DEF Looked, SameButNoted, Port
<1>3. entry \in Entry /\ entry.number = number BY <1>2 DEF Entry, ArtTypes
<1>4. Append(st.q, entry) \in Seq(Entry) /\ Numbers(Append(st.q, entry)) = Numbers(st.q) \cup {number}
  BY <1>1, <1>3, NumbersAppend
<1> HIDE DEF entry
<1>5. CASE ~LevelChangesOnly
  <2>1. w = [st EXCEPT !.q = Append(@, entry)] BY <1>5 DEF Queued, entry
  <2>2. w \in Inspection /\ w.nodes = st.nodes /\ w.q = Append(st.q, entry)
    BY <1>4, <2>1 DEF Inspection
  <2> HIDE DEF w, number
  <2>3. \A v \in seen \cup {u} : nodes[v].addr \in Numbers(w.q)
    BY <1>2, <1>4, <1>5, <2>2 DEF Looked
  <2>4. Looked(w, seen \cup {u}) BY <1>1, <1>4, <1>5, <2>2, <2>3 DEF Looked
  <2> QED BY <2>2, <2>4 DEF w
<1>6. CASE LevelChangesOnly /\ number \in DOMAIN nodes /\ st.nodes[number].length > 0
           /\ ~SameLevels(st.nodes[number])
  <2> DEFINE p == st.nodes[number]
             now == [st.nodes EXCEPT ![number] = Noted(@)]
  <2>1. w = [nodes |-> now, q |-> Append(st.q, entry)] BY <1>1, <1>6 DEF Queued, entry
  <2>2. p \in Port BY <1>1, <1>6
  <2>3. Noted(p) \in Port /\ SameButNoted(p, Noted(p)) /\ PrevIsData(Noted(p)) BY <2>2, NotedFields
  <2>4. now \in [DOMAIN nodes -> Port] /\ now[number] = Noted(p)
        /\ \A v \in DOMAIN nodes : v # number => now[v] = st.nodes[v]
    BY <1>1, <1>6, <2>3
  <2> HIDE DEF now
  <2>5. now \in Ports
    <3>1. DOMAIN now = DOMAIN nodes BY <2>4
    <3> QED BY <1>1, <2>4, <3>1, PortMembers
  <2>6. w \in Inspection /\ w.nodes = now /\ w.q = Append(st.q, entry)
    BY <1>4, <2>1, <2>5 DEF Inspection
  <2>7. SameButNoted(nodes[number], p) BY <1>6 DEF Looked
  <2>8. SameButNoted(nodes[number], Noted(p)) BY <2>3, <2>7 DEF SameButNoted
  <2>9. \A v \in DOMAIN nodes : SameButNoted(nodes[v], now[v]) BY <2>4, <2>8 DEF Looked
  <2>10. ASSUME NEW v \in DOMAIN nodes
         PROVE  /\ v \in Numbers(w.q) => PrevIsData(now[v])
                /\ v \notin Numbers(w.q) => now[v].prevDMX = nodes[v].prevDMX
                /\ v \in seen \cup {u} /\ nodes[v].addr = v => PrevIsData(now[v])
    <3>1. CASE v = number BY <1>4, <2>3, <2>4, <2>6, <3>1
    <3>2. CASE v # number
      <4>1. now[v] = st.nodes[v] BY <2>4, <3>2
      <4>2. v \in Numbers(w.q) <=> v \in Numbers(st.q) BY <1>4, <2>6, <3>2
      <4>3. v = u => nodes[v].addr # v BY <1>2, <3>2
      <4> QED BY <1>6, <4>1, <4>2, <4>3 DEF Looked
    <3> QED BY <3>1, <3>2
  <2>11. DOMAIN now = DOMAIN nodes BY <2>4
  <2> HIDE DEF w, p, number
  <2>12. Looked(w, seen \cup {u}) BY <1>4, <1>6, <2>5, <2>6, <2>9, <2>10, <2>11 DEF Looked
  <2> QED BY <2>6, <2>12 DEF w
<1>7. CASE LevelChangesOnly /\ ~(number \in DOMAIN nodes /\ st.nodes[number].length > 0
                                 /\ ~SameLevels(st.nodes[number]))
  <2>1. w = st BY <1>1, <1>7 DEF Queued, entry
  <2>2. nodes[u].addr = u => PrevIsData(st.nodes[u])
    <3>1. SUFFICES ASSUME number = u PROVE PrevIsData(st.nodes[u]) BY <1>2
    <3>2. st.nodes[u] \in Port /\ (~(st.nodes[u].length > 0) \/ SameLevels(st.nodes[u]))
      BY <1>1, <1>7, <3>1
    <3>3. st.nodes[u].length \in Nat BY <1>1, Sizes DEF Port
    <3>4. CASE SameLevels(st.nodes[u])
      <4>1. \A c \in ArtChannel : c <= st.nodes[u].length => c \in 1..st.nodes[u].length
        BY <3>3, Sizes DEF ArtChannel
      <4> QED BY <3>4, <4>1 DEF SameLevels, PrevIsData
    <3>5. CASE ~(st.nodes[u].length > 0)
      <4>1. \A c \in ArtChannel : ~(c <= st.nodes[u].length) BY <3>3, <3>5, Sizes DEF ArtChannel
      <4> QED BY <4>1 DEF PrevIsData
    <3> QED BY <3>2, <3>4, <3>5
  <2> HIDE DEF w
  <2>3. Looked(w, seen \cup {u}) BY <1>7, <2>1, <2>2 DEF Looked
  <2> QED BY <2>1, <2>3 DEF w
<1> QED BY <1>1, <1>5, <1>6, <1>7

\* The whole order of what is dirty.
LEMMA InspectedLooked ==
  ASSUME ArtTypes, NEW order \in SetToSeqs(artDirty), IsFiniteSet(artDirty)
  PROVE  Inspected(order) \in Inspection /\ Looked(Inspected(order), artDirty)
<1> DEFINE N == Len(order)
           start == [nodes |-> nodes, q |-> <<>>]
           Goes(g) == g = [n \in 0..N |-> IF n = 0 THEN start ELSE Queued(g[n - 1], order[n])]
           Seen(n) == {order[k] : k \in 1..n}
           acc == CHOOSE g : Goes(g)
<1>1. order \in [1..Cardinality(artDirty) -> artDirty] /\ IsInjective(order)
  BY DEF SetToSeqs, IsInjective
<1>2. N \in Nat /\ (\A n \in 1..N : order[n] \in artDirty) /\ Seen(N) = artDirty
  <2>1. order \in Seq(artDirty) /\ N \in Nat /\ \A x \in artDirty : \E k \in 1..N : order[k] = x
    BY <1>1, InSomeOrder
  <2> QED BY <2>1
<1>3. \A n \in 1..N : order[n] \in DOMAIN nodes BY <1>2 DEF ArtTypes
<1>4. start \in Inspection /\ start.nodes = nodes /\ start.q = <<>>
  <2>1. nodes \in Ports BY PortMembers DEF ArtTypes
  <2>2. <<>> \in Seq(Entry) OBVIOUS
  <2> QED BY <2>1, <2>2 DEF Inspection
<1>5. Looked(start, Seen(0))
  <2>1. nodes \in Ports /\ nodes \in [DOMAIN nodes -> Port] BY PortMembers DEF ArtTypes
  <2>2. <<>> \in Seq(Entry) /\ Numbers(<<>>) = {} BY DEF Numbers
  <2>3. Seen(0) = {} OBVIOUS
  <2>4. \A u \in DOMAIN nodes : SameButNoted(nodes[u], nodes[u]) BY DEF SameButNoted
  <2> HIDE DEF start, Seen
  <2> QED BY <1>4, <2>1, <2>2, <2>3, <2>4 DEF Looked
<1> DEFINE step == [n \in 1..N |-> [st \in Inspection |-> IF Queued(st, order[n]) \in Inspection
                                                           THEN Queued(st, order[n]) ELSE st]]
<1>6. step \in Steps(N, Inspection) BY DEF Steps
<1>7. PICK g : Runs(g, N, Inspection, start, step)
  <2> HIDE DEF step, N, start
  <2> QED BY <1>2, <1>4, <1>6, IterationExists
<1>8. ASSUME NEW n \in 0..N
      PROVE  Looked(g[n], Seen(n)) /\ g[n] \in Inspection
             /\ (n # 0 => g[n] = Queued(g[n - 1], order[n]))
  <2> DEFINE T == {k \in 0..N : /\ Looked(g[k], Seen(k)) /\ g[k] \in Inspection
                                /\ (k # 0 => g[k] = Queued(g[k - 1], order[k]))}
  <2>1. 0 \in T
    <3>1. g[0] = start BY <1>7 DEF Runs
    <3> HIDE DEF start, Seen
    <3> QED BY <1>2, <1>4, <1>5, <3>1
  <2>2. ASSUME NEW k \in 0..N, k # N, k \in T PROVE k + 1 \in T
    <3>1. k + 1 \in 1..N /\ k + 1 \in 0..N /\ (k + 1) - 1 = k /\ k + 1 # 0 BY <1>2, <2>2
    <3>2. g[k] \in Inspection /\ Looked(g[k], Seen(k)) BY <2>2
    <3>3. Seen(k) \in SUBSET DOMAIN nodes
      <4>1. \A j \in 1..k : j \in 1..N BY <1>2, <3>1
      <4> QED BY <1>3, <4>1
    <3>4. Seen(k + 1) = Seen(k) \cup {order[k + 1]}
      <4>1. \A j : j \in 1..k + 1 <=> j \in 1..k \/ j = k + 1 BY <2>2
      <4> QED BY <4>1
    <3> HIDE DEF Seen
    <3>5. Queued(g[k], order[k + 1]) \in Inspection
          /\ Looked(Queued(g[k], order[k + 1]), Seen(k) \cup {order[k + 1]})
      BY <1>3, <3>1, <3>2, <3>3, QueuedLooked
    <3>6. g[k + 1] = step[k + 1][g[k]] BY <1>7, <3>1 DEF Runs
    <3>7. step[k + 1][g[k]] = Queued(g[k], order[k + 1]) BY <3>1, <3>2, <3>5
    <3> HIDE DEF step
    <3> QED BY <3>1, <3>4, <3>5, <3>6, <3>7
  <2>3. 0..N \subseteq T
    <3> HIDE DEF T, N
    <3> QED BY <1>2, <2>1, <2>2, InductionUpTo
  <2> QED BY <2>3
<1>9. Goes(g)
  <2>1. g = [n \in 0..N |-> g[n]] /\ g[0] = start BY <1>7 DEF Runs
  <2>2. \A n \in 0..N : g[n] = IF n = 0 THEN start ELSE Queued(g[n - 1], order[n]) BY <1>8, <2>1
  <2> HIDE DEF start, N
  <2> QED BY <2>1, <2>2
<1>10. Goes(acc)
  <2> HIDE DEF Goes
  <2> QED BY <1>9
<1>11. Inspected(order) = acc[N] BY DEF Inspected
<1>12. acc = g
  <2> DEFINE T == {n \in 0..N : acc[n] = g[n]}
  <2>0. acc[0] = start /\ (\A n \in 1..N : acc[n] = Queued(acc[n - 1], order[n]))
        /\ acc = [n \in 0..N |-> acc[n]] /\ g = [n \in 0..N |-> g[n]]
    <3> HIDE DEF acc
    <3> QED BY <1>2, <1>7, <1>10 DEF Runs
  <2> HIDE DEF acc, start
  <2>1. 0 \in T BY <1>2, <1>7, <2>0 DEF Runs
  <2>2. ASSUME NEW k \in 0..N, k # N, k \in T PROVE k + 1 \in T
    <3>1. k + 1 \in 1..N /\ k + 1 \in 0..N /\ (k + 1) - 1 = k /\ k + 1 # 0 BY <1>2, <2>2
    <3>2. g[k + 1] = Queued(g[k], order[k + 1]) BY <1>8, <3>1
    <3> QED BY <2>0, <2>2, <3>1, <3>2
  <2>3. 0..N \subseteq T
    <3> HIDE DEF T, N
    <3> QED BY <1>2, <2>1, <2>2, InductionUpTo
  <2> QED BY <2>0, <2>3
<1>13. Inspected(order) = g[N] BY <1>11, <1>12
<1>14. N \in 0..N BY <1>2
<1>15. Looked(g[N], Seen(N)) /\ g[N] \in Inspection BY <1>8, <1>14
<1> HIDE DEF Seen, N
<1> QED BY <1>2, <1>13, <1>15

-----------------------------------------------------------------------------
(* The invariant is kept.                                                  *)

LEMMA Constants ==
  /\ \A r \in ArtRoutes : r.to \in Nat /\ r.offset \in Nat /\ r.from \in Nat
  /\ \A l \in ArtOsc : l \in ArtLevels
  /\ \A f \in ArtTraffic : f.source \in ArtSource /\ f.levels \in Frame
<1>1. \A r \in ArtRoutes : r \in ArtRoute BY ArtNetAssumption
<1>2. \A f \in ArtTraffic : f \in ArtFrame /\ Len(f.levels) \in 1..ArtSize BY ArtNetAssumption
<1>3. ArtOsc \subseteq ArtLevels BY ArtNetAssumption
<1> QED BY <1>1, <1>2, <1>3 DEF ArtRoute, ArtFrame, Frame

LEMMA NoteFields ==
  artHistory \in ArtHistory <=>
    artHistory \in [sent: [DOMAIN nodes -> [ArtSource -> Seq(ArtLevel)]],
                    alone: [DOMAIN nodes -> Alone], lost: Lost]
  BY DEF ArtHistory, Alone, Sources, Lost

\* With the same nodes, the same is noted.
LEMMA NoteFieldsNext ==
  artHistory' \in ArtHistory' <=>
    artHistory' \in [sent: [DOMAIN nodes' -> [ArtSource -> Seq(ArtLevel)]],
                     alone: [DOMAIN nodes' -> Alone], lost: Lost]
  BY DEF ArtHistory, Alone, Sources, Lost, ArtChannel

LEMMA InitArtInv ==
  ASSUME ArtInit PROVE ArtInv
<1>1. PICK made \in SUBSET {Cut(r.from) : r \in ArtRoutes} :
        /\ nodes = [u \in made |-> NewNode(u)]
        /\ inputIPs = [u \in made |-> NoSource]
        /\ artHistory = [sent |-> [u \in made |-> [s \in ArtSource |-> <<>>]],
                         alone |-> [u \in made |-> [source |-> NoSource, count |-> 0]],
                         lost |-> {}]
  BY DEF ArtInit
<1>2. made \subseteq Address BY CutAddress, Constants
<1>3. \A u \in Address : PortAddress(u) \in Address
  <2> SUFFICES ASSUME NEW u \in Address PROVE PortAddress(u) \in Address OBVIOUS
  <2>1. u \in Nat /\ Nibble \in Nat /\ Nibble > 0 BY Sizes DEF Address
  <2>2. u \div Nibble \in Nat /\ u % Nibble \in 0..(Nibble - 1) BY <2>1, Quotients
  <2>3. u % Nibble \in Nat BY <2>1, <2>2
  <2> QED BY <2>1, <2>2, <2>3, AddressMade DEF PortAddress
<1>4. Blank \in Levels BY Sizes DEF Blank, Levels
<1>5. ASSUME NEW u \in made
      PROVE  /\ NewNode(u) \in Port /\ NewNode(u).ipA = NoSource /\ NewNode(u).ipB = NoSource
             /\ NewNode(u).length = 0
  <2>1. PortAddress(u) \in Address /\ 0 \in 0..ArtSize BY <1>2, <1>3, Sizes
  <2> QED BY <1>4, <2>1 DEF NewNode, Port, Levels
<1>6. ArtTypes
  <2>1. DOMAIN nodes = made /\ nodes \in [made -> Port] BY <1>1, <1>5
  <2>2. inputIPs \in [made -> Sources] BY <1>1 DEF Sources
  <2>3. artHistory \in ArtHistory
    <3>1. <<>> \in Seq(ArtLevel) OBVIOUS
    <3>2. [u \in made |-> [s \in ArtSource |-> <<>>]] \in [made -> [ArtSource -> Seq(ArtLevel)]]
      BY <3>1
    <3>3. [u \in made |-> [source |-> NoSource, count |-> 0]] \in [made -> Alone]
      BY DEF Alone, Sources
    <3>4. {} \in Lost BY DEF Lost
    <3> QED BY <1>1, <2>1, <3>2, <3>3, <3>4, NoteFields
  <2>4. artOutput \in Outputs
    <3>1. artOutput = <<>> BY DEF ArtInit
    <3>2. <<>> \in Seq(ArtOutput) /\ DOMAIN <<>> = {} OBVIOUS
    <3>3. <<>> \in [1..Len(<<>>) -> ArtOutput] BY <3>2
    <3>4. <<>> \in [DOMAIN <<>> -> ArtOutput] BY <3>2, <3>3
    <3>5. {} \subseteq Address OBVIOUS
    <3> QED BY <3>1, <3>2, <3>4, <3>5, OutputMembers
  <2>5. DOMAIN artWire \subseteq DOMAIN artOutput BY DEF ArtInit
  <2>6. artMute \in [incoming: BOOLEAN, outgoing: SUBSET ArtRoutes] BY DEF ArtInit
  <2> QED BY <1>2, <2>1, <2>2, <2>3, <2>4, <2>5, <2>6 DEF ArtInit, ArtTypes
<1>7. InputsHold
  <2> SUFFICES ASSUME NEW u \in DOMAIN nodes
               PROVE  /\ SlotsHold(nodes[u], artHistory.sent[u])
                      /\ AloneHolds(nodes[u], artHistory.sent[u], artHistory.alone[u])
    BY DEF InputsHold
  <2>1. nodes[u].ipA = NoSource /\ nodes[u].ipB = NoSource /\ artHistory.alone[u].count = 0
    BY <1>1, <1>5
  <2> QED BY <2>1 DEF SlotsHold, AloneHolds
<1>8. PrevNoted
  <2>1. \A u \in DOMAIN nodes : nodes[u].length = 0 BY <1>1, <1>5
  <2>2. \A c \in ArtChannel : ~(c <= 0) BY Sizes DEF ArtChannel
  <2> QED BY <2>1, <2>2 DEF PrevNoted, PrevIsData
<1>9. OutputsHold
  <2> SUFFICES ASSUME NEW r \in ArtRoutes, Follows(r)
               PROVE  /\ \A c \in ArtChannel : Shows(r, c) = nodes[r.from].prevDMX[c]
                      /\ \A c \in Covered(r, nodes[r.from]) : Shows(r, c) = nodes[r.from].data[c]
    BY DEF OutputsHold
  <2>1. r.from \in made BY <1>1 DEF Follows
  <2>2. nodes[r.from].prevDMX = Blank /\ nodes[r.from].data = Blank BY <1>1, <2>1 DEF NewNode
  <2>3. OutputOf(artOutput, r.to).dmx = Blank BY DEF ArtInit, OutputOf, NoArtOutput
  <2> QED BY <2>2, <2>3 DEF Shows
<1>10. UnsentIsDirty BY DEF UnsentIsDirty, ArtInit
<1> QED BY <1>6, <1>7, <1>8, <1>9, <1>10 DEF ArtInv, ArtInit

LEMMA HandleKeeps ==
  ASSUME ArtInv, NEW u \in DOMAIN nodes, NEW s \in ArtSource, NEW universe, NEW frame \in Frame,
         Handle(u, s, universe, frame)
  PROVE  ArtInv'
<1>0. ArtTypes BY DEF ArtInv
<1>1. artPhase = "read" /\ artPhase' = "read" /\ inputIPs' = [inputIPs EXCEPT ![u] = s]
      /\ artServer' = artServer /\ artOutput' = artOutput /\ artWire' = artWire /\ artMute' = artMute
  BY DEF Handle
<1>2. nodes[u] \in Port /\ artHistory.sent[u] \in [ArtSource -> Seq(ArtLevel)]
      /\ artHistory.alone[u] \in Alone
      /\ artHistory \in [sent: [DOMAIN nodes -> [ArtSource -> Seq(ArtLevel)]],
                         alone: [DOMAIN nodes -> Alone], lost: Lost]
  BY <1>0, NoteFields DEF ArtTypes
<1>3. inputIPs' \in [DOMAIN nodes -> Sources] BY <1>0, <1>1 DEF ArtTypes, Sources
<1>4. UnsentIsDirty' BY <1>1 DEF ArtInv, UnsentIsDirty
<1>5. CASE universe # nodes[u].addr
  <2>1. nodes' = nodes /\ artDirty' = artDirty /\ artHistory' = artHistory BY <1>5 DEF Handle
  <2>2. ArtTypes' BY <1>0, <1>1, <1>2, <1>3, <2>1, NoteFieldsNext DEF ArtTypes, Outputs, ArtOutput, Port, ArtChannel, Address, Sources
  <2>3. InputsHold' BY <2>1 DEF ArtInv, InputsHold
  <2>4. PrevNoted' BY <2>1 DEF ArtInv, PrevNoted
  <2>5. OutputsHold' BY <1>1, <2>1 DEF ArtInv, OutputsHold, Shows, Follows
  <2> QED BY <1>1, <1>4, <2>2, <2>3, <2>4, <2>5 DEF ArtInv
<1>6. CASE universe = nodes[u].addr
  <2> DEFINE old == nodes[u]
             w == HandleDmx(old, s, frame)
             sent == artHistory.sent[u]
             count == Noticed(old, s, artHistory.alone[u])
             note == [source |-> s, count |-> count]
  <2>1. SlotsHold(old, sent) /\ AloneHolds(old, sent, artHistory.alone[u]) BY DEF ArtInv, InputsHold
  <2>2. Outcome(old, s, frame, w)
    <3>1. old.ipA = old.ipB => old.ipA = NoSource BY <2>1 DEF SlotsHold
    <3> QED BY <1>2, <3>1, HandleOutcome
  <2>3. /\ nodes' = [nodes EXCEPT ![u] = w] /\ artDirty' = artDirty \cup {u}
        /\ artHistory' = [artHistory EXCEPT !.sent[u][s] = frame, !.alone[u] = note]
    BY <1>6 DEF Handle, Noticed
  <2> HIDE DEF w
  <2>4. SlotsHold(w, [sent EXCEPT ![s] = frame]) BY <1>2, <2>1, <2>2, SlotsKept
  <2>5. count \in 0..2 /\ AloneHolds(w, [sent EXCEPT ![s] = frame], note)
    BY <1>2, <2>1, <2>2, AloneKept
  <2>6. note \in Alone BY <2>5 DEF Alone, Sources
  <2> HIDE DEF note, count
  <2>7. w \in Port /\ w.addr = old.addr /\ w.prevDMX = old.prevDMX BY <2>2 DEF Outcome
  <2>8. nodes \in [DOMAIN nodes -> Port] BY <1>0 DEF ArtTypes
  <2>9. DOMAIN nodes' = DOMAIN nodes /\ nodes' \in [DOMAIN nodes -> Port] /\ nodes'[u] = w
        /\ \A v \in DOMAIN nodes : v # u => nodes'[v] = nodes[v]
    BY <2>3, <2>7, <2>8
  <2> DEFINE now == [sent EXCEPT ![s] = frame]
  <2>10. now \in [ArtSource -> Seq(ArtLevel)] BY <1>2 DEF Frame
  <2>11. artHistory' = [sent |-> [artHistory.sent EXCEPT ![u] = now],
                        alone |-> [artHistory.alone EXCEPT ![u] = note], lost |-> artHistory.lost]
    BY <1>2, <2>3
  <2> HIDE DEF now
  <2>12. artHistory' \in [sent: [DOMAIN nodes -> [ArtSource -> Seq(ArtLevel)]],
                          alone: [DOMAIN nodes -> Alone], lost: Lost]
    BY <1>2, <2>6, <2>10, <2>11
  <2>13. /\ artHistory'.sent[u] = now /\ artHistory'.alone[u] = note /\ artHistory'.lost = artHistory.lost
         /\ \A v \in DOMAIN nodes : v # u => /\ artHistory'.sent[v] = artHistory.sent[v]
                                             /\ artHistory'.alone[v] = artHistory.alone[v]
    BY <1>2, <2>11
  <2>14. ArtTypes'
    <3>1. artHistory' \in ArtHistory' BY <2>9, <2>12, NoteFieldsNext
    <3> QED BY <1>0, <1>1, <1>3, <2>3, <2>9, <3>1 DEF ArtTypes, Outputs, ArtOutput, Port, ArtChannel, Address, Sources
  <2>15. InputsHold'
    <3> SUFFICES ASSUME NEW v \in DOMAIN nodes
                 PROVE  /\ SlotsHold(nodes'[v], artHistory'.sent[v])
                        /\ AloneHolds(nodes'[v], artHistory'.sent[v], artHistory'.alone[v])
      BY <2>9 DEF InputsHold, SlotsHold, AloneHolds, Holds, ArtChannel
    <3>1. CASE v = u BY <2>4, <2>5, <2>9, <2>13, <3>1 DEF now
    <3>2. CASE v # u BY <2>9, <2>13, <3>2 DEF ArtInv, InputsHold
    <3> QED BY <3>1, <3>2
  <2>16. PrevNoted'
    <3>1. \A v \in DOMAIN nodes : v \notin artDirty' => v # u /\ v \notin artDirty /\ nodes'[v] = nodes[v]
      BY <2>3, <2>9
    <3> QED BY <2>9, <3>1 DEF ArtInv, PrevNoted, PrevIsData
  <2>17. \A v \in DOMAIN nodes : nodes'[v].addr = nodes[v].addr /\ nodes'[v].prevDMX = nodes[v].prevDMX
    BY <2>7, <2>9
  <2>18. OutputsHold'
    <3> SUFFICES ASSUME artServer, NEW r \in ArtRoutes, Sole(r), Follows(r)'
                 PROVE  /\ LevelChangesOnly => \A c \in ArtChannel :
                             <<r, c>> \in artHistory'.lost \/ Shows(r, c)' = nodes'[r.from].prevDMX[c]
                        /\ ~LevelChangesOnly /\ r.from \notin artDirty' =>
                             \A c \in Covered(r, nodes'[r.from]) :
                               <<r, c>> \in artHistory'.lost \/ Shows(r, c)' = nodes'[r.from].data[c]
      BY <1>1 DEF OutputsHold, Covered, ArtChannel, Sole
    <3>1. Follows(r) BY <2>9, <2>17 DEF Follows
    <3>2. \A c : Shows(r, c)' = Shows(r, c) BY <1>1 DEF Shows
    <3>3. r.from \in DOMAIN nodes BY <3>1 DEF Follows
    <3>4. r.from \notin artDirty' => r.from \notin artDirty /\ nodes'[r.from] = nodes[r.from]
      BY <2>3, <2>9, <3>3
    <3> QED BY <2>13, <2>17, <3>1, <3>2, <3>3, <3>4 DEF ArtInv, OutputsHold
  <2> QED BY <1>1, <1>4, <2>14, <2>15, <2>16, <2>18 DEF ArtInv
<1> QED BY <1>5, <1>6

\* Steps after which the nodes show the same, and the outputs as well.
LEMMA SameShown ==
  ASSUME ArtInv, nodes' \in [DOMAIN nodes -> Port], DOMAIN nodes' = DOMAIN nodes,
         \A u \in DOMAIN nodes : SameButNoted(nodes[u], nodes'[u]),
         artHistory' = artHistory, inputIPs' = inputIPs, artDirty' = artDirty, artServer' = artServer,
         \A u \in DOMAIN nodes : nodes'[u].prevDMX = nodes[u].prevDMX,
         \A r \in ArtRoutes : Sole(r) => OutputOf(artOutput', r.to).dmx = OutputOf(artOutput, r.to).dmx,
         artOutput' \in Outputs, DOMAIN artWire' \subseteq DOMAIN artOutput', UnsentIsDirty',
         artMute' \in [incoming: BOOLEAN, outgoing: SUBSET ArtRoutes],
         artPhase' \in {"read", "route", "flush"}, artPhase' = "flush" => artPhase = "flush"
  PROVE  ArtInv'
<1>1. ArtTypes'
  <2>1. artHistory' \in ArtHistory' BY NoteFields, NoteFieldsNext DEF ArtInv, ArtTypes
  <2> QED BY <2>1 DEF ArtInv, ArtTypes, Outputs, ArtOutput, Port, ArtChannel, Address, Sources
<1>2. InputsHold'
  <2> SUFFICES ASSUME NEW v \in DOMAIN nodes
               PROVE  /\ SlotsHold(nodes'[v], artHistory.sent[v])
                      /\ AloneHolds(nodes'[v], artHistory.sent[v], artHistory.alone[v])
    BY DEF InputsHold, SlotsHold, AloneHolds, Holds, ArtChannel
  <2>1. /\ SlotsHold(nodes[v], artHistory.sent[v])
        /\ AloneHolds(nodes[v], artHistory.sent[v], artHistory.alone[v])
    BY DEF ArtInv, InputsHold
  <2>2. SameButNoted(nodes[v], nodes'[v]) OBVIOUS
  <2>3. SlotsHold(nodes'[v], artHistory.sent[v]) BY <2>1, <2>2 DEF SlotsHold, SameButNoted
  <2>4. AloneHolds(nodes'[v], artHistory.sent[v], artHistory.alone[v])
    BY <2>1, <2>2 DEF AloneHolds, SameButNoted
  <2> QED BY <2>3, <2>4
<1>3. PrevNoted' BY DEF ArtInv, PrevNoted, PrevIsData, SameButNoted
<1>4. OutputsHold'
  <2> SUFFICES ASSUME artServer, NEW r \in ArtRoutes, Sole(r), Follows(r)'
               PROVE  /\ LevelChangesOnly => \A c \in ArtChannel :
                           <<r, c>> \in artHistory.lost \/ Shows(r, c)' = nodes'[r.from].prevDMX[c]
                      /\ ~LevelChangesOnly /\ r.from \notin artDirty =>
                           \A c \in Covered(r, nodes'[r.from]) :
                             <<r, c>> \in artHistory.lost \/ Shows(r, c)' = nodes'[r.from].data[c]
    BY DEF OutputsHold, Covered, ArtChannel, Sole
  <2>1. Follows(r) /\ r.from \in DOMAIN nodes BY DEF Follows, SameButNoted
  <2>2. \A c : Shows(r, c)' = Shows(r, c) BY DEF Shows
  <2>3. SameButNoted(nodes[r.from], nodes'[r.from]) /\ nodes'[r.from].prevDMX = nodes[r.from].prevDMX
    BY <2>1
  <2>4. Covered(r, nodes'[r.from]) = Covered(r, nodes[r.from]) BY <2>3 DEF Covered, SameButNoted
  <2> QED BY <2>1, <2>2, <2>3, <2>4 DEF ArtInv, OutputsHold, SameButNoted
<1>5. artPhase' = "flush" => artDirty' = {} BY DEF ArtInv
<1> QED BY <1>1, <1>2, <1>3, <1>4, <1>5 DEF ArtInv

LEMMA GrowOldKeeps ==
  ASSUME ArtInv, NEW u \in DOMAIN nodes, NEW slot, GrowOld(u, slot)
  PROVE  ArtInv'
<1>1. nodes \in [DOMAIN nodes -> Port] BY DEF ArtInv, ArtTypes
<1>2. PICK w \in {[nodes[u] EXCEPT !.oldA = TRUE], [nodes[u] EXCEPT !.oldB = TRUE]} :
        nodes' = [nodes EXCEPT ![u] = w]
  BY DEF GrowOld
<1>3. w \in Port /\ SameButNoted(nodes[u], w) /\ w.prevDMX = nodes[u].prevDMX
  BY <1>1, <1>2 DEF Port, SameButNoted
<1>4. \A v \in DOMAIN nodes : SameButNoted(nodes[v], nodes[v]) BY DEF SameButNoted
<1>5. nodes' \in [DOMAIN nodes -> Port] /\ DOMAIN nodes' = DOMAIN nodes /\ nodes'[u] = w
      /\ \A v \in DOMAIN nodes : v # u => nodes'[v] = nodes[v]
  BY <1>1, <1>2, <1>3
<1>6. \A v \in DOMAIN nodes : SameButNoted(nodes[v], nodes'[v]) /\ nodes'[v].prevDMX = nodes[v].prevDMX
  BY <1>3, <1>4, <1>5
<1>7. UnsentIsDirty' BY DEF GrowOld, ArtInv, UnsentIsDirty
<1>8. artOutput \in Outputs /\ DOMAIN artWire \subseteq DOMAIN artOutput
      /\ artMute \in [incoming: BOOLEAN, outgoing: SUBSET ArtRoutes] BY DEF ArtInv, ArtTypes
<1> QED BY <1>5, <1>6, <1>7, <1>8, SameShown DEF GrowOld

LEMMA ReadDoneKeeps ==
  ASSUME ArtInv, ReadDone PROVE ArtInv'
<1>1. nodes \in [DOMAIN nodes -> Port] BY DEF ArtInv, ArtTypes
<1>2. \A v \in DOMAIN nodes : SameButNoted(nodes[v], nodes[v]) BY DEF SameButNoted
<1>3. UnsentIsDirty' BY DEF ReadDone, ArtInv, UnsentIsDirty
<1>4. artOutput \in Outputs /\ DOMAIN artWire \subseteq DOMAIN artOutput
      /\ artMute \in [incoming: BOOLEAN, outgoing: SUBSET ArtRoutes] BY DEF ArtInv, ArtTypes
<1> QED BY <1>1, <1>2, <1>3, <1>4, SameShown DEF ReadDone

LEMMA SoundNow == ArtInv => artOutput \in SoundOutputs
  BY DEF ArtInv, ArtTypes, UnsentIsDirty, SoundOutputs

LEMMA SoundNext ==
  ASSUME artOutput' \in SoundOutputs, artWire' = artWire
  PROVE  artOutput' \in Outputs /\ DOMAIN artWire' \subseteq DOMAIN artOutput' /\ UnsentIsDirty'
  BY DEF SoundOutputs, UnsentIsDirty

LEMMA SendLevelsKeeps ==
  ASSUME ArtInv, NEW l \in ArtOsc, SendLevels(l) PROVE ArtInv'
<1>1. nodes \in [DOMAIN nodes -> Port] /\ artOutput \in SoundOutputs /\ artOutput \in Outputs
  BY SoundNow DEF ArtInv, ArtTypes
<1>2. \A v \in DOMAIN nodes : SameButNoted(nodes[v], nodes[v]) BY DEF SameButNoted
<1>3. l.to \in Nat /\ l.offset \in Nat /\ l.args \in Seq(ArtLevel) BY Constants DEF ArtLevels
<1>4. /\ artOutput' \in SoundOutputs
      /\ \A n : Cut(n) # Cut(l.to) => OutputOf(artOutput', n) = OutputOf(artOutput, n)
  <2>0. artOutput' = WithArgs(artOutput, l) BY DEF SendLevels
  <2>1. CASE l.offset >= ArtSize BY <1>1, <2>0, <2>1 DEF WithArgs
  <2>2. CASE ~(l.offset >= ArtSize)
    <3> DEFINE dmx == [c \in ArtChannel |->
                 IF c > l.offset /\ c - l.offset <= Len(l.args) THEN l.args[c - l.offset]
                 ELSE OutputOf(artOutput, l.to).dmx[c]]
    <3>1. dmx \in Levels
      <4>1. OutputOf(artOutput, l.to).dmx \in Levels BY <1>1, OutputThere
      <4>2. \A c \in ArtChannel : c > l.offset /\ c - l.offset <= Len(l.args) =>
              l.args[c - l.offset] \in ArtLevel
        <5>1. \A c \in ArtChannel : c > l.offset /\ c - l.offset <= Len(l.args) =>
                c - l.offset \in 1..Len(l.args)
          BY <1>3, Sizes
        <5> QED BY <1>3, <5>1
      <4> QED BY <4>1, <4>2 DEF Levels
    <3>2. artOutput' = Updated(artOutput, l.to, dmx) BY <2>0, <2>2 DEF WithArgs
    <3> HIDE DEF dmx
    <3> QED BY <1>1, <1>3, <3>1, <3>2, UpdatedSound
  <2> QED BY <2>1, <2>2
<1>5. \A r \in ArtRoutes : Sole(r) => OutputOf(artOutput', r.to).dmx = OutputOf(artOutput, r.to).dmx
  BY <1>4 DEF Sole
<1>6. artWire' = artWire /\ artMute' = artMute /\ artPhase' = artPhase /\ artPhase = "read"
      /\ nodes' = nodes /\ artHistory' = artHistory /\ inputIPs' = inputIPs /\ artDirty' = artDirty
      /\ artServer' = artServer
  BY DEF SendLevels
<1>7. artMute' \in [incoming: BOOLEAN, outgoing: SUBSET ArtRoutes] BY <1>6 DEF ArtInv, ArtTypes
<1>8. artOutput' \in Outputs /\ DOMAIN artWire' \subseteq DOMAIN artOutput' /\ UnsentIsDirty'
  BY <1>4, <1>6, SoundNext
<1> QED BY <1>1, <1>2, <1>5, <1>6, <1>7, <1>8, SameShown

LEMMA FlushKeeps ==
  ASSUME ArtInv, NEW due \in SUBSET DOMAIN artOutput, FlushArtNet(due) PROVE ArtInv'
<1>1. nodes \in [DOMAIN nodes -> Port] /\ artOutput \in Outputs /\ DOMAIN artWire \subseteq DOMAIN artOutput
      /\ DOMAIN artOutput \subseteq Address /\ artOutput \in [DOMAIN artOutput -> ArtOutput]
  BY OutputMembers DEF ArtInv, ArtTypes
<1>2. \A v \in DOMAIN nodes : SameButNoted(nodes[v], nodes[v]) BY DEF SameButNoted
<1>3. /\ artOutput' = [n \in DOMAIN artOutput |->
                   IF n \in due THEN [artOutput[n] EXCEPT !.dirty = FALSE, !.started = TRUE] ELSE artOutput[n]]
      /\ artWire' = [n \in DOMAIN artWire \cup due |-> IF n \in due THEN artOutput[n].dmx ELSE artWire[n]]
      /\ artPhase' = "read" /\ artMute' \in [incoming: BOOLEAN, outgoing: ArtMutes]
      /\ nodes' = nodes /\ artHistory' = artHistory /\ inputIPs' = inputIPs /\ artDirty' = artDirty
      /\ artServer' = artServer
  BY DEF FlushArtNet, RawSendDmx
<1>4. \A n \in DOMAIN artOutput : /\ artOutput'[n] \in ArtOutput /\ artOutput'[n].dmx = artOutput[n].dmx
                                  /\ n \notin due => artOutput'[n] = artOutput[n]
  BY <1>1, <1>3 DEF ArtOutput
<1>5. DOMAIN artOutput' = DOMAIN artOutput /\ DOMAIN artWire' = DOMAIN artWire \cup due BY <1>3
<1>6. artOutput' \in [DOMAIN artOutput' -> ArtOutput]
  <2>1. artOutput' = [n \in DOMAIN artOutput |-> artOutput'[n]] BY <1>3
  <2> QED BY <1>4, <1>5, <2>1
<1>7. artOutput' \in Outputs BY <1>1, <1>5, <1>6, OutputMembers
<1>8. UnsentIsDirty'
  <2> SUFFICES ASSUME NEW n \in DOMAIN artOutput
               PROVE  artOutput'[n].dirty \/ (n \in DOMAIN artWire' /\ artWire'[n] = artOutput'[n].dmx)
    BY <1>5 DEF UnsentIsDirty
  <2>1. CASE n \in due BY <1>3, <1>4, <1>5, <2>1
  <2>2. CASE n \notin due
    <3>1. artOutput'[n] = artOutput[n] /\ (n \in DOMAIN artWire => n \in DOMAIN artWire' /\ artWire'[n] = artWire[n])
      BY <1>3, <1>4, <1>5, <2>2
    <3> QED BY <3>1 DEF ArtInv, UnsentIsDirty
  <2> QED BY <2>1, <2>2
<1>9. \A to : OutputOf(artOutput', to).dmx = OutputOf(artOutput, to).dmx BY <1>4, <1>5 DEF OutputOf
<1>10. artMute' \in [incoming: BOOLEAN, outgoing: SUBSET ArtRoutes]
  <2>1. ArtMutes \subseteq SUBSET ArtRoutes BY ArtNetAssumption
  <2> QED BY <1>3, <2>1
<1>11. DOMAIN artWire' \subseteq DOMAIN artOutput' BY <1>1, <1>5
<1> QED BY <1>1, <1>2, <1>3, <1>7, <1>8, <1>9, <1>10, <1>11, SameShown

\* The dirty nodes are finitely many.
LEMMA DirtyFinite == ArtTypes => IsFiniteSet(artDirty)
<1> SUFFICES ASSUME ArtTypes PROVE IsFiniteSet(artDirty) OBVIOUS
<1>1. Nibble * Nibble - 1 \in Int BY Sizes
<1>2. IsFiniteSet(Address) BY <1>1, FS_Interval DEF Address
<1>3. artDirty \in SUBSET Address BY DEF ArtTypes
<1> QED BY <1>2, <1>3, FS_Subset

LEMMA RouteKeeps ==
  ASSUME ArtInv, RouteArtNet PROVE ArtInv'
<1>0. ArtTypes BY DEF ArtInv
<1>1. PICK order \in SetToSeqs(artDirty) :
        /\ nodes' = Inspected(order).nodes
        /\ artOutput' = IF artMute.incoming \/ ~artServer THEN artOutput
                        ELSE QueueRouted(artOutput, Inspected(order).q, Inspected(order).nodes)
        /\ artHistory' = [artHistory EXCEPT
                            !.lost = QueueLosses(@, Inspected(order).q, Inspected(order).nodes)]
  BY DEF RouteArtNet
<1>2. Looked(Inspected(order), artDirty) BY <1>0, DirtyFinite, InspectedLooked
<1> DEFINE ports == Inspected(order).nodes
           q == Inspected(order).q
           lost == QueueLosses(artHistory.lost, q, ports)
<1>3. /\ ports \in Ports /\ DOMAIN ports = DOMAIN nodes /\ q \in Seq(Entry)
      /\ \A u \in DOMAIN nodes : SameButNoted(nodes[u], ports[u])
      /\ ~LevelChangesOnly => ports = nodes /\ \A u \in artDirty : nodes[u].addr \in Numbers(q)
      /\ LevelChangesOnly => \A u \in DOMAIN nodes :
           /\ u \in Numbers(q) => PrevIsData(ports[u])
           /\ u \notin Numbers(q) => ports[u].prevDMX = nodes[u].prevDMX
           /\ u \in artDirty /\ nodes[u].addr = u => PrevIsData(ports[u])
  BY <1>2 DEF Looked
<1>4. artHistory \in [sent: [DOMAIN nodes -> [ArtSource -> Seq(ArtLevel)]],
                      alone: [DOMAIN nodes -> Alone], lost: Lost]
  BY <1>0, NoteFields DEF ArtTypes
<1>5. nodes' = ports /\ artHistory' = [artHistory EXCEPT !.lost = lost]
      /\ artOutput' = IF artMute.incoming \/ ~artServer THEN artOutput ELSE QueueRouted(artOutput, q, ports)
  BY <1>1, <1>4
<1> HIDE DEF ports, q, lost
<1>6. /\ inputIPs' = inputIPs /\ artServer' = artServer /\ artWire' = artWire /\ artMute' = artMute
      /\ artDirty' = {} /\ artPhase' = "flush"
  BY DEF RouteArtNet
<1>7. artOutput \in SoundOutputs /\ artHistory.lost \in Lost BY <1>4, SoundNow
<1>8. /\ RoutedQueue(artOutput, q, ports) \in SoundOutputs /\ lost \in Lost
      /\ \A r : \A c \in ArtChannel : Single(r, ports) =>
           IF r.from \in Numbers(q) /\ c \in Covered(r, ports[r.from])
           THEN <<r, c>> \in lost \/ Cell(RoutedQueue(artOutput, q, ports), r, c) = Source(r, c, ports)
           ELSE /\ <<r, c>> \in lost <=> <<r, c>> \in artHistory.lost
                /\ Cell(RoutedQueue(artOutput, q, ports), r, c) = Cell(artOutput, r, c)
  BY <1>3, <1>7, QueueCaught DEF lost
<1>9. artOutput' \in SoundOutputs BY <1>5, <1>7, <1>8 DEF RoutedQueue
<1>10. artOutput' \in Outputs /\ DOMAIN artWire' \subseteq DOMAIN artOutput' /\ UnsentIsDirty'
  BY <1>6, <1>9, SoundNext
<1>11. artHistory' \in [sent: [DOMAIN nodes -> [ArtSource -> Seq(ArtLevel)]],
                        alone: [DOMAIN nodes -> Alone], lost: Lost]
       /\ artHistory'.sent = artHistory.sent /\ artHistory'.alone = artHistory.alone
       /\ artHistory'.lost = lost
  BY <1>4, <1>5, <1>8
<1>12. ArtTypes'
  <2>1. artHistory' \in ArtHistory' BY <1>3, <1>5, <1>11, NoteFieldsNext
  <2>2. nodes' \in [DOMAIN nodes' -> Port] /\ DOMAIN nodes' = DOMAIN nodes
    BY <1>3, <1>5, PortMembers
  <2> QED BY <1>0, <1>6, <1>10, <2>1, <2>2
          DEF ArtTypes, Outputs, ArtOutput, Port, ArtChannel, Address, Sources
<1>13. InputsHold'
  <2> SUFFICES ASSUME NEW v \in DOMAIN nodes
               PROVE  /\ SlotsHold(nodes'[v], artHistory'.sent[v])
                      /\ AloneHolds(nodes'[v], artHistory'.sent[v], artHistory'.alone[v])
    <3>1. DOMAIN nodes' = DOMAIN nodes BY <1>3, <1>5
    <3> QED BY <3>1 DEF InputsHold, SlotsHold, AloneHolds, Holds, ArtChannel
  <2>1. /\ SlotsHold(nodes[v], artHistory.sent[v])
        /\ AloneHolds(nodes[v], artHistory.sent[v], artHistory.alone[v])
    BY DEF ArtInv, InputsHold
  <2>2. SameButNoted(nodes[v], ports[v]) BY <1>3
  <2>3. SlotsHold(ports[v], artHistory.sent[v]) BY <2>1, <2>2 DEF SlotsHold, SameButNoted
  <2>4. AloneHolds(ports[v], artHistory.sent[v], artHistory.alone[v])
    BY <2>1, <2>2 DEF AloneHolds, SameButNoted
  <2> QED BY <1>5, <1>11, <2>3, <2>4
<1>14. PrevNoted'
  <2> SUFFICES ASSUME LevelChangesOnly, NEW u \in DOMAIN nodes, ports[u].addr = u
               PROVE  PrevIsData(ports[u])
    BY <1>3, <1>5, <1>6 DEF PrevNoted, PrevIsData, ArtChannel
  <2>1. SameButNoted(nodes[u], ports[u]) /\ nodes[u].addr = u BY <1>3 DEF SameButNoted
  <2>2. CASE u \in artDirty \/ u \in Numbers(q) BY <1>3, <2>1, <2>2
  <2>3. CASE u \notin artDirty /\ u \notin Numbers(q)
    <3>1. PrevIsData(nodes[u]) BY <2>1, <2>3 DEF ArtInv, PrevNoted
    <3>2. ports[u].prevDMX = nodes[u].prevDMX BY <1>3, <2>3
    <3> QED BY <2>1, <3>1, <3>2 DEF PrevIsData, SameButNoted
  <2> QED BY <2>2, <2>3
<1>15. OutputsHold'
  <2> SUFFICES ASSUME artServer, NEW r \in ArtRoutes, Sole(r), Follows(r)'
               PROVE  /\ LevelChangesOnly => \A c \in ArtChannel :
                           <<r, c>> \in lost \/ Shows(r, c)' = ports[r.from].prevDMX[c]
                      /\ ~LevelChangesOnly /\ r.from \notin artDirty' =>
                           \A c \in Covered(r, ports[r.from]) :
                             <<r, c>> \in lost \/ Shows(r, c)' = ports[r.from].data[c]
    BY <1>5, <1>6, <1>11 DEF OutputsHold, Covered, ArtChannel, Sole
  <2> DEFINE u == r.from
  <2>1. u \in DOMAIN nodes /\ nodes[u].addr = u /\ Follows(r)
    BY <1>3, <1>5 DEF Follows, SameButNoted
  <2>2. SameButNoted(nodes[u], ports[u]) /\ Single(r, ports) BY <1>3, <2>1 DEF Single, Follows
  <2>3. \A c : /\ Shows(r, c)' = Cell(RoutedQueue(artOutput, q, ports), r, c)
               /\ Shows(r, c) = Cell(artOutput, r, c)
    BY <1>5 DEF Shows, Cell, RoutedQueue
  <2>4. \A c \in ArtChannel :
          IF u \in Numbers(q) /\ c \in Covered(r, ports[u])
          THEN <<r, c>> \in lost \/ Shows(r, c)' = ports[u].data[c]
          ELSE (<<r, c>> \in lost <=> <<r, c>> \in artHistory.lost) /\ Shows(r, c)' = Shows(r, c)
    BY <1>8, <2>2, <2>3 DEF Source
  <2>5. ASSUME LevelChangesOnly, NEW c \in ArtChannel
        PROVE  <<r, c>> \in lost \/ Shows(r, c)' = ports[u].prevDMX[c]
    <3>1. <<r, c>> \in artHistory.lost \/ Shows(r, c) = nodes[u].prevDMX[c]
      BY <2>1, <2>5 DEF ArtInv, OutputsHold
    <3>2. r.offset = 0 /\ ports[u] \in Port /\ ports[u].length = nodes[u].length
      BY <1>3, <2>1, <2>2, <2>5, PortMembers DEF Follows, SameButNoted
    <3>3. c \in Covered(r, ports[u]) <=> c <= ports[u].length
      BY <3>2, Sizes DEF Covered, Port, ArtChannel
    <3>4. c \notin Covered(r, ports[u]) => c > nodes[u].length BY <3>2, <3>3, Sizes DEF Port
    <3>5. CASE u \in Numbers(q) /\ c \in Covered(r, ports[u])
      <4>1. ports[u].prevDMX[c] = ports[u].data[c] BY <1>3, <2>1, <2>5, <3>3, <3>5 DEF PrevIsData
      <4> QED BY <2>4, <3>5, <4>1
    <3>6. CASE ~(u \in Numbers(q) /\ c \in Covered(r, ports[u]))
      <4>1. ports[u].prevDMX[c] = nodes[u].prevDMX[c]
        BY <1>3, <2>1, <2>2, <2>5, <3>4, <3>6 DEF SameButNoted
      <4> QED BY <2>4, <3>1, <3>6, <4>1
    <3> QED BY <3>5, <3>6
  <2>6. ASSUME ~LevelChangesOnly, NEW c \in Covered(r, ports[u])
        PROVE  <<r, c>> \in lost \/ Shows(r, c)' = ports[u].data[c]
    <3>1. c \in ArtChannel /\ ports = nodes BY <1>3, <2>6 DEF Covered
    <3>2. CASE u \in Numbers(q) BY <2>4, <3>1, <3>2
    <3>3. CASE u \notin Numbers(q)
      <4>1. u \notin artDirty BY <1>3, <2>1, <2>6, <3>3
      <4>2. <<r, c>> \in artHistory.lost \/ Shows(r, c) = nodes[u].data[c]
        BY <2>1, <2>6, <3>1, <4>1 DEF ArtInv, OutputsHold
      <4> QED BY <2>4, <3>1, <3>3, <4>2
    <3> QED BY <3>2, <3>3
  <2> QED BY <2>5, <2>6
<1>16. artPhase' = "flush" => artDirty' = {} BY <1>6
<1> QED BY <1>10, <1>12, <1>13, <1>14, <1>15, <1>16 DEF ArtInv

LEMMA ArtInvKept == ArtInv /\ [ArtNext]_artVars => ArtInv'
<1> SUFFICES ASSUME ArtInv, [ArtNext]_artVars PROVE ArtInv' OBVIOUS
<1>1. ASSUME NEW u \in DOMAIN nodes, NEW f \in ArtTraffic, Handle(u, f.source, f.universe, f.levels)
      PROVE  ArtInv'
  <2>1. f.source \in ArtSource /\ f.levels \in Frame BY Constants
  <2> QED BY <1>1, <2>1, HandleKeeps
<1>2. ASSUME NEW u \in DOMAIN nodes, NEW slot \in {"A", "B"}, GrowOld(u, slot) PROVE ArtInv'
  BY <1>2, GrowOldKeeps
<1>3. CASE ReadDone BY <1>3, ReadDoneKeeps
<1>4. CASE RouteArtNet BY <1>4, RouteKeeps
<1>5. ASSUME NEW l \in ArtOsc, SendLevels(l) PROVE ArtInv' BY <1>5, SendLevelsKeeps
<1>6. ASSUME NEW due \in SUBSET DOMAIN artOutput, FlushArtNet(due) PROVE ArtInv' BY <1>6, FlushKeeps
<1>7. CASE UNCHANGED artVars
  <2>1. nodes \in [DOMAIN nodes -> Port] /\ artOutput \in SoundOutputs
        /\ artMute \in [incoming: BOOLEAN, outgoing: SUBSET ArtRoutes]
        /\ artPhase \in {"read", "route", "flush"}
    BY SoundNow DEF ArtInv, ArtTypes
  <2>2. \A v \in DOMAIN nodes : SameButNoted(nodes[v], nodes[v]) BY DEF SameButNoted
  <2>3. artOutput' \in Outputs /\ DOMAIN artWire' \subseteq DOMAIN artOutput' /\ UnsentIsDirty'
    BY <1>7, <2>1, SoundNext DEF artVars
  <2> QED BY <1>7, <2>1, <2>2, <2>3, SameShown DEF artVars
<1> QED BY <1>1, <1>2, <1>3, <1>4, <1>5, <1>6, <1>7 DEF ArtNext

-----------------------------------------------------------------------------
(* The theorems.                                                           *)

LEMMA InvHasTypes == ArtInv => ArtTypeOK
<1> SUFFICES ASSUME ArtInv PROVE ArtTypeOK OBVIOUS
<1>1. artOutput \in [DOMAIN artOutput -> ArtOutput] /\ DOMAIN artOutput \subseteq Address
  BY OutputMembers DEF ArtInv, ArtTypes
<1>2. inputIPs \in [DOMAIN nodes -> ArtSource \cup {NoSource}] BY DEF ArtInv, ArtTypes, Sources
<1> QED BY <1>1, <1>2 DEF ArtInv, ArtTypes, ArtTypeOK

LEMMA InvIsSound == ArtInv => ArtNetSound
<1> SUFFICES ASSUME ArtInv PROVE ArtNetSound OBVIOUS
<1>1. SlotsDiffer BY DEF ArtInv, InputsHold, SlotsHold, SlotsDiffer
<1>2. ASSUME NEW u \in DOMAIN nodes
      PROVE  /\ nodes[u] \in Port /\ nodes[u].length \in 0..ArtSize /\ nodes[u].length \in Nat
             /\ \A c \in 1..nodes[u].length : c \in ArtChannel
             /\ artHistory.sent[u] \in [ArtSource -> Seq(ArtLevel)]
  <2>1. nodes[u] \in Port /\ artHistory \in ArtHistory BY DEF ArtInv, ArtTypes
  <2>2. artHistory.sent[u] \in [ArtSource -> Seq(ArtLevel)] BY <2>1 DEF ArtHistory
  <2>3. nodes[u].length \in 0..ArtSize BY <2>1 DEF Port
  <2> QED BY <2>1, <2>2, <2>3, Sizes DEF ArtChannel
<1>3. TogetherAreMerged
  <2> SUFFICES ASSUME NEW u \in DOMAIN nodes, nodes[u].ipA # NoSource, nodes[u].ipB # NoSource,
                      NEW c \in 1..Min({nodes[u].length, Len(artHistory.sent[u][nodes[u].ipA]),
                                        Len(artHistory.sent[u][nodes[u].ipB])})
               PROVE  nodes[u].data[c] = Max({artHistory.sent[u][nodes[u].ipA][c],
                                              artHistory.sent[u][nodes[u].ipB][c]})
    BY DEF TogetherAreMerged
  <2> DEFINE p == nodes[u]
             x == artHistory.sent[u][p.ipA]   y == artHistory.sent[u][p.ipB]
  <2>1. p.ipA \in ArtSource /\ p.ipB \in ArtSource BY <1>2 DEF Port
  <2>2. Len(x) \in Nat /\ Len(y) \in Nat BY <1>2, <2>1
  <2>3. \A i, j, k \in Nat : /\ Min({i, j, k}) \in {i, j, k}
                             /\ \A n \in {i, j, k} : Min({i, j, k}) <= n
    <3> SUFFICES ASSUME NEW i \in Nat, NEW j \in Nat, NEW k \in Nat
                 PROVE  Min({i, j, k}) \in {i, j, k} /\ \A n \in {i, j, k} : Min({i, j, k}) <= n
      OBVIOUS
    <3>1. \E m \in {i, j, k} : \A n \in {i, j, k} : m <= n OBVIOUS
    <3> QED BY <3>1 DEF Min
  <2>4. Min({p.length, Len(x), Len(y)}) \in {p.length, Len(x), Len(y)}
        /\ \A n \in {p.length, Len(x), Len(y)} : Min({p.length, Len(x), Len(y)}) <= n
    <3>1. p.length \in Nat BY <1>2
    <3> HIDE DEF p, x, y
    <3> QED BY <2>2, <2>3, <3>1
  <2>5. c <= p.length /\ c <= Len(x) /\ c <= Len(y) /\ c \in 1..p.length
    <3> DEFINE m == Min({p.length, Len(x), Len(y)})
    <3>1. m \in Nat /\ m <= p.length /\ m <= Len(x) /\ m <= Len(y) /\ c \in 1..m
      BY <1>2, <2>2, <2>4
    <3> HIDE DEF m
    <3> QED BY <1>2, <2>2, <3>1
  <2>6. c \in ArtChannel BY <1>2, <2>5
  <2>7. p.data[c] = Max({p.dataA[c], p.dataB[c]}) /\ p.dataA[c] = x[c] /\ p.dataB[c] = y[c]
    BY <2>5, <2>6 DEF ArtInv, InputsHold, SlotsHold, Holds
  <2> QED BY <2>7
<1>4. AloneIsShown
  <2> SUFFICES ASSUME NEW u \in DOMAIN nodes, artHistory.alone[u].count = 2, NEW c \in 1..nodes[u].length
               PROVE  nodes[u].data[c] = artHistory.sent[u][artHistory.alone[u].source][c]
    BY DEF AloneIsShown
  <2>1. c \in ArtChannel /\ c <= nodes[u].length BY <1>2
  <2> QED BY <2>1 DEF ArtInv, InputsHold, AloneHolds
<1>5. OutputFollowsInput
  <2> SUFFICES ASSUME artPhase = "flush", artServer, NEW r \in ArtRoutes, Sole(r), Follows(r),
                      NEW c \in Covered(r, nodes[r.from])
               PROVE  \/ <<r, c>> \in artHistory.lost
                      \/ Shows(r, c) = nodes[r.from].data[c]
    BY DEF OutputFollowsInput, Shows
  <2>1. artDirty = {} /\ c \in ArtChannel BY DEF ArtInv, Covered
  <2>2. r.from \in DOMAIN nodes /\ nodes[r.from].addr = r.from BY DEF Follows
  <2>3. CASE ~LevelChangesOnly BY <2>1, <2>3 DEF ArtInv, OutputsHold
  <2>4. CASE LevelChangesOnly
    <3>1. <<r, c>> \in artHistory.lost \/ Shows(r, c) = nodes[r.from].prevDMX[c]
      BY <2>1, <2>4 DEF ArtInv, OutputsHold
    <3>2. c <= nodes[r.from].length
      <4>1. r.offset = 0 BY <2>4 DEF Follows
      <4> QED BY <1>2, <2>1, <2>2, <4>1, Sizes DEF Covered
    <3>3. PrevIsData(nodes[r.from]) BY <2>1, <2>2, <2>4 DEF ArtInv, PrevNoted
    <3> QED BY <2>1, <3>1, <3>2, <3>3 DEF PrevIsData
  <2> QED BY <2>3, <2>4
<1> QED BY <1>1, <1>3, <1>4, <1>5, AddressesListen DEF ArtInv, ArtNetSound, ArtInputSound

LEMMA ArtInvHolds == ArtSpec => []ArtInv
<1>1. ArtInit => ArtInv BY InitArtInv
<1>2. ArtInv /\ [ArtNext]_artVars => ArtInv' BY ArtInvKept
<1> QED BY <1>1, <1>2, PTL DEF ArtSpec

\* The nodes, the outputs and what is on the wire keep their types (ArtNet, FlushArtNet).
THEOREM ArtTypesHold == ArtSpec => []ArtTypeOK
<1>1. ArtInv => ArtTypeOK BY InvHasTypes
<1> QED BY <1>1, ArtInvHolds, PTL

\* A node listens to the universe that is routed, shows the higher levels of two sources and
\* those of one that is alone, and the outputs follow the inputs that are routed to them and
\* are dirty until they are sent: for any routes, mutes, frames and order of the dirty nodes
\* (handle_dmx, merge, RecvArtNet, SendArtNet, FlushArtNet).
THEOREM ArtNetIsSound == ArtSpec => []ArtNetSound
<1>1. ArtInv => ArtNetSound BY InvIsSound
<1> QED BY <1>1, ArtInvHolds, PTL
=============================================================================
