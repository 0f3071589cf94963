---------------------------- MODULE Devices_proofs ----------------------------
(***************************************************************************)
(* Proofs about the inputs and outputs of the other protocols: that the    *)
(* ring between the thread of the MIDI driver and the router's is a queue, *)
(* for any length of it; that the ports of the drivers are given back,     *)
(* whichever calls fail; what becomes of the parts of a MIDI message in    *)
(* the callbacks of every driver, and of a message in their calls that     *)
(* send; that the frames of trackers are shown that come whole; and that   *)
(* a resend repairs what a consumer of OTP has lost.                       *)
(***************************************************************************)
EXTENDS MidiQueue, MidiIn, MidiOut, MidiPorts, Psn, Otp, Induction, SequenceTheorems, TLAPS

-----------------------------------------------------------------------------
(* The ring: MidiQueue implements MidiFifo.                                *)

\* The slot i places after f, and how many messages lie from f up to b, and which.
Slot(f, i) == IF f + i < RingSize THEN f + i ELSE f + i - RingSize
Count(f, b) == IF b >= f THEN b - f ELSE RingSize - f + b
ContentsOf(r, f, b) == [i \in 1..Count(f, b) |-> r[Slot(f, i - 1)]]
Index == 0..RingSize - 1

LEMMA ModIsSlot ==
  ASSUME NEW f \in Index, NEW i \in 0..RingSize
  PROVE  (f + i) % RingSize = Slot(f, i)
<1>1. RingSize \in Nat \ {0} BY RingAssumption
<1> QED BY <1>1, SMT DEF Slot, Index

LEMMA CountAdds ==
  ASSUME NEW f \in Index, NEW b \in Index, Count(f, b) < RingSize - 1
  PROVE  Count(f, Slot(b, 1)) = Count(f, b) + 1 /\ Slot(f, Count(f, b)) = b /\ Slot(b, 1) \in Index
<1>1. RingSize \in Nat \ {0} BY RingAssumption
<1> QED BY <1>1 DEF Slot, Count, Index

LEMMA PushAppends ==
  ASSUME NEW S, NEW r \in [Index -> S], NEW f \in Index, NEW b \in Index, Count(f, b) < RingSize - 1
  PROVE  /\ Count(f, Slot(b, 1)) = Count(f, b) + 1
         /\ ContentsOf(r, f, Slot(b, 1)) = Append(ContentsOf(r, f, b), r[b])
<1>1. RingSize \in Nat \ {0} BY RingAssumption
<1>2. Count(f, Slot(b, 1)) = Count(f, b) + 1 /\ Count(f, b) \in Nat /\ Slot(f, Count(f, b)) = b
  BY <1>1 DEF Slot, Count, Index
<1>3. \A i \in 1..Count(f, b) : Slot(f, i - 1) \in Index BY <1>1 DEF Slot, Count, Index
<1>4. ContentsOf(r, f, b) \in Seq(S) /\ Len(ContentsOf(r, f, b)) = Count(f, b)
  BY <1>2, <1>3 DEF ContentsOf
<1>5. ContentsOf(r, f, Slot(b, 1)) = [i \in 1..Count(f, b) + 1 |-> r[Slot(f, i - 1)]]
  BY <1>2 DEF ContentsOf
<1>6. r[Slot(f, (Count(f, b) + 1) - 1)] = r[b] BY <1>2
<1> DEFINE c == ContentsOf(r, f, b)   n == Count(f, b)
<1>7. Append(c, r[b]) = [i \in 1..n + 1 |-> IF i <= n THEN c[i] ELSE r[b]] BY <1>4, <1>2
<1>8. \A i \in 1..n + 1 : r[Slot(f, i - 1)] = IF i <= n THEN c[i] ELSE r[b]
  BY <1>2, <1>6 DEF ContentsOf
<1> QED BY <1>2, <1>5, <1>7, <1>8

LEMMA CopyOutside ==
  ASSUME NEW r, NEW f \in Index, NEW b \in Index, NEW m
  PROVE  ContentsOf([r EXCEPT ![b] = m], f, b) = ContentsOf(r, f, b)
<1>1. RingSize \in Nat \ {0} BY RingAssumption
<1>2. \A i \in 1..Count(f, b) : Slot(f, i - 1) # b BY <1>1 DEF Slot, Count, Index
<1> QED BY <1>2 DEF ContentsOf

LEMMA CountDrops ==
  ASSUME NEW f \in Index, NEW b \in Index, Count(f, b) # 0
  PROVE  Slot(f, 1) \in Index /\ Count(Slot(f, 1), b) = Count(f, b) - 1
<1>1. RingSize \in Nat \ {0} BY RingAssumption
<1> QED BY <1>1 DEF Slot, Count, Index

LEMMA PopTakesHead ==
  ASSUME NEW S, NEW r \in [Index -> S], NEW f \in Index, NEW b \in Index, Count(f, b) # 0
  PROVE  /\ Count(Slot(f, 1), b) = Count(f, b) - 1
         /\ ContentsOf(r, f, b) # <<>> /\ Head(ContentsOf(r, f, b)) = r[f]
         /\ ContentsOf(r, Slot(f, 1), b) = Tail(ContentsOf(r, f, b))
<1>1. RingSize \in Nat \ {0} BY RingAssumption
<1> DEFINE c == ContentsOf(r, f, b)   n == Count(f, b)
<1>2. Count(Slot(f, 1), b) = n - 1 /\ n \in Nat \ {0} /\ Slot(f, 0) = f
  BY <1>1 DEF Slot, Count, Index
<1>3. \A i \in 1..n : Slot(f, i - 1) \in Index BY <1>1 DEF Slot, Count, Index
<1>4. c \in Seq(S) /\ Len(c) = n BY <1>2, <1>3 DEF ContentsOf
<1>5. c # <<>> /\ Head(c) = r[f] BY <1>2, <1>4 DEF ContentsOf
<1>6. Tail(c) = [i \in 1..n - 1 |-> c[i + 1]]
  <2> HIDE DEF c, n
  <2>1. Tail(c) \in Seq(S) /\ Len(Tail(c)) = n - 1 /\ \A i \in 1..n - 1 : Tail(c)[i] = c[i + 1]
    BY <1>4, <1>5, HeadTailProperties
  <2>2. Tail(c) = [i \in 1..n - 1 |-> Tail(c)[i]] BY <2>1, LenProperties
  <2> QED BY <2>1, <2>2
<1>7. \A i \in 1..n - 1 : Slot(Slot(f, 1), i - 1) = Slot(f, (i + 1) - 1)
  BY <1>1 DEF Slot, Count, Index
<1>8. \A i \in 1..n - 1 : c[i + 1] = r[Slot(Slot(f, 1), i - 1)] BY <1>2, <1>7 DEF ContentsOf
<1>9. ContentsOf(r, Slot(f, 1), b) = [i \in 1..n - 1 |-> r[Slot(Slot(f, 1), i - 1)]]
  BY <1>2 DEF ContentsOf
<1> QED BY <1>2, <1>5, <1>6, <1>8, <1>9

\* Between the steps of push and pop: there is room for the message that is being pushed, and
\* after its slot was written only the index is left to be moved; and every slot between the
\* indices has been written as a whole.
RingInv ==
  /\ RingTypeOK
  /\ pusher.at # "idle" => pusher.message \in RingMessage /\ Count(front, back) < RingSize - 1
  /\ pusher.at = "index" => ring[back] = pusher.message
  /\ popper.at # "idle" => Count(front, back) # 0
  /\ popper.at = "index" => popper.message = ring[front]
  /\ \A i \in 1..Count(front, back) : ring[Slot(front, i - 1)] \in RingMessage

LEMMA RingInitInv == RingInit => RingInv
<1> SUFFICES ASSUME RingInit PROVE RingInv OBVIOUS
<1>1. RingSize \in Nat \ {0} BY RingAssumption
<1>2. Count(front, back) = 0 BY <1>1 DEF RingInit, Count
<1> QED BY <1>1, <1>2 DEF RingInit, RingInv, RingTypeOK

LEMMA CountType ==
  ASSUME NEW f \in Index, NEW b \in Index
  PROVE  Count(f, b) \in 0..RingSize - 1 /\ Slot(f, 1) \in Index
<1> QED BY RingAssumption DEF Count, Index, Slot

\* Each step of push and pop keeps this.
LEMMA RingStep == RingInv /\ [RingNext]_ringVars => RingInv'
<1> SUFFICES ASSUME RingInv, [RingNext]_ringVars PROVE RingInv' OBVIOUS
<1> USE DEF RingInv
<1>0. RingSize \in Nat \ {0} BY RingAssumption
<1>t. front \in Index /\ back \in Index /\ ring \in [Index -> RingMessage \cup {NoRingMessage, Torn}]
  BY DEF RingTypeOK, Index
<1>c. RingCount = Count(front, back) BY DEF RingCount, Count
<1>m. (back + 1) % RingSize = Slot(back, 1) /\ (front + 1) % RingSize = Slot(front, 1)
  BY <1>0, <1>t, ModIsSlot
<1>1. ASSUME NEW m \in RingMessage, PushStart(m) PROVE RingInv'
  <2>1. CASE HasRoom(RingCount)
    <3>1. pusher' = [at |-> "copy", message |-> m] /\ UNCHANGED <<ring, front, back, popper, popped, pushed>>
      BY <1>1, <2>1 DEF PushStart
    <3> QED BY <2>1, <3>1, <1>c DEF RingTypeOK, HasRoom
  <2>2. CASE ~HasRoom(RingCount)
    <3>1. pushed' = FALSE /\ UNCHANGED <<ring, front, back, popper, popped, pusher>>
      BY <1>1, <2>2 DEF PushStart
    <3> QED BY <3>1 DEF RingTypeOK
  <2> QED BY <2>1, <2>2
<1>2. CASE PushCopy
  <2>1. \A i \in 1..Count(front, back) : Slot(front, i - 1) \in Index /\ Slot(front, i - 1) # back
    BY <1>0, <1>t DEF Slot, Count, Index
  <2>2. RingTypeOK' BY <1>2, <1>t DEF PushCopy, RingTypeOK, Index
  <2>3. popper.at = "index" => front # back BY <1>0, <1>t DEF Count, Index
  <2>4. (\A i \in 1..Count(front, back) : ring[Slot(front, i - 1)] \in RingMessage)'
    BY <1>2, <1>t, <2>1 DEF PushCopy
  <2> QED BY <1>2, <1>t, <2>2, <2>3, <2>4 DEF PushCopy, RingTypeOK
<1>3. CASE PushCopied
  <2>1. \A i \in 1..Count(front, back) : Slot(front, i - 1) \in Index /\ Slot(front, i - 1) # back
    BY <1>0, <1>t DEF Slot, Count, Index
  <2>2. RingTypeOK' BY <1>3, <1>t DEF PushCopied, RingTypeOK, Index
  <2>3. popper.at = "index" => front # back BY <1>0, <1>t DEF Count, Index
  <2>4. (\A i \in 1..Count(front, back) : ring[Slot(front, i - 1)] \in RingMessage)'
    BY <1>3, <1>t, <2>1 DEF PushCopied
  <2> QED BY <1>3, <1>t, <2>2, <2>3, <2>4 DEF PushCopied, RingTypeOK
<1>4. CASE PushIndex
  <2>1. back' = Slot(back, 1) BY <1>4, <1>m DEF PushIndex
  <2>2. back' \in Index /\ Count(front, back') = Count(front, back) + 1 /\ Slot(front, Count(front, back)) = back
    <3>1. pusher.at # "idle" BY <1>4 DEF PushIndex
    <3>2. Count(front, back) < RingSize - 1 BY <3>1
    <3> QED BY <1>t, <2>1, <3>2, CountAdds
  <2>3. RingTypeOK' BY <1>4, <2>2 DEF PushIndex, RingTypeOK, Index
  <2>4. \A i \in 1..Count(front, back') : ring[Slot(front, i - 1)] \in RingMessage
    <3>1. SUFFICES ASSUME NEW i \in 1..Count(front, back') PROVE ring[Slot(front, i - 1)] \in RingMessage
      OBVIOUS
    <3>2. CASE i <= Count(front, back) BY <3>2, <1>t, CountType
    <3>3. CASE i > Count(front, back)
      <4>0. Count(front, back) \in Nat BY <1>t, CountType
      <4>1. i - 1 = Count(front, back) BY <3>3, <2>2, <4>0
      <4> QED BY <4>1, <2>2, <1>4 DEF PushIndex
    <3> QED BY <3>2, <3>3, <1>t, CountType
  <2>5. Count(front, back) + 1 # 0 BY <1>t, CountType
  <2> QED BY <1>4, <2>2, <2>3, <2>4, <2>5 DEF PushIndex, RingTypeOK
<1>5. CASE PopStart
  BY <1>5, <1>c DEF PopStart, RingTypeOK
<1>6. CASE PopCopy
  <2>1. Slot(front, 0) = front /\ 1 \in 1..Count(front, back)
    BY <1>0, <1>t, <1>6 DEF PopCopy, Slot, Count, Index
  <2>2. ring[front] \in RingMessage BY <2>1
  <2> QED BY <1>6, <2>2 DEF PopCopy, RingTypeOK
<1>7. CASE PopIndex
  <2>1. front' = Slot(front, 1) BY <1>7, <1>m DEF PopIndex
  <2>2. front' \in Index /\ Count(front', back) = Count(front, back) - 1
    <3>1. Count(front, back) # 0 BY <1>7 DEF PopIndex
    <3>2. back' = back BY <1>7 DEF PopIndex
    <3> QED BY <1>t, <2>1, <3>1, <3>2, CountDrops
  <2>3. RingTypeOK' BY <1>7, <2>2 DEF PopIndex, RingTypeOK, Index
  <2>4. \A i \in 1..Count(front', back) : i + 1 \in 1..Count(front, back)
                                         /\ Slot(front', i - 1) = Slot(front, (i + 1) - 1)
    BY <2>1, <2>2, <1>0, <1>t DEF Slot, Count, Index
  <2>5. \A i \in 1..Count(front', back) : ring[Slot(front', i - 1)] \in RingMessage
    BY <2>4
  <2>6. Count(front, back) < RingSize - 1 => Count(front, back) - 1 < RingSize - 1
    BY <1>0, <1>t, CountType
  <2> QED BY <1>7, <2>2, <2>3, <2>5, <2>6 DEF PopIndex, RingTypeOK
<1>8. CASE UNCHANGED ringVars BY <1>8 DEF ringVars, RingTypeOK
<1> QED BY <1>1, <1>2, <1>3, <1>4, <1>5, <1>6, <1>7, <1>8 DEF RingNext

\* MidiInApi::MidiQueue: whatever the order of the steps of push and pop, by two threads, the
\* indices stay in the ring and what is read was written.
THEOREM RingTypes == RingSpec => []RingTypeOK
<1>1. RingInv => RingTypeOK BY DEF RingInv
<1> QED BY <1>1, RingInitInv, RingStep, PTL DEF RingSpec

LEMMA RingContentsAre ==
  ASSUME RingTypeOK PROVE RingContents = ContentsOf(ring, front, back)
<1>1. RingSize \in Nat \ {0} BY RingAssumption
<1>2. front \in Index /\ RingCount = Count(front, back)
  BY DEF RingTypeOK, Index, RingCount, Count
<1>3. \A i \in 1..RingCount : (front + i - 1) % RingSize = Slot(front, i - 1)
  <2>1. SUFFICES ASSUME NEW i \in 1..RingCount PROVE (front + i - 1) % RingSize = Slot(front, i - 1)
    OBVIOUS
  <2>2. i - 1 \in 0..RingSize /\ front + i - 1 = front + (i - 1)
    BY <1>1, <1>2 DEF RingTypeOK, Index, Count
  <2> QED BY <1>2, <2>2, ModIsSlot
<1> QED BY <1>2, <1>3 DEF RingContents, ContentsOf

\* push takes effect when it moves `back`, pop when it moves `front`.
LEMMA RingStepRefines == RingInv /\ RingInv' /\ [RingNext]_ringVars => [Fifo!FifoNext]_Fifo!fifoVars
<1> SUFFICES ASSUME RingInv, RingInv', [RingNext]_ringVars PROVE [Fifo!FifoNext]_Fifo!fifoVars OBVIOUS
<1>0. RingSize \in Nat \ {0} BY RingAssumption
<1>t. front \in Index /\ back \in Index /\ ring \in [Index -> RingMessage \cup {NoRingMessage, Torn}]
  BY DEF RingInv, RingTypeOK, Index
<1>c. RingCount = Count(front, back) BY DEF RingCount, Count
<1>d. RingContents = ContentsOf(ring, front, back) /\ RingContents' = ContentsOf(ring', front', back')
  <2>1. RingTypeOK /\ RingTypeOK' BY DEF RingInv
  <2>2. RingContents = ContentsOf(ring, front, back) BY <2>1, RingContentsAre
  <2>3. (RingContents = ContentsOf(ring, front, back))' BY <2>1, RingContentsAre, PTL
  <2> QED BY <2>2, <2>3
<1>m. (back + 1) % RingSize = Slot(back, 1) /\ (front + 1) % RingSize = Slot(front, 1)
  BY <1>0, <1>t, ModIsSlot
<1>l. Count(front, back) \in 0..RingSize - 1 /\ Len(RingContents) = Count(front, back)
      /\ (RingContents = <<>> <=> Count(front, back) = 0)
  <2>1. Count(front, back) \in 0..RingSize - 1 BY <1>t, CountType
  <2>2. RingContents = [i \in 1..Count(front, back) |-> RingContents[i]] BY <1>d DEF ContentsOf
  <2>3. Len(RingContents) = Count(front, back) BY <2>1, <2>2
  <2>4. RingContents = <<>> => Count(front, back) = 0 BY <2>3
  <2>5. Count(front, back) = 0 => RingContents = <<>> BY <2>2
  <2> QED BY <2>1, <2>3, <2>4, <2>5
<1> USE DEF Fifo!FifoNext, Fifo!fifoVars
<1>1. ASSUME NEW m \in RingMessage, PushStart(m) PROVE [Fifo!FifoNext]_Fifo!fifoVars
  <2>1. RingContents' = RingContents BY <1>1, <1>d DEF PushStart
  <2>2. CASE HasRoom(RingCount) BY <1>1, <2>1, <2>2 DEF PushStart
  <2>3. CASE ~HasRoom(RingCount)
    <3>1. Len(RingContents) = RingSize - 1 BY <1>c, <1>l, <1>0, <2>3 DEF HasRoom
    <3>2. Fifo!FifoRefuse BY <1>1, <2>1, <2>3, <3>1 DEF PushStart, Fifo!FifoRefuse
    <3> QED BY <3>2
  <2> QED BY <2>2, <2>3
<1>2. CASE PushCopy \/ PushCopied
  <2>1. UNCHANGED <<front, back, pushed, popped>> BY <1>2 DEF PushCopy, PushCopied
  <2>2. RingContents' = RingContents
    <3>1. CASE PushCopy
      <4>1. ring' = [ring EXCEPT ![back] = Torn] BY <3>1 DEF PushCopy
      <4> QED BY <1>d, <1>t, <2>1, <4>1, CopyOutside
    <3>2. CASE PushCopied
      <4>1. ring' = [ring EXCEPT ![back] = pusher.message] BY <3>2 DEF PushCopied
      <4> QED BY <1>d, <1>t, <2>1, <4>1, CopyOutside
    <3> QED BY <1>2, <3>1, <3>2
  <2> QED BY <2>1, <2>2
<1>3. CASE PushIndex
  <2>1. Count(front, back) < RingSize - 1 /\ pusher.message \in RingMessage /\ ring[back] = pusher.message
    BY <1>3 DEF PushIndex, RingInv
  <2>2. RingContents' = Append(RingContents, ring[back])
    BY <1>3, <1>d, <1>t, <1>m, <2>1, PushAppends DEF PushIndex
  <2>3. Fifo!FifoPush(pusher.message) BY <1>3, <1>l, <2>1, <2>2 DEF PushIndex, Fifo!FifoPush
  <2> QED BY <2>1, <2>3
<1>4. CASE PopStart
  <2>1. RingContents' = RingContents BY <1>4, <1>d DEF PopStart
  <2>2. CASE RingCount = 0
    <3>1. Fifo!FifoEmpty BY <1>4, <1>c, <1>l, <2>1, <2>2 DEF PopStart, Fifo!FifoEmpty
    <3> QED BY <3>1
  <2>3. CASE RingCount # 0 BY <1>4, <2>1, <2>3 DEF PopStart
  <2> QED BY <2>2, <2>3
<1>5. CASE PopCopy
  <2>1. RingContents' = RingContents BY <1>5, <1>d DEF PopCopy
  <2> QED BY <1>5, <2>1 DEF PopCopy
<1>6. CASE PopIndex
  <2>1. Count(front, back) # 0 /\ popper.message = ring[front]
    BY <1>6 DEF PopIndex, RingInv
  <2>2. /\ RingContents # <<>> /\ Head(RingContents) = ring[front]
        /\ RingContents' = Tail(RingContents)
    BY <1>6, <1>d, <1>t, <1>m, <2>1, PopTakesHead DEF PopIndex
  <2>3. Fifo!FifoPop BY <1>6, <2>1, <2>2 DEF PopIndex, Fifo!FifoPop
  <2> QED BY <2>3
<1>7. CASE UNCHANGED ringVars
  <2>1. RingContents' = RingContents BY <1>7, <1>d DEF ringVars
  <2> QED BY <1>7, <2>1 DEF ringVars
<1> QED BY <1>1, <1>2, <1>3, <1>4, <1>5, <1>6, <1>7 DEF RingNext

LEMMA RingInitRefines == RingInit => Fifo!FifoInit
<1> SUFFICES ASSUME RingInit PROVE Fifo!FifoInit OBVIOUS
<1>1. RingSize \in Nat \ {0} BY RingAssumption
<1>2. RingCount = 0 BY <1>1 DEF RingInit, RingCount
<1> QED BY <1>2 DEF RingInit, RingContents, Fifo!FifoInit

\* MidiInApi::MidiQueue::push and pop, without a lock, are a queue of RingSize - 1 messages for
\* one thread that pushes and one that pops: a message is given out whole, once, in its turn,
\* and is refused only if the queue is full.
THEOREM RingImplementsFifo == RingSpec => RingIsFifo
<1> QED BY RingInitInv, RingStep, RingInitRefines, RingStepRefines, PTL
        DEF RingSpec, RingIsFifo, Fifo!FifoSpec

-----------------------------------------------------------------------------
(* The ports.  What a class acquires and releases is a table, of which     *)
(* ClassFacts is checked entry by entry; the rest follows from it.         *)

\* What the first n calls of a list acquire.
Made(calls, n) == {calls[i] : i \in 1..n} \ Lookups
\* What is released when the n-th call of openPort fails.
Undone(class, n) ==
  IF n > 1 /\ class.open[n] \in DOMAIN class.undo THEN class.undo[class.open[n]] ELSE {}
Closing(class) == class.closed \cup class.destroy
Built(class) == Made(class.construct, Len(class.construct))

\* What is left when the n-th call of openPort fails, if it can, is released by the destructor or
\* known to be lost, and what is released then was acquired, or is known to be released all the same.
FailsClean(class, lost, freed, n) ==
  class.open[n] \notin NeverFails =>
    /\ Undone(class, n) \ (Made(class.open, n - 1) \ Ignorable) \subseteq freed
    /\ (Built(class) \cup Made(class.open, n - 1)) \ Undone(class, n) \subseteq Closing(class) \cup lost

\* What a call acquires is not held already, but for a client and for what is known to be lost.
Anew(call, held, lost) == Acquired(call) \cap held \subseteq lost \cup {"client"}

\* What every class has to get right.
ClassFacts(class, lost, freed) ==
  /\ DOMAIN class.construct = 1..Len(class.construct) /\ Len(class.construct) \in 0..6
  /\ DOMAIN class.open = 1..Len(class.open) /\ Len(class.open) \in 0..6
  /\ Built(class) \cup Made(class.open, Len(class.open)) \subseteq class.connected \cup Closing(class)
  /\ \A n \in 1..Len(class.construct) :
       /\ class.construct[n] \notin Ignorable \cup NeverFails => Made(class.construct, n - 1) \subseteq lost
       /\ Anew(class.construct[n], Made(class.construct, n - 1), lost)
  /\ \A n \in 1..Len(class.open) :
       /\ FailsClean(class, lost, freed, n)
       /\ Anew(class.open[n], Built(class) \cup Made(class.open, n - 1), lost)
  /\ class.blind \subseteq freed

\* The same, call by call.
LEMMA MadeIs ==
  ASSUME NEW c
  PROVE  /\ Made(c, 0) = {}
         /\ Made(c, 1) = {c[1]} \ Lookups
         /\ Made(c, 2) = {c[1], c[2]} \ Lookups
         /\ Made(c, 3) = {c[1], c[2], c[3]} \ Lookups
         /\ Made(c, 4) = {c[1], c[2], c[3], c[4]} \ Lookups
         /\ Made(c, 5) = {c[1], c[2], c[3], c[4], c[5]} \ Lookups
         /\ Made(c, 6) = {c[1], c[2], c[3], c[4], c[5], c[6]} \ Lookups
BY DEF Made

\* The lists have at most six calls.
LEMMA Small ==
  ASSUME NEW k \in 0..6, NEW n \in 1..k
  PROVE  \/ n = 1 /\ n - 1 = 0 /\ k >= 1
         \/ n = 2 /\ n - 1 = 1 /\ k >= 2
         \/ n = 3 /\ n - 1 = 2 /\ k >= 3
         \/ n = 4 /\ n - 1 = 3 /\ k >= 4
         \/ n = 5 /\ n - 1 = 4 /\ k >= 5
         \/ n = 6 /\ n - 1 = 5 /\ k >= 6
OBVIOUS

LEMMA NextInRange == \A d \in Nat, k \in 0..6 : d < k => d + 1 \in 0..6
OBVIOUS

LEMMA AlsaInFacts == ClassFacts(AlsaIn, {"seq"}, {"queue"})
<1> DEFINE c == AlsaIn.construct   o == AlsaIn.open
<1>1. /\ Len(c) = 3 /\ c[1] = "seq" /\ c[2] = "pipe" /\ c[3] = "queue"
      /\ Len(o) = 5 /\ o[1] = "find" /\ o[2] = "vport" /\ o[3] = "subscription" /\ o[4] = "subscribe" /\ o[5] = "thread"
  BY DEF AlsaIn, AlsaInNew, AlsaInOpen
<1>2. /\ AlsaIn.connected = {"subscription"} /\ AlsaIn.closed = {"thread"}
      /\ AlsaIn.destroy = {"pipe", "vport", "queue", "seq"} /\ AlsaIn.blind = {"queue"}
  BY DEF AlsaIn
<1>3. /\ DOMAIN AlsaIn.undo = {"subscribe", "thread"}
      /\ AlsaIn.undo["subscribe"] = {"subscription"}
      /\ AlsaIn.undo["thread"] = {"subscription"}
  BY DEF AlsaIn
<1>4. /\ Undone(AlsaIn, 1) = {}
      /\ Undone(AlsaIn, 2) = {}
      /\ Undone(AlsaIn, 3) = {}
      /\ Undone(AlsaIn, 4) = {"subscription"}
      /\ Undone(AlsaIn, 5) = {"subscription"}
  BY <1>1, <1>3 DEF Undone
<1>b. Built(AlsaIn) = {"seq", "pipe", "queue"} BY <1>1, MadeIs DEF Built, Lookups
<1>d. DOMAIN c = 1..Len(c) /\ DOMAIN o = 1..Len(o) BY DEF AlsaIn, AlsaInNew, AlsaInOpen
<1> HIDE DEF c, o
<1>5. \A n \in 1..Len(c) : /\ c[n] \notin Ignorable \cup NeverFails => Made(c, n - 1) \subseteq {"seq"}
                         /\ Anew(c[n], Made(c, n - 1), {"seq"})
  BY <1>1, MadeIs, Small DEF Ignorable, NeverFails, Anew, Acquired, Lookups
<1>6. \A n \in 1..Len(o) : FailsClean(AlsaIn, {"seq"}, {"queue"}, n)
  BY <1>1, <1>2, <1>4, <1>b, MadeIs, Small DEF FailsClean, NeverFails, Ignorable, Lookups, Closing, o
<1>7. \A n \in 1..Len(o) : Anew(o[n], Built(AlsaIn) \cup Made(o, n - 1), {"seq"})
  BY <1>1, <1>b, MadeIs, Small DEF Anew, Acquired, Lookups
<1>8. Built(AlsaIn) \cup Made(o, Len(o)) \subseteq AlsaIn.connected \cup Closing(AlsaIn)
  BY <1>1, <1>2, <1>b, MadeIs DEF Closing, Lookups
<1> QED BY <1>1, <1>2, <1>d, <1>5, <1>6, <1>7, <1>8 DEF ClassFacts, c, o

LEMMA AlsaOutFacts == ClassFacts(AlsaOut, {"seq", "coder"}, {"subscription"})
<1> DEFINE c == AlsaOut.construct   o == AlsaOut.open
<1>1. /\ Len(c) = 3 /\ c[1] = "seq" /\ c[2] = "coder" /\ c[3] = "buffer"
      /\ Len(o) = 4 /\ o[1] = "find" /\ o[2] = "vport" /\ o[3] = "subscription" /\ o[4] = "subscribe"
  BY DEF AlsaOut, AlsaOutNew, AlsaOutOpen
<1>2. /\ AlsaOut.connected = {"subscription"} /\ AlsaOut.closed = {}
      /\ AlsaOut.destroy = {"vport", "coder", "buffer", "seq"} /\ AlsaOut.blind = {}
  BY DEF AlsaOut
<1>3. /\ DOMAIN AlsaOut.undo = {"subscription", "subscribe"}
      /\ AlsaOut.undo["subscription"] = {"subscription"}
      /\ AlsaOut.undo["subscribe"] = {"subscription"}
  BY DEF AlsaOut
<1>4. /\ Undone(AlsaOut, 1) = {}
      /\ Undone(AlsaOut, 2) = {}
      /\ Undone(AlsaOut, 3) = {"subscription"}
      /\ Undone(AlsaOut, 4) = {"subscription"}
  BY <1>1, <1>3 DEF Undone
<1>b. Built(AlsaOut) = {"seq", "coder", "buffer"} BY <1>1, MadeIs DEF Built, Lookups
<1>d. DOMAIN c = 1..Len(c) /\ DOMAIN o = 1..Len(o) BY DEF AlsaOut, AlsaOutNew, AlsaOutOpen
<1> HIDE DEF c, o
<1>5. \A n \in 1..Len(c) : /\ c[n] \notin Ignorable \cup NeverFails => Made(c, n - 1) \subseteq {"seq", "coder"}
                         /\ Anew(c[n], Made(c, n - 1), {"seq", "coder"})
  BY <1>1, MadeIs, Small DEF Ignorable, NeverFails, Anew, Acquired, Lookups
<1>6. \A n \in 1..Len(o) : FailsClean(AlsaOut, {"seq", "coder"}, {"subscription"}, n)
  BY <1>1, <1>2, <1>4, <1>b, MadeIs, Small DEF FailsClean, NeverFails, Ignorable, Lookups, Closing, o
<1>7. \A n \in 1..Len(o) : Anew(o[n], Built(AlsaOut) \cup Made(o, n - 1), {"seq", "coder"})
  BY <1>1, <1>b, MadeIs, Small DEF Anew, Acquired, Lookups
<1>8. Built(AlsaOut) \cup Made(o, Len(o)) \subseteq AlsaOut.connected \cup Closing(AlsaOut)
  BY <1>1, <1>2, <1>b, MadeIs DEF Closing, Lookups
<1> QED BY <1>1, <1>2, <1>d, <1>5, <1>6, <1>7, <1>8 DEF ClassFacts, c, o

LEMMA CoreInFacts == ClassFacts(CoreIn, {}, {"port"})
<1> DEFINE c == CoreIn.construct   o == CoreIn.open
<1>1. /\ Len(c) = 0
      /\ Len(o) = 4 /\ o[1] = "find" /\ o[2] = "port" /\ o[3] = "find" /\ o[4] = "connect"
  BY DEF CoreIn, CoreInOpen
<1>2. /\ CoreIn.connected = {} /\ CoreIn.closed = {"port"}
      /\ CoreIn.destroy = {} /\ CoreIn.blind = {"port"}
  BY DEF CoreIn
<1>3. /\ DOMAIN CoreIn.undo = {"find", "connect"}
      /\ CoreIn.undo["find"] = {"port"}
      /\ CoreIn.undo["connect"] = {"port"}
  BY DEF CoreIn
<1>4. /\ Undone(CoreIn, 1) = {}
      /\ Undone(CoreIn, 2) = {}
      /\ Undone(CoreIn, 3) = {"port"}
      /\ Undone(CoreIn, 4) = {"port"}
  BY <1>1, <1>3 DEF Undone
<1>b. Built(CoreIn) = {} BY <1>1, MadeIs DEF Built, Lookups
<1>d. DOMAIN c = 1..Len(c) /\ DOMAIN o = 1..Len(o) BY DEF CoreIn, CoreInOpen
<1> HIDE DEF c, o
<1>5. \A n \in 1..Len(c) : /\ c[n] \notin Ignorable \cup NeverFails => Made(c, n - 1) \subseteq {}
                         /\ Anew(c[n], Made(c, n - 1), {})
  BY <1>1, MadeIs, Small DEF Ignorable, NeverFails, Anew, Acquired, Lookups
<1>6. \A n \in 1..Len(o) : FailsClean(CoreIn, {}, {"port"}, n)
  BY <1>1, <1>2, <1>4, <1>b, MadeIs, Small DEF FailsClean, NeverFails, Ignorable, Lookups, Closing, o
<1>7. \A n \in 1..Len(o) : Anew(o[n], Built(CoreIn) \cup Made(o, n - 1), {})
  BY <1>1, <1>b, MadeIs, Small DEF Anew, Acquired, Lookups
<1>8. Built(CoreIn) \cup Made(o, Len(o)) \subseteq CoreIn.connected \cup Closing(CoreIn)
  BY <1>1, <1>2, <1>b, MadeIs DEF Closing, Lookups
<1> QED BY <1>1, <1>2, <1>d, <1>5, <1>6, <1>7, <1>8 DEF ClassFacts, c, o

LEMMA CoreOutFacts == ClassFacts(CoreOut, {}, {"port"})
<1> DEFINE c == CoreOut.construct   o == CoreOut.open
<1>1. /\ Len(c) = 0
      /\ Len(o) = 3 /\ o[1] = "find" /\ o[2] = "port" /\ o[3] = "find"
  BY DEF CoreOut, CoreOutOpen
<1>2. /\ CoreOut.connected = {} /\ CoreOut.closed = {"port"}
      /\ CoreOut.destroy = {} /\ CoreOut.blind = {"port"}
  BY DEF CoreOut
<1>3. /\ DOMAIN CoreOut.undo = {"find"}
      /\ CoreOut.undo["find"] = {"port"}
  BY DEF CoreOut
<1>4. /\ Undone(CoreOut, 1) = {}
      /\ Undone(CoreOut, 2) = {}
      /\ Undone(CoreOut, 3) = {"port"}
  BY <1>1, <1>3 DEF Undone
<1>b. Built(CoreOut) = {} BY <1>1, MadeIs DEF Built, Lookups
<1>d. DOMAIN c = 1..Len(c) /\ DOMAIN o = 1..Len(o) BY DEF CoreOut, CoreOutOpen
<1> HIDE DEF c, o
<1>5. \A n \in 1..Len(c) : /\ c[n] \notin Ignorable \cup NeverFails => Made(c, n - 1) \subseteq {}
                         /\ Anew(c[n], Made(c, n - 1), {})
  BY <1>1, MadeIs, Small DEF Ignorable, NeverFails, Anew, Acquired, Lookups
<1>6. \A n \in 1..Len(o) : FailsClean(CoreOut, {}, {"port"}, n)
  BY <1>1, <1>2, <1>4, <1>b, MadeIs, Small DEF FailsClean, NeverFails, Ignorable, Lookups, Closing, o
<1>7. \A n \in 1..Len(o) : Anew(o[n], Built(CoreOut) \cup Made(o, n - 1), {})
  BY <1>1, <1>b, MadeIs, Small DEF Anew, Acquired, Lookups
<1>8. Built(CoreOut) \cup Made(o, Len(o)) \subseteq CoreOut.connected \cup Closing(CoreOut)
  BY <1>1, <1>2, <1>b, MadeIs DEF Closing, Lookups
<1> QED BY <1>1, <1>2, <1>d, <1>5, <1>6, <1>7, <1>8 DEF ClassFacts, c, o

LEMMA WinMMInFacts == ClassFacts(WinMMIn, {"buffers"}, {"mutex"})
<1> DEFINE c == WinMMIn.construct   o == WinMMIn.open
<1>1. /\ Len(c) = 1 /\ c[1] = "mutex"
      /\ Len(o) = 6 /\ o[1] = "find" /\ o[2] = "handle" /\ o[3] = "buffers" /\ o[4] = "prepare" /\ o[5] = "add" /\ o[6] = "start"
  BY DEF WinMMIn, WinMMInNew, WinMMInOpen
<1>2. /\ WinMMIn.connected = {"buffers", "handle"} /\ WinMMIn.closed = {}
      /\ WinMMIn.destroy = {"mutex"} /\ WinMMIn.blind = {"mutex"}
  BY DEF WinMMIn
<1>3. /\ DOMAIN WinMMIn.undo = {"prepare", "add", "start"}
      /\ WinMMIn.undo["prepare"] = {"handle"}
      /\ WinMMIn.undo["add"] = {"handle"}
      /\ WinMMIn.undo["start"] = {"handle"}
  BY DEF WinMMIn
<1>4. /\ Undone(WinMMIn, 1) = {}
      /\ Undone(WinMMIn, 2) = {}
      /\ Undone(WinMMIn, 3) = {}
      /\ Undone(WinMMIn, 4) = {"handle"}
      /\ Undone(WinMMIn, 5) = {"handle"}
      /\ Undone(WinMMIn, 6) = {"handle"}
  BY <1>1, <1>3 DEF Undone
<1>b. Built(WinMMIn) = {"mutex"} BY <1>1, MadeIs DEF Built, Lookups
<1>d. DOMAIN c = 1..Len(c) /\ DOMAIN o = 1..Len(o) BY DEF WinMMIn, WinMMInNew, WinMMInOpen
<1> HIDE DEF c, o
<1>5. \A n \in 1..Len(c) : /\ c[n] \notin Ignorable \cup NeverFails => Made(c, n - 1) \subseteq {"buffers"}
                         /\ Anew(c[n], Made(c, n - 1), {"buffers"})
  BY <1>1, MadeIs, Small DEF Ignorable, NeverFails, Anew, Acquired, Lookups
<1>6. \A n \in 1..Len(o) : FailsClean(WinMMIn, {"buffers"}, {"mutex"}, n)
  BY <1>1, <1>2, <1>4, <1>b, MadeIs, Small DEF FailsClean, NeverFails, Ignorable, Lookups, Closing, o
<1>7. \A n \in 1..Len(o) : Anew(o[n], Built(WinMMIn) \cup Made(o, n - 1), {"buffers"})
  BY <1>1, <1>b, MadeIs, Small DEF Anew, Acquired, Lookups
<1>8. Built(WinMMIn) \cup Made(o, Len(o)) \subseteq WinMMIn.connected \cup Closing(WinMMIn)
  BY <1>1, <1>2, <1>b, MadeIs DEF Closing, Lookups
<1> QED BY <1>1, <1>2, <1>d, <1>5, <1>6, <1>7, <1>8 DEF ClassFacts, c, o

LEMMA WinMMOutFacts == ClassFacts(WinMMOut, {}, {})
<1> DEFINE c == WinMMOut.construct   o == WinMMOut.open
<1>1. /\ Len(c) = 0
      /\ Len(o) = 2 /\ o[1] = "find" /\ o[2] = "handle"
  BY DEF WinMMOut, WinMMOutOpen
<1>2. /\ WinMMOut.connected = {"handle"} /\ WinMMOut.closed = {}
      /\ WinMMOut.destroy = {} /\ WinMMOut.blind = {}
  BY DEF WinMMOut
<1>3. DOMAIN WinMMOut.undo = {}
  BY DEF WinMMOut, NoUndo
<1>4. /\ Undone(WinMMOut, 1) = {}
      /\ Undone(WinMMOut, 2) = {}
  BY <1>1, <1>3 DEF Undone
<1>b. Built(WinMMOut) = {} BY <1>1, MadeIs DEF Built, Lookups
<1>d. DOMAIN c = 1..Len(c) /\ DOMAIN o = 1..Len(o) BY DEF WinMMOut, WinMMOutOpen
<1> HIDE DEF c, o
<1>5. \A n \in 1..Len(c) : /\ c[n] \notin Ignorable \cup NeverFails => Made(c, n - 1) \subseteq {}
                         /\ Anew(c[n], Made(c, n - 1), {})
  BY <1>1, MadeIs, Small DEF Ignorable, NeverFails, Anew, Acquired, Lookups
<1>6. \A n \in 1..Len(o) : FailsClean(WinMMOut, {}, {}, n)
  BY <1>1, <1>2, <1>4, <1>b, MadeIs, Small DEF FailsClean, NeverFails, Ignorable, Lookups, Closing, o
<1>7. \A n \in 1..Len(o) : Anew(o[n], Built(WinMMOut) \cup Made(o, n - 1), {})
  BY <1>1, <1>b, MadeIs, Small DEF Anew, Acquired, Lookups
<1>8. Built(WinMMOut) \cup Made(o, Len(o)) \subseteq WinMMOut.connected \cup Closing(WinMMOut)
  BY <1>1, <1>2, <1>b, MadeIs DEF Closing, Lookups
<1> QED BY <1>1, <1>2, <1>d, <1>5, <1>6, <1>7, <1>8 DEF ClassFacts, c, o

LEMMA JackInFacts == ClassFacts(JackIn, {}, {})
<1> DEFINE c == JackIn.construct   o == JackIn.open
<1>1. /\ Len(c) = 2 /\ c[1] = "client" /\ c[2] = "client"
      /\ Len(o) = 2 /\ o[1] = "client" /\ o[2] = "port"
  BY DEF JackIn, JackInNew, JackInOpen
<1>2. /\ JackIn.connected = {} /\ JackIn.closed = {"port"}
      /\ JackIn.destroy = {"client"} /\ JackIn.blind = {}
  BY DEF JackIn
<1>3. DOMAIN JackIn.undo = {}
  BY DEF JackIn, NoUndo
<1>4. /\ Undone(JackIn, 1) = {}
      /\ Undone(JackIn, 2) = {}
  BY <1>1, <1>3 DEF Undone
<1>b. Built(JackIn) = {"client"} BY <1>1, MadeIs DEF Built, Lookups
<1>d. DOMAIN c = 1..Len(c) /\ DOMAIN o = 1..Len(o) BY DEF JackIn, JackInNew, JackInOpen
<1> HIDE DEF c, o
<1>5. \A n \in 1..Len(c) : /\ c[n] \notin Ignorable \cup NeverFails => Made(c, n - 1) \subseteq {}
                         /\ Anew(c[n], Made(c, n - 1), {})
  BY <1>1, MadeIs, Small DEF Ignorable, NeverFails, Anew, Acquired, Lookups
<1>6. \A n \in 1..Len(o) : FailsClean(JackIn, {}, {}, n)
  BY <1>1, <1>2, <1>4, <1>b, MadeIs, Small DEF FailsClean, NeverFails, Ignorable, Lookups, Closing, o
<1>7. \A n \in 1..Len(o) : Anew(o[n], Built(JackIn) \cup Made(o, n - 1), {})
  BY <1>1, <1>b, MadeIs, Small DEF Anew, Acquired, Lookups
<1>8. Built(JackIn) \cup Made(o, Len(o)) \subseteq JackIn.connected \cup Closing(JackIn)
  BY <1>1, <1>2, <1>b, MadeIs DEF Closing, Lookups
<1> QED BY <1>1, <1>2, <1>d, <1>5, <1>6, <1>7, <1>8 DEF ClassFacts, c, o

LEMMA JackOutFacts == ClassFacts(JackOut, {"ring"}, {})
<1> DEFINE c == JackOut.construct   o == JackOut.open
<1>1. /\ Len(c) = 4 /\ c[1] = "ring" /\ c[2] = "client" /\ c[3] = "ring" /\ c[4] = "client"
      /\ Len(o) = 3 /\ o[1] = "ring" /\ o[2] = "client" /\ o[3] = "port"
  BY DEF JackOut, JackOutNew, JackOutOpen
<1>2. /\ JackOut.connected = {} /\ JackOut.closed = {"port"}
      /\ JackOut.destroy = {"ring", "client"} /\ JackOut.blind = {}
  BY DEF JackOut
<1>3. DOMAIN JackOut.undo = {}
  BY DEF JackOut, NoUndo
<1>4. /\ Undone(JackOut, 1) = {}
      /\ Undone(JackOut, 2) = {}
      /\ Undone(JackOut, 3) = {}
  BY <1>1, <1>3 DEF Undone
<1>b. Built(JackOut) = {"ring", "client"} BY <1>1, MadeIs DEF Built, Lookups
<1>d. DOMAIN c = 1..Len(c) /\ DOMAIN o = 1..Len(o) BY DEF JackOut, JackOutNew, JackOutOpen
<1> HIDE DEF c, o
<1>5. \A n \in 1..Len(c) : /\ c[n] \notin Ignorable \cup NeverFails => Made(c, n - 1) \subseteq {"ring"}
                         /\ Anew(c[n], Made(c, n - 1), {"ring"})
  BY <1>1, MadeIs, Small DEF Ignorable, NeverFails, Anew, Acquired, Lookups
<1>6. \A n \in 1..Len(o) : FailsClean(JackOut, {"ring"}, {}, n)
  BY <1>1, <1>2, <1>4, <1>b, MadeIs, Small DEF FailsClean, NeverFails, Ignorable, Lookups, Closing, o
<1>7. \A n \in 1..Len(o) : Anew(o[n], Built(JackOut) \cup Made(o, n - 1), {"ring"})
  BY <1>1, <1>b, MadeIs, Small DEF Anew, Acquired, Lookups
<1>8. Built(JackOut) \cup Made(o, Len(o)) \subseteq JackOut.connected \cup Closing(JackOut)
  BY <1>1, <1>2, <1>b, MadeIs DEF Closing, Lookups
<1> QED BY <1>1, <1>2, <1>d, <1>5, <1>6, <1>7, <1>8 DEF ClassFacts, c, o

LEMMA UwpFacts == ClassFacts(Uwp, {}, {})
<1> DEFINE c == Uwp.construct   o == Uwp.open
<1>1. /\ Len(c) = 0
      /\ Len(o) = 3 /\ o[1] = "find" /\ o[2] = "port" /\ o[3] = "listen"
  BY DEF Uwp, UwpOpen
<1>2. /\ Uwp.connected = {"port"} /\ Uwp.closed = {}
      /\ Uwp.destroy = {"port"} /\ Uwp.blind = {}
  BY DEF Uwp
<1>3. DOMAIN Uwp.undo = {}
  BY DEF Uwp, NoUndo
<1>4. /\ Undone(Uwp, 1) = {}
      /\ Undone(Uwp, 2) = {}
      /\ Undone(Uwp, 3) = {}
  BY <1>1, <1>3 DEF Undone
<1>b. Built(Uwp) = {} BY <1>1, MadeIs DEF Built, Lookups
<1>d. DOMAIN c = 1..Len(c) /\ DOMAIN o = 1..Len(o) BY DEF Uwp, UwpOpen
<1> HIDE DEF c, o
<1>5. \A n \in 1..Len(c) : /\ c[n] \notin Ignorable \cup NeverFails => Made(c, n - 1) \subseteq {}
                         /\ Anew(c[n], Made(c, n - 1), {})
  BY <1>1, MadeIs, Small DEF Ignorable, NeverFails, Anew, Acquired, Lookups
<1>6. \A n \in 1..Len(o) : FailsClean(Uwp, {}, {}, n)
  BY <1>1, <1>2, <1>4, <1>b, MadeIs, Small DEF FailsClean, NeverFails, Ignorable, Lookups, Closing, o
<1>7. \A n \in 1..Len(o) : Anew(o[n], Built(Uwp) \cup Made(o, n - 1), {})
  BY <1>1, <1>b, MadeIs, Small DEF Anew, Acquired, Lookups
<1>8. Built(Uwp) \cup Made(o, Len(o)) \subseteq Uwp.connected \cup Closing(Uwp)
  BY <1>1, <1>2, <1>b, MadeIs DEF Closing, Lookups
<1> QED BY <1>1, <1>2, <1>d, <1>5, <1>6, <1>7, <1>8 DEF ClassFacts, c, o

LEMMA ClassIsSound == portApi \in PortApis => ClassFacts(Class, KnownLost, KnownFreed)
<1> SUFFICES ASSUME portApi \in PortApis PROVE ClassFacts(Class, KnownLost, KnownFreed) OBVIOUS
<1>1. \/ portApi \in {"alsa", "core", "winmm", "jack"} \X {"in", "out"}
      \/ portApi \in {<<"uwp", "in">>, <<"uwp", "out">>}
  BY PortAssumption
<1> USE DEF Class, ClassOf, KnownLost, KnownFreed
<1>2. CASE portApi = <<"alsa", "in">> BY <1>2, AlsaInFacts
<1>3. CASE portApi = <<"alsa", "out">> BY <1>3, AlsaOutFacts
<1>4. CASE portApi = <<"core", "in">> BY <1>4, CoreInFacts
<1>5. CASE portApi = <<"core", "out">> BY <1>5, CoreOutFacts
<1>6. CASE portApi = <<"winmm", "in">> BY <1>6, WinMMInFacts
<1>7. CASE portApi = <<"winmm", "out">> BY <1>7, WinMMOutFacts
<1>8. CASE portApi = <<"jack", "in">> BY <1>8, JackInFacts
<1>9. CASE portApi = <<"jack", "out">> BY <1>9, JackOutFacts
<1>10. CASE portApi \in {<<"uwp", "in">>, <<"uwp", "out">>} BY <1>10, UwpFacts
<1> QED BY <1>1, <1>2, <1>3, <1>4, <1>5, <1>6, <1>7, <1>8, <1>9, <1>10

\* What must be held after n calls of a list, and what may be.
Needed(calls, n) == Made(calls, n) \ Ignorable

PortTypes ==
  /\ portApi \in PortApis
  /\ portAt \in [at: {"none", "constructing", "opening", "open", "closing", "ended"}, done: 0..6]
  /\ portConnected \in BOOLEAN
  /\ portState \in {"none", "connected", "not_connected"} /\ portFaults \in 0..MaxPortFaults

\* What is held at each place.
HeldAt ==
  /\ portAt.at \in {"none", "ended"} => portHeld = {}
  /\ portAt.at = "constructing" =>
       /\ portAt.done <= Len(Class.construct) /\ ~portConnected
       /\ portHeld \subseteq Made(Class.construct, portAt.done)
       /\ Needed(Class.construct, portAt.done) \subseteq portHeld
  /\ portAt.at = "opening" =>
       /\ portAt.done <= Len(Class.open) /\ ~portConnected
       /\ portHeld \subseteq Made(Class.construct, Len(Class.construct)) \cup Made(Class.open, portAt.done)
       /\ Needed(Class.construct, Len(Class.construct)) \cup Needed(Class.open, portAt.done) \subseteq portHeld
  /\ portAt.at = "open" =>
       /\ portConnected
       /\ portHeld \subseteq Class.connected \cup Closing(Class)
       /\ Needed(Class.construct, Len(Class.construct)) \cup Needed(Class.open, Len(Class.open)) \subseteq portHeld
  /\ portAt.at = "closing" =>
       portHeld \subseteq (IF portConnected THEN Class.connected ELSE KnownLost) \cup Closing(Class)

\* A port of JACK has a client while it is opened and open.
PortHasClient ==
  portApi[1] = "jack" /\ "port" \in portHeld /\ portAt.at \in {"constructing", "opening", "open"} => "client" \in portHeld

PortInv == /\ PortTypes /\ HeldAt /\ PortHasClient
           /\ (portState = "connected" => portAt.at = "open")
           /\ AllReleased

LEMMA PortInitInv == PortInit => PortInv
<1> SUFFICES ASSUME PortInit PROVE PortInv OBVIOUS
<1>1. AllReleased BY DEF PortInit, AllReleased
<1>2. portConnected \in BOOLEAN BY Zenon DEF PortInit
<1>3. PortTypes BY <1>2, PortAssumption DEF PortInit, PortTypes
<1>4. HeldAt BY DEF PortInit, HeldAt
<1>5. PortHasClient BY DEF PortInit, PortHasClient
<1> QED BY <1>1, <1>3, <1>4, <1>5 DEF PortInit, PortInv

LEMMA MadeNext ==
  ASSUME NEW c, NEW n \in Nat
  PROVE  /\ Made(c, n + 1) = Made(c, n) \cup Acquired(c[n + 1])
         /\ Made(c, 0) = {}
BY DEF Made, Acquired

\* A call adds to what is held, or its failure gives back what Undone says.
LEMMA PortStep == PortInv /\ [PortNext]_portVars => PortInv'
<1> SUFFICES ASSUME PortInv, [PortNext]_portVars PROVE PortInv' OBVIOUS
<1>0. PortTypes /\ HeldAt /\ PortHasClient /\ (portState = "connected" => portAt.at = "open") /\ AllReleased BY DEF PortInv
<1>c. ClassFacts(Class, KnownLost, KnownFreed) BY <1>0, ClassIsSound DEF PortTypes
<1>s. portApi' = portApi /\ Class' = Class /\ KnownLost' = KnownLost /\ KnownFreed' = KnownFreed
  <2>1. portApi' = portApi
    BY DEF PortNext, portVars, Construct, CallDone, CallIgnored, CallFails, Constructed, Opened, Stop, Destroy,
           DestroyThrows
  <2> QED BY <2>1 DEF Class, KnownLost, KnownFreed
<1>l. Len(Class.construct) \in 0..6 /\ Len(Class.open) \in 0..6 BY <1>c DEF ClassFacts
<1>a. portLost' = portLost /\ portFreed' = portFreed => AllReleased' BY <1>0, <1>s DEF AllReleased
<1>h. portHeld' = {} => PortHasClient' BY DEF PortHasClient
<1>k. portHeld' = portHeld /\ (portAt.at \in {"constructing", "opening", "open"} \/ portHeld = {}) => PortHasClient'
  BY <1>0, <1>s DEF PortHasClient
<1>1. CASE Construct
  <2>1. /\ portAt.at = "none" /\ portAt' = [at |-> "constructing", done |-> 0]
        /\ UNCHANGED <<portHeld, portFreed, portLost, portState, portFaults>> /\ portConnected' = FALSE
    BY <1>1 DEF Construct
  <2>2. Made(Class.construct, 0) = {} BY MadeNext
  <2>3. PortTypes'
    <3>1. portConnected' \in BOOLEAN BY <2>1, Zenon
    <3> QED BY <1>0, <1>s, <2>1, <3>1 DEF PortTypes
  <2>4. HeldAt' BY <1>0, <1>s, <1>l, <2>1, <2>2 DEF HeldAt, Needed
  <2>5. PortHasClient' BY <1>0, <1>h, <2>1 DEF HeldAt
  <2> QED BY <1>0, <1>a, <2>1, <2>3, <2>4, <2>5 DEF PortInv
<1>2. CASE CallDone
  <2>1. /\ portAt' = [portAt EXCEPT !.done = portAt.done + 1]
        /\ portHeld' = portHeld \cup Acquired(Calls[portAt.done + 1])
        /\ portAt.at \in {"constructing", "opening"} /\ portAt.done < Len(Calls)
        /\ ~Doomed(Calls[portAt.done + 1])
        /\ portLost' = portLost \cup (IF Skipped(Calls[portAt.done + 1]) THEN {}
                                     ELSE Acquired(Calls[portAt.done + 1]) \cap portHeld)
        /\ UNCHANGED <<portConnected, portFreed, portState, portFaults>>
    BY <1>2 DEF CallDone
  <2>2. portAt.done \in Nat /\ Len(Calls) \in 0..6 BY <1>0, <1>l DEF PortTypes, Calls
  <2>3. Made(Calls, portAt.done + 1) = Made(Calls, portAt.done) \cup Acquired(Calls[portAt.done + 1])
    BY <2>2, MadeNext
  <2>4. portAt' = [at |-> portAt.at, done |-> portAt.done + 1] BY <1>0, <2>1 DEF PortTypes
  <2>5. PortTypes'
    <3>1. portAt.done + 1 \in 0..6
      <4>1. portAt.done < Len(Calls) BY <2>1
      <4> QED BY <2>2, <4>1, NextInRange
    <3> QED BY <1>0, <1>s, <2>1, <2>4, <3>1 DEF PortTypes
  <2>p. PortHasClient'
    <3>1. portAt'.at = portAt.at BY <2>4
    <3> QED BY <1>0, <1>s, <2>1, <3>1 DEF PortHasClient, Doomed, Acquired
  <2>a. ASSUME NEW held, portHeld \subseteq held, Anew(Calls[portAt.done + 1], held, KnownLost)
        PROVE  AllReleased'
    BY <1>0, <1>s, <2>1, <2>a DEF AllReleased, Anew, Skipped, Acquired
  <2>n. /\ portAt.done + 1 \in 1..Len(Calls) /\ (portAt.done + 1) - 1 = portAt.done BY <2>1, <2>2
  <2>6. CASE portAt.at = "constructing"
    <3>1. Calls = Class.construct BY <2>6 DEF Calls
    <3>3. Anew(Calls[portAt.done + 1], Made(Class.construct, portAt.done), KnownLost)
      BY <1>c, <2>n, <3>1 DEF ClassFacts
    <3>4. AllReleased' BY <1>0, <2>6, <2>a, <3>3 DEF HeldAt
    <3>2. HeldAt' BY <1>0, <1>s, <1>l, <2>1, <2>2, <2>3, <2>4, <2>6, <3>1 DEF HeldAt, Needed
    <3> QED BY <1>0, <2>1, <2>4, <2>5, <2>p, <3>2, <3>4 DEF PortInv
  <2>7. CASE portAt.at = "opening"
    <3>1. Calls = Class.open BY <2>7 DEF Calls
    <3>3. Anew(Calls[portAt.done + 1], Built(Class) \cup Made(Class.open, portAt.done), KnownLost)
      BY <1>c, <2>n, <3>1 DEF ClassFacts
    <3>4. AllReleased' BY <1>0, <2>7, <2>a, <3>3 DEF HeldAt, Built
    <3>2. HeldAt' BY <1>0, <1>s, <1>l, <2>1, <2>2, <2>3, <2>4, <2>7, <3>1 DEF HeldAt, Needed
    <3> QED BY <1>0, <2>1, <2>4, <2>5, <2>p, <3>2, <3>4 DEF PortInv
  <2> QED BY <2>1, <2>6, <2>7
<1>3. CASE CallIgnored
  <2>1. /\ portAt' = [portAt EXCEPT !.done = portAt.done + 1] /\ portFaults' = portFaults + 1
        /\ portFaults < MaxPortFaults /\ Calls[portAt.done + 1] \in Ignorable
        /\ portAt.at \in {"constructing", "opening"} /\ portAt.done < Len(Calls)
        /\ UNCHANGED <<portHeld, portConnected, portFreed, portLost, portState>>
    BY <1>3 DEF CallIgnored
  <2>2. portAt.done \in Nat /\ Len(Calls) \in 0..6 BY <1>0, <1>l DEF PortTypes, Calls
  <2>3. Made(Calls, portAt.done + 1) = Made(Calls, portAt.done) \cup Acquired(Calls[portAt.done + 1])
    BY <2>2, MadeNext
  <2>4. Needed(Calls, portAt.done + 1) = Needed(Calls, portAt.done)
    BY <2>1, <2>3 DEF Needed, Acquired
  <2>5. portAt' = [at |-> portAt.at, done |-> portAt.done + 1] BY <1>0, <2>1 DEF PortTypes
  <2>6. PortTypes'
    <3>1. portAt.done + 1 \in 0..6
      <4>1. portAt.done < Len(Calls) BY <2>1
      <4> QED BY <2>2, <4>1, NextInRange
    <3> QED BY <1>0, <1>s, <2>1, <2>5, <3>1, PortAssumption DEF PortTypes
  <2>p. PortHasClient' BY <1>k, <2>1
  <2>7. CASE portAt.at = "constructing"
    <3>1. Calls = Class.construct BY <2>7 DEF Calls
    <3>2. HeldAt' BY <1>0, <1>s, <1>l, <2>1, <2>2, <2>3, <2>4, <2>5, <2>7, <3>1 DEF HeldAt
    <3> QED BY <1>0, <1>a, <2>1, <2>5, <2>6, <2>p, <3>2 DEF PortInv
  <2>8. CASE portAt.at = "opening"
    <3>1. Calls = Class.open BY <2>8 DEF Calls
    <3>2. HeldAt' BY <1>0, <1>s, <1>l, <2>1, <2>2, <2>3, <2>4, <2>5, <2>8, <3>1 DEF HeldAt
    <3> QED BY <1>0, <1>a, <2>1, <2>5, <2>6, <2>p, <3>2 DEF PortInv
  <2> QED BY <2>1, <2>7, <2>8
<1>4. CASE CallFails
  <2>1. /\ portAt.at \in {"constructing", "opening"} /\ portAt.done < Len(Calls)
        /\ Calls[portAt.done + 1] \notin Ignorable \cup NeverFails
        /\ portFaults' = portFaults \/ (portFaults < MaxPortFaults /\ portFaults' = portFaults + 1)
        /\ UNCHANGED portConnected
        /\ portState' \in {portState, "not_connected"}
    BY <1>4 DEF CallFails
  <2>2. /\ portAt.done \in Nat /\ Len(Calls) \in 0..6
        /\ portAt.done + 1 \in 1..Len(Calls) /\ (portAt.done + 1) - 1 = portAt.done
    <3>1. portAt.done \in Nat /\ Len(Calls) \in 0..6 BY <1>0, <1>l DEF PortTypes, Calls
    <3> QED BY <2>1, <3>1
  <2>3. portState' # "connected" BY <1>0, <2>1
  <2>4. CASE portAt.at = "constructing"
    <3>1. /\ portAt' = [at |-> "none", done |-> 0] /\ portLost' = portLost \cup portHeld
          /\ portHeld' = {} /\ portFreed' = portFreed
      BY <1>4, <2>4 DEF CallFails
    <3>2. Made(Class.construct, portAt.done) \subseteq KnownLost
      <4>1. Calls = Class.construct BY <2>4 DEF Calls
      <4> QED BY <1>c, <2>1, <2>2, <4>1 DEF ClassFacts
    <3>3. AllReleased' BY <1>0, <1>s, <2>4, <3>1, <3>2 DEF AllReleased, HeldAt
    <3>4. PortTypes' BY <1>0, <1>s, <2>1, <3>1, PortAssumption DEF PortTypes
    <3>5. HeldAt' BY <3>1 DEF HeldAt
    <3> QED BY <1>h, <2>3, <3>1, <3>3, <3>4, <3>5 DEF PortInv
  <2>5. CASE portAt.at = "opening"
    <3> DEFINE n == portAt.done + 1
    <3>1. n \in 1..Len(Class.open) /\ n - 1 = portAt.done /\ Calls = Class.open
      BY <2>2, <2>5 DEF Calls
    <3>2. FailsClean(Class, KnownLost, KnownFreed, n) /\ Class.open[n] \notin NeverFails
      BY <1>c, <2>1, <3>1 DEF ClassFacts
    <3>3. /\ portAt' = [at |-> "closing", done |-> 0] /\ portLost' = portLost
          /\ portHeld' = portHeld \ Undone(Class, n)
          /\ portFreed' = portFreed \cup (Undone(Class, n) \ portHeld)
      <4>1. portAt.done > 0 <=> n > 1 BY <2>2
      <4> QED BY <1>4, <2>5, <3>1, <4>1 DEF CallFails, Undone
    <3> HIDE DEF n
    <3>4. Undone(Class, n) \ portHeld \subseteq KnownFreed
      <4>1. Undone(Class, n) \ Needed(Class.open, n - 1) \subseteq KnownFreed BY <3>2 DEF FailsClean, Needed
      <4> QED BY <1>0, <2>5, <3>1, <4>1 DEF HeldAt
    <3>5. portHeld' \subseteq KnownLost \cup Closing(Class)
      BY <1>0, <2>5, <3>1, <3>2, <3>3 DEF FailsClean, HeldAt, Built
    <3>6. AllReleased' BY <1>0, <1>s, <3>3, <3>4 DEF AllReleased
    <3>7. PortTypes' BY <1>0, <1>s, <2>1, <3>3, PortAssumption DEF PortTypes
    <3>8. HeldAt' BY <1>0, <1>s, <2>1, <2>5, <3>3, <3>5 DEF HeldAt
    <3>9. PortHasClient' BY <3>3 DEF PortHasClient
    <3> QED BY <2>3, <3>6, <3>7, <3>8, <3>9 DEF PortInv
  <2> QED BY <2>1, <2>4, <2>5
<1>5. CASE Constructed
  <2>1. /\ portAt.at = "constructing" /\ portAt.done = Len(Class.construct)
        /\ portAt' = [at |-> "opening", done |-> 0]
        /\ UNCHANGED <<portHeld, portConnected, portFreed, portLost, portState, portFaults>>
    BY <1>5 DEF Constructed, Calls
  <2>2. Made(Class.open, 0) = {} BY MadeNext
  <2>3. PortTypes' BY <1>0, <1>s, <2>1 DEF PortTypes
  <2>4. HeldAt' BY <1>0, <1>s, <1>l, <2>1, <2>2 DEF HeldAt, Needed
  <2>5. PortHasClient' BY <1>k, <2>1
  <2> QED BY <1>0, <1>a, <2>1, <2>3, <2>4, <2>5 DEF PortInv
<1>6. CASE Opened
  <2>1. /\ portAt.at = "opening" /\ portAt.done = Len(Class.open)
        /\ portAt' = [at |-> "open", done |-> 0] /\ portConnected' = TRUE /\ portState' = "connected"
        /\ UNCHANGED <<portHeld, portFreed, portLost, portFaults>>
    BY <1>6 DEF Opened, Calls
  <2>2. portHeld \subseteq Class.connected \cup Closing(Class)
    BY <1>0, <1>c, <2>1 DEF ClassFacts, HeldAt, Built
  <2>3. PortTypes' BY <1>0, <1>s, <2>1 DEF PortTypes
  <2>4. HeldAt' BY <1>0, <1>s, <2>1, <2>2 DEF HeldAt
  <2>5. PortHasClient' BY <1>k, <2>1
  <2> QED BY <1>a, <2>1, <2>3, <2>4, <2>5 DEF PortInv
<1>7. CASE Stop
  <2>1. /\ portState' = "none"
        /\ UNCHANGED <<portHeld, portConnected, portFreed, portLost, portFaults>>
    BY <1>7 DEF Stop
  <2>2. \/ portAt.at = "open" /\ portAt' = [at |-> "closing", done |-> 0]
        \/ portAt.at = "none" /\ portAt' = portAt
    BY <1>7 DEF Stop
  <2>3. PortTypes' BY <1>0, <1>s, <2>1, <2>2 DEF PortTypes
  <2>4. HeldAt' BY <1>0, <1>s, <2>1, <2>2 DEF HeldAt
  <2>5. PortHasClient' BY <1>0, <1>k, <2>1, <2>2 DEF HeldAt
  <2> QED BY <1>a, <2>1, <2>3, <2>4, <2>5 DEF PortInv
<1>8. CASE Destroy
  <2>1. /\ portAt.at = "closing" /\ UNCHANGED <<portState, portFaults>>
        /\ portHeld' = {} /\ portConnected' = FALSE /\ portAt' = [at |-> "none", done |-> 0]
    BY <1>8 DEF Destroy
  <2>2. portLost' = portLost \cup
          (portHeld \ ((IF portConnected THEN Class.connected ELSE {}) \cup Class.closed \cup Class.destroy))
    BY <1>8 DEF Destroy
  <2>3. portFreed' = portFreed \/ portFreed' = portFreed \cup (Class.blind \ portHeld)
    BY <1>8 DEF Destroy
  <2>4. portLost' \subseteq KnownLost BY <1>0, <2>1, <2>2 DEF HeldAt, Closing, AllReleased
  <2>5. AllReleased' BY <1>0, <1>s, <1>c, <2>3, <2>4 DEF AllReleased, ClassFacts
  <2>6. PortTypes'
    <3>1. portConnected' \in BOOLEAN BY <2>1, Zenon
    <3> QED BY <1>0, <1>s, <2>1, <3>1 DEF PortTypes
  <2>7. HeldAt' BY <2>1 DEF HeldAt
  <2> QED BY <1>0, <1>h, <2>1, <2>5, <2>6, <2>7 DEF PortInv
<1>10. CASE DestroyThrows
  <2>1. /\ portAt.at = "closing" /\ portFaults < MaxPortFaults /\ portFaults' = portFaults + 1
        /\ portAt' = [at |-> "ended", done |-> 0] /\ portHeld' = {} /\ portConnected' = FALSE
        /\ UNCHANGED <<portFreed, portLost, portState>>
    BY <1>10 DEF DestroyThrows
  <2>2. PortTypes'
    <3>1. portConnected' \in BOOLEAN BY <2>1, Zenon
    <3> QED BY <1>0, <1>s, <2>1, <3>1, PortAssumption DEF PortTypes
  <2>3. HeldAt' BY <2>1 DEF HeldAt
  <2> QED BY <1>0, <1>a, <1>h, <2>1, <2>2, <2>3 DEF PortInv
<1>9. CASE UNCHANGED portVars
  <2>1. PortTypes' BY <1>0, <1>9 DEF portVars, PortTypes
  <2>2. HeldAt' BY <1>0, <1>s, <1>9 DEF portVars, HeldAt
  <2>3. PortHasClient' BY <1>0, <1>9 DEF portVars, PortHasClient
  <2> QED BY <1>0, <1>9, <1>a, <2>1, <2>2, <2>3 DEF portVars, PortInv
<1> QED BY <1>1, <1>2, <1>3, <1>4, <1>5, <1>6, <1>7, <1>8, <1>9, <1>10 DEF PortNext

\* Constructors, openPort, closePort and destructors of the classes of RtMidi: whichever of
\* their calls fail, and in any order of opening and closing, a port that is given up has
\* released what it acquired and nothing else, apart from what the classes are known to lose or to
\* release unasked, and one that the router shows as connected is open.
THEOREM PortsAreSound == PortSpec => [](PortTypeOK /\ PortsSound)
<1>1. PortInv => PortTypeOK /\ PortsSound
  <2> SUFFICES ASSUME PortInv PROVE PortTypeOK /\ PortsSound OBVIOUS
  <2>1. PortTypeOK BY DEF PortInv, PortTypes, HeldAt, PortTypeOK
  <2>2. ToSet(Class.construct) \cup ToSet(Class.open) \subseteq
          {Class.construct[n] : n \in 1..Len(Class.construct)} \cup {Class.open[n] : n \in 1..Len(Class.open)}
    <3>1. portApi \in PortApis BY DEF PortInv, PortTypes
    <3> QED BY <3>1, ClassIsSound DEF ClassFacts, ToSet
  <2>4. portState = "connected" /\ portApi[1] = "jack" => "port" \in portHeld /\ "client" \in portHeld
    <3> SUFFICES ASSUME portState = "connected", portApi[1] = "jack" PROVE "port" \in portHeld /\ "client" \in portHeld
      OBVIOUS
    <3>1. portAt.at = "open" /\ Needed(Class.open, Len(Class.open)) \subseteq portHeld BY DEF PortInv, HeldAt
    <3>2. portApi = <<"jack", "in">> \/ portApi = <<"jack", "out">>
      BY PortAssumption DEF PortInv, PortTypes
    <3>3. "port" \in Made(Class.open, Len(Class.open)) \ Ignorable
      <4>1. CASE portApi = <<"jack", "in">>
        BY <4>1 DEF Class, ClassOf, JackIn, JackInOpen, Made, Lookups, Ignorable
      <4>2. CASE portApi = <<"jack", "out">>
        BY <4>2 DEF Class, ClassOf, JackOut, JackOutOpen, Made, Lookups, Ignorable
      <4> QED BY <3>2, <4>1, <4>2
    <3>4. "port" \in portHeld BY <3>1, <3>3 DEF Needed
    <3> QED BY <3>1, <3>4 DEF PortInv, PortHasClient
  <2>3. ShownIsOpen BY <2>2, <2>4 DEF PortInv, HeldAt, ShownIsOpen, Needed, Made
  <2> QED BY <2>1, <2>3 DEF PortInv, PortsSound
<1> QED BY <1>1, PortInitInv, PortStep, PTL DEF PortSpec

-----------------------------------------------------------------------------
(* MIDI input: the parts of a message on their way to the queue.           *)

\* The parts of an exclusive message up to the event d, and events that look like them.
Parts(d) == [i \in 1..d.part |-> [d EXCEPT !.part = i]]
LooksLike(b, d) == Len(b) = d.part /\ \A i \in DOMAIN b : b[i].n = d.n /\ b[i].part = i

Message == Seq(MidiEvent) \ {<<>>}
UpTo(m, k) == \A i \in DOMAIN m : m[i].n <= k
AllUpTo(q, k) == \A i \in DOMAIN q : UpTo(q[i], k)
AllWhole(q, spoilt) == \A i \in DOMAIN q : Whole(q[i]) \/ Numbers(q[i]) \cap spoilt # {}
InOrder(q) == \A i, j \in DOMAIN q : (i < j /\ Whole(q[i]) /\ Whole(q[j])) => q[i][1].n < q[j][1].n
Before(r, q) == \A i \in DOMAIN r, j \in DOMAIN q : (Whole(r[i]) /\ Whole(q[j])) => r[i][1].n < q[j][1].n
Below(q, k) == \A i \in DOMAIN q : Whole(q[i]) => q[i][1].n < k
AllNumbers(q) == UNION {Numbers(q[i]) : i \in DOMAIN q}
FirstsOutside(q, S) == \A i \in DOMAIN q : q[i][1].n \notin S

History == [sent: 0..MaxMidi, ended: SUBSET (1..MaxMidi), cut: BOOLEAN,
            spoilt: SUBSET (1..MaxMidi), refused: SUBSET (1..MaxMidi), muted: SUBSET (1..MaxMidi)]

\* The device and what has come of it.
DeviceInv(d, b, h) ==
  /\ d # NoEvent => d.n <= h.sent /\ d.part < d.of /\ d.type = "sysex" /\ d.n \notin h.ended
  /\ UpTo(b, h.sent)
  /\ \A i \in DOMAIN b : b[i].n = d.n => b[i].part <= d.part

HistoryInv(h) ==
  /\ h \in History
  /\ h.ended \subseteq 1..h.sent /\ h.spoilt \subseteq 1..h.sent
  /\ h.refused \subseteq 1..h.sent /\ h.muted \subseteq 1..h.sent

OrderInv(r, q, d, b, k) ==
  /\ AllUpTo(r, k) /\ AllUpTo(q, k)
  /\ InOrder(r) /\ InOrder(q) /\ Before(r, q)
  /\ (d # NoEvent /\ LooksLike(b, d)) => Below(r, d.n) /\ Below(q, d.n)

ClosedInv(port, s, b, q) ==
  /\ port = "closed" => ~s /\ b = <<>> /\ q = <<>>
  /\ (backend = "alsa" /\ port = "opening") => ~s

AssemblyInv(port, d, s, b, h) ==
  /\ (d # NoEvent /\ d.n \notin h.spoilt) => port = "open" /\ ~h.cut /\ s /\ b = Parts(d)
  /\ (s /\ ~h.cut) => d # NoEvent

KeptInv(r, q, h) ==
  h.spoilt = {} =>
    /\ h.ended = AllNumbers(r) \cup AllNumbers(q) \cup h.refused \cup h.muted
    /\ FirstsOutside(r, h.refused \cup h.muted) /\ FirstsOutside(q, h.refused \cup h.muted)

MidiInv ==
  /\ backend \in MidiBackends /\ midiPort \in {"closed", "opening", "open"}
  /\ device \in MidiEvent \cup {NoEvent} /\ sysex \in BOOLEAN /\ bytes \in Seq(MidiEvent)
  /\ midiQueue \in Seq(Message) /\ midiRouted \in Seq(Message) /\ Len(midiQueue) <= MidiQueueSize
  /\ HistoryInv(midiHistory)
  /\ DeviceInv(device, bytes, midiHistory)
  /\ OrderInv(midiRouted, midiQueue, device, bytes, midiHistory.sent)
  /\ ClosedInv(midiPort, sysex, bytes, midiQueue)
  /\ backend \in Assembling =>
       /\ AssemblyInv(midiPort, device, sysex, bytes, midiHistory)
       /\ AllWhole(midiRouted, midiHistory.spoilt) /\ AllWhole(midiQueue, midiHistory.spoilt)
       /\ KeptInv(midiRouted, midiQueue, midiHistory)

-----------------------------------------------------------------------------
(* What the callbacks make of an event.                                    *)
Collecting == [sysex: BOOLEAN, bytes: Seq(MidiEvent)]

\* The event ends what is collected, or is left out, or stands alone; what goes to the queue
\* is not collected any more.
PutTogether(st, e, r) ==
  /\ r.sysex \in BOOLEAN
  /\ \E b \in {<<>>, st.bytes} : r.bytes \in {b, Append(b, e)}
  /\ \/ r.out = <<>>
     \/ \E b \in {<<>>, st.bytes} : r.out = <<Append(b, e)>> /\ r.bytes \in {<<>>, Append(b, e)}

\* The backends that put the parts together: a first part, a later part, and when an exclusive
\* message goes on.
GoesOnWith(e) == e.type = "sysex" /\ ~Ends(e)
Assembles(st, e, ignore, r) ==
  /\ (~st.sysex /\ ~ignore /\ e.part = 1) =>
       IF GoesOnWith(e) THEN r.sysex /\ r.bytes = <<e>> /\ r.out = <<>>
       ELSE ~r.sysex /\ r.out = << <<e>> >>
  /\ (st.sysex /\ ~ignore /\ e.type = "sysex" /\ e.part > 1) =>
       IF Ends(e) THEN ~r.sysex /\ r.out = <<Append(st.bytes, e)>>
       ELSE r.sysex /\ r.bytes = Append(st.bytes, e) /\ r.out = <<>>
  /\ r.sysex => st.sysex \/ GoesOnWith(e)
  /\ (e.type = "sysex" /\ Ends(e) /\ ~(backend = "alsa" /\ ignore)) => ~r.sysex
  /\ (backend = "alsa" /\ ignore /\ ~st.sysex) => ~r.sysex

LEMMA ResultIs ==
  ASSUME NEW s, NEW b, NEW out
  PROVE  Result(s, b, out).sysex = s /\ Result(s, b, out).bytes = b /\ Result(s, b, out).out = out
BY DEF Result

LEMMA EventsAre ==
  ASSUME NEW e \in MidiEvent
  PROVE  /\ e.n \in 1..MaxMidi /\ e.part \in Nat \ {0} /\ e.of \in Nat \ {0}
         /\ e.type \in {"short", "realtime", "sysex"} /\ Ends(e) \in BOOLEAN
         /\ e = [n |-> e.n, part |-> e.part, of |-> e.of, type |-> e.type]
<1>1. \A k \in MidiParts : k \in Nat \ {0} BY MidiAssumption
<1>2. e.part \in Nat \ {0}
  <2>1. PICK k \in MidiParts \cup {1} : e.part \in 1..k BY DEF MidiEvent
  <2> QED BY <1>1, <2>1
<1>3. e.of \in Nat \ {0} BY <1>1 DEF MidiEvent
<1>4. e.n \in 1..MaxMidi /\ e.type \in {"short", "realtime", "sysex"} BY DEF MidiEvent
<1>5. e = [n |-> e.n, part |-> e.part, of |-> e.of, type |-> e.type] BY DEF MidiEvent
<1> QED BY <1>2, <1>3, <1>4, <1>5 DEF Ends

LEMMA CorePuts ==
  ASSUME NEW st \in Collecting, NEW e \in MidiEvent, NEW ignore \in BOOLEAN
  PROVE  PutTogether(st, e, CallbackCore(st, e, ignore))
<1> DEFINE all == IF ignore THEN st.bytes ELSE Append(st.bytes, e)
           r == CallbackCore(st, e, ignore)
<1>1. st.sysex \in BOOLEAN BY DEF Collecting
<1>2. CASE st.sysex /\ Ends(e) /\ e.type = "sysex" /\ ~ignore
  <2>1. r = Result(FALSE, <<>>, <<Append(st.bytes, e)>>) BY <1>2 DEF CallbackCore
  <2> QED BY <2>1 DEF PutTogether, Result
<1>3. CASE st.sysex /\ ~(Ends(e) /\ e.type = "sysex" /\ ~ignore)
  <2>1. r = Result(~(Ends(e) /\ e.type = "sysex"), all, <<>>) BY <1>3 DEF CallbackCore
  <2> QED BY <2>1 DEF PutTogether, Result
<1>4. CASE ~st.sysex /\ e.part > 1
  <2>1. r = Result(FALSE, st.bytes, <<>>) BY <1>4 DEF CallbackCore
  <2> QED BY <2>1 DEF PutTogether, Result
<1>5. CASE ~st.sysex /\ ~(e.part > 1) /\ Ignored(ignore, e)
  <2>1. r = Result(e.type = "sysex" /\ ~Ends(e), st.bytes, <<>>) BY <1>5 DEF CallbackCore
  <2> QED BY <2>1 DEF PutTogether, Result
<1>6. CASE ~st.sysex /\ ~(e.part > 1) /\ ~Ignored(ignore, e) /\ e.type = "sysex" /\ ~Ends(e)
  <2>1. r = Result(TRUE, <<e>>, <<>>) BY <1>6 DEF CallbackCore
  <2>2. Append(<<>>, e) = <<e>> OBVIOUS
  <2> QED BY <2>1, <2>2 DEF PutTogether, Result
<1>7. CASE ~st.sysex /\ ~(e.part > 1) /\ ~Ignored(ignore, e) /\ ~(e.type = "sysex" /\ ~Ends(e))
  <2>1. r = Result(FALSE, <<>>, << <<e>> >>) BY <1>7 DEF CallbackCore
  <2>2. Append(<<>>, e) = <<e>> OBVIOUS
  <2> QED BY <2>1, <2>2 DEF PutTogether, Result
<1> QED BY <1>1, <1>2, <1>3, <1>4, <1>5, <1>6, <1>7

LEMMA AlsaPuts ==
  ASSUME NEW st \in Collecting, NEW e \in MidiEvent, NEW ignore \in BOOLEAN
  PROVE  PutTogether(st, e, CallbackAlsa(st, e, ignore))
<1> DEFINE r == CallbackAlsa(st, e, ignore)
           all == IF st.sysex THEN Append(st.bytes, e) ELSE <<e>>
           goesOn == e.type = "sysex" /\ ~Ends(e)
<1>1. Append(<<>>, e) = <<e>> OBVIOUS
<1>2. \E b \in {<<>>, st.bytes} : all = Append(b, e) BY <1>1
<1>3. CASE Ignored(ignore, e)
  <2>1. r = Result(st.sysex, IF st.sysex THEN st.bytes ELSE <<>>, <<>>) BY <1>3 DEF CallbackAlsa
  <2> QED BY <2>1 DEF PutTogether, Result, Collecting
<1>4. CASE ~Ignored(ignore, e)
  <2>1. r = Result(goesOn, all, IF goesOn THEN <<>> ELSE <<all>>) BY <1>4 DEF CallbackAlsa
  <2>2. PICK b \in {<<>>, st.bytes} : all = Append(b, e) BY <1>2
  <2>3. r.sysex = goesOn /\ r.bytes = Append(b, e) /\ r.out = IF goesOn THEN <<>> ELSE <<Append(b, e)>>
    <3> DEFINE o == IF goesOn THEN <<>> ELSE <<all>>
    <3>1. r = Result(goesOn, all, o) BY <2>1
    <3>2. o = IF goesOn THEN <<>> ELSE <<Append(b, e)>> BY <2>2
    <3> HIDE DEF goesOn, all, r, o
    <3>3. r.sysex = goesOn /\ r.bytes = all /\ r.out = o BY <3>1, ResultIs
    <3> QED BY <2>2, <3>2, <3>3
  <2>4. goesOn \in BOOLEAN OBVIOUS
  <2> HIDE DEF all, goesOn, r
  <2>5. PutTogether(st, e, r) BY <2>3, <2>4 DEF PutTogether
  <2> QED BY <2>5 DEF r
<1> QED BY <1>3, <1>4

LEMMA WinMMPuts ==
  ASSUME NEW st \in Collecting, NEW e \in MidiEvent, NEW ignore \in BOOLEAN
  PROVE  PutTogether(st, e, CallbackWinMM(st, e, ignore))
BY DEF Collecting, MidiEvent, PutTogether, CallbackWinMM, Result, Ignored, Ends

LEMMA UwpPuts ==
  ASSUME NEW st \in Collecting, NEW e \in MidiEvent, NEW ignore \in BOOLEAN
  PROVE  PutTogether(st, e, CallbackUwp(st, e, ignore))
BY DEF Collecting, MidiEvent, PutTogether, CallbackUwp, Result, Ignored, Ends

LEMMA JackPuts ==
  ASSUME NEW st \in Collecting, NEW e \in MidiEvent, NEW ignore \in BOOLEAN
  PROVE  PutTogether(st, e, CallbackJack(st, e, ignore))
BY DEF Collecting, MidiEvent, PutTogether, CallbackJack, GoesOn, Result, Ignored, Ends

LEMMA AndroidPuts ==
  ASSUME NEW st \in Collecting, NEW e \in MidiEvent, NEW ignore \in BOOLEAN
  PROVE  PutTogether(st, e, CallbackAndroid(st, e, ignore))
<1> DEFINE skips == GoesOn(st, e) \/ (ignore /\ (st.sysex \/ e.type # "short"))
<1>1. GoesOn(st, e) \in BOOLEAN BY DEF GoesOn, Collecting
<1>2. CallbackAndroid(st, e, ignore) = Result(GoesOn(st, e), <<>>, IF skips THEN <<>> ELSE << <<e>> >>)
  BY DEF CallbackAndroid
<1>3. Append(<<>>, e) = <<e>> OBVIOUS
<1> HIDE DEF skips
<1> QED BY <1>1, <1>2, <1>3 DEF PutTogether, Result

LEMMA WebPuts ==
  ASSUME NEW st \in Collecting, NEW e \in MidiEvent, NEW ignore \in BOOLEAN
  PROVE  PutTogether(st, e, CallbackWeb(st, e, ignore))
BY DEF Collecting, MidiEvent, PutTogether, CallbackWeb, Result

LEMMA CallbackPuts ==
  ASSUME NEW st \in Collecting, NEW e \in MidiEvent, NEW ignore \in BOOLEAN
  PROVE  PutTogether(st, e, Callback(st, e, ignore))
BY CorePuts, AlsaPuts, WinMMPuts, UwpPuts, JackPuts, AndroidPuts, WebPuts DEF Callback

LEMMA CoreAssembles ==
  ASSUME NEW st \in Collecting, NEW e \in MidiEvent, NEW ignore \in BOOLEAN, backend = "core"
  PROVE  Assembles(st, e, ignore, CallbackCore(st, e, ignore))
<1> DEFINE r == CallbackCore(st, e, ignore)
<1>1. st.sysex \in BOOLEAN BY DEF Collecting
<1>2. e.part \in Nat \ {0} /\ Ends(e) \in BOOLEAN BY EventsAre
<1>3. CASE st.sysex
  <2>1. ~ignore => r = IF Ends(e) /\ e.type = "sysex" THEN Result(FALSE, <<>>, <<Append(st.bytes, e)>>)
                       ELSE Result(~(Ends(e) /\ e.type = "sysex"), Append(st.bytes, e), <<>>)
    BY <1>3 DEF CallbackCore
  <2>2. ignore => r = Result(~(Ends(e) /\ e.type = "sysex"), st.bytes, <<>>) BY <1>3 DEF CallbackCore
  <2>3. CASE ignore
    <3> DEFINE goes == ~(Ends(e) /\ e.type = "sysex")
    <3>3. r = Result(goes, st.bytes, <<>>) BY <2>2, <2>3
    <3> HIDE DEF goes, r
    <3>4. r.sysex = goes BY <3>3, ResultIs
    <3>1. r.sysex = ~(Ends(e) /\ e.type = "sysex") BY <3>4 DEF goes
    <3> HIDE DEF r
    <3>2. Assembles(st, e, ignore, r) BY <1>2, <1>3, <2>3, <3>1 DEF Assembles
    <3> QED BY <3>2 DEF r
  <2>4. CASE ~ignore /\ Ends(e) /\ e.type = "sysex"
    <3>1. r.sysex = FALSE /\ r.out = <<Append(st.bytes, e)>> BY <2>1, <2>4 DEF Result
    <3> HIDE DEF r
    <3>2. Assembles(st, e, ignore, r) BY <1>2, <1>3, <2>4, <3>1 DEF Assembles
    <3> QED BY <3>2 DEF r
  <2>5. CASE ~ignore /\ ~(Ends(e) /\ e.type = "sysex")
    <3> DEFINE goes == ~(Ends(e) /\ e.type = "sysex")
    <3>3. r = Result(goes, Append(st.bytes, e), <<>>) BY <2>1, <2>5
    <3>4. goes BY <2>5
    <3> HIDE DEF goes, r
    <3>5. /\ Result(goes, Append(st.bytes, e), <<>>).sysex = goes
          /\ Result(goes, Append(st.bytes, e), <<>>).bytes = Append(st.bytes, e)
          /\ Result(goes, Append(st.bytes, e), <<>>).out = <<>>
      BY Zenon DEF Result
    <3>1. r.sysex /\ r.bytes = Append(st.bytes, e) /\ r.out = <<>> BY <3>3, <3>4, <3>5
    <3>2. Assembles(st, e, ignore, r) BY <1>2, <1>3, <2>5, <3>1 DEF Assembles
    <3> QED BY <3>2 DEF r
  <2> QED BY <2>3, <2>4, <2>5
<1>4. CASE ~st.sysex /\ e.part > 1
  <2>1. r = Result(FALSE, st.bytes, <<>>) BY <1>4 DEF CallbackCore
  <2> QED BY <1>2, <1>4, <2>1 DEF Assembles, Result
<1>5. CASE ~st.sysex /\ ~(e.part > 1)
  <2>1. r = IF Ignored(ignore, e) THEN Result(GoesOnWith(e), st.bytes, <<>>)
            ELSE IF GoesOnWith(e) THEN Result(TRUE, <<e>>, <<>>) ELSE Result(FALSE, <<>>, << <<e>> >>)
    BY <1>5 DEF CallbackCore, GoesOnWith
  <2>2. GoesOnWith(e) \in BOOLEAN BY DEF GoesOnWith
  <2>3. CASE Ignored(ignore, e)
    <3>1. r.sysex = GoesOnWith(e) BY <2>1, <2>3 DEF Result
    <3>2. ignore BY <2>3 DEF Ignored
    <3>3. (e.type = "sysex" /\ Ends(e)) => ~GoesOnWith(e) BY DEF GoesOnWith
    <3> HIDE DEF r
    <3>4. Assembles(st, e, ignore, r) BY <1>5, <2>2, <3>1, <3>2, <3>3 DEF Assembles
    <3> QED BY <3>4 DEF r
  <2>4. CASE ~Ignored(ignore, e) /\ GoesOnWith(e) BY <1>2, <1>5, <2>1, <2>4 DEF Assembles, Result, GoesOnWith
  <2>5. CASE ~Ignored(ignore, e) /\ ~GoesOnWith(e) BY <1>2, <1>5, <2>1, <2>5 DEF Assembles, Result, GoesOnWith
  <2> QED BY <2>3, <2>4, <2>5
<1> QED BY <1>1, <1>3, <1>4, <1>5

LEMMA AlsaAssembles ==
  ASSUME NEW st \in Collecting, NEW e \in MidiEvent, NEW ignore \in BOOLEAN, backend = "alsa"
  PROVE  Assembles(st, e, ignore, CallbackAlsa(st, e, ignore))
BY DEF Collecting, MidiEvent, Assembles, CallbackAlsa, GoesOnWith, Result, Ignored, Ends

LEMMA JackAssembles ==
  ASSUME NEW st \in Collecting, NEW e \in MidiEvent, NEW ignore \in BOOLEAN, backend = "jack"
  PROVE  Assembles(st, e, ignore, CallbackJack(st, e, ignore))
<1> DEFINE r == CallbackJack(st, e, ignore)
           old == IF st.sysex THEN st.bytes ELSE <<>>
           within == st.sysex \/ (e.type = "sysex" /\ e.part = 1)
           all == IF ignore /\ within THEN old ELSE Append(old, e)
           skips == (ignore /\ (within \/ e.type = "realtime")) \/ GoesOn(st, e)
<1>1. st.sysex \in BOOLEAN BY DEF Collecting
<1>2. e.part \in Nat \ {0} /\ Ends(e) \in BOOLEAN BY EventsAre
<1>3. r = Result(GoesOn(st, e), all, IF skips THEN <<>> ELSE <<all>>) BY DEF CallbackJack
<1>4. r.sysex = GoesOn(st, e) /\ r.bytes = all /\ r.out = IF skips THEN <<>> ELSE <<all>>
  BY <1>3 DEF Result
<1>5. GoesOn(st, e) \in BOOLEAN BY <1>1 DEF GoesOn
<1>6. Append(<<>>, e) = <<e>> OBVIOUS
<1>7. GoesOn(st, e) => st.sysex \/ GoesOnWith(e) BY <1>1, <1>2 DEF GoesOn, GoesOnWith
<1>8. (e.type = "sysex" /\ Ends(e)) => ~GoesOn(st, e) BY <1>1, <1>2 DEF GoesOn
<1>9. ASSUME ~st.sysex, ~ignore, e.part = 1
      PROVE  IF GoesOnWith(e) THEN r.sysex /\ r.bytes = <<e>> /\ r.out = <<>>
             ELSE ~r.sysex /\ r.out = << <<e>> >>
  <2>1. all = <<e>> BY <1>6, <1>9
  <2>2. GoesOn(st, e) = GoesOnWith(e)
    <3>1. GoesOnWith(e) \in BOOLEAN BY DEF GoesOnWith
    <3>2. CASE e.type = "sysex" BY <1>2, <1>9, <3>2 DEF GoesOn, GoesOnWith
    <3>3. CASE e.type # "sysex"
      <4>1. ~GoesOnWith(e) BY <3>3 DEF GoesOnWith
      <4>2. GoesOn(st, e) = st.sysex BY <1>9, <3>3 DEF GoesOn
      <4> QED BY <1>1, <1>9, <3>1, <4>1, <4>2
    <3> QED BY <3>2, <3>3
  <2>3. skips = GoesOn(st, e) BY <1>5, <1>9
  <2> HIDE DEF all, skips, r
  <2> QED BY <1>4, <2>1, <2>2, <2>3
<1>10. ASSUME st.sysex, ~ignore, e.type = "sysex", e.part > 1
       PROVE  IF Ends(e) THEN ~r.sysex /\ r.out = <<Append(st.bytes, e)>>
              ELSE r.sysex /\ r.bytes = Append(st.bytes, e) /\ r.out = <<>>
  <2>1. all = Append(st.bytes, e) BY <1>10
  <2>2. GoesOn(st, e) = ~Ends(e) BY <1>2, <1>10 DEF GoesOn
  <2>3. skips = GoesOn(st, e) BY <1>5, <1>10
  <2> HIDE DEF all, skips, r
  <2> QED BY <1>2, <1>4, <2>1, <2>2, <2>3
<1>11. backend # "alsa" OBVIOUS
<1> HIDE DEF all, skips, r
<1>12. Assembles(st, e, ignore, r) BY <1>4, <1>7, <1>8, <1>9, <1>10, <1>11 DEF Assembles
<1> QED BY <1>12 DEF r

LEMMA CallbackAssembles ==
  ASSUME NEW st \in Collecting, NEW e \in MidiEvent, NEW ignore \in BOOLEAN, backend \in Assembling
  PROVE  Assembles(st, e, ignore, Callback(st, e, ignore))
BY CoreAssembles, AlsaAssembles, JackAssembles DEF Callback, Assembling

-----------------------------------------------------------------------------
(* Messages and queues of them.                                            *)
LEMMA AppendIs ==
  ASSUME NEW S, NEW q \in Seq(S), NEW m \in S
  PROVE  /\ Append(q, m) \in Seq(S) /\ Len(Append(q, m)) = Len(q) + 1 /\ Len(q) \in Nat
         /\ DOMAIN q = 1..Len(q) /\ DOMAIN Append(q, m) = 1..(Len(q) + 1)
         /\ \A i \in 1..Len(q) : Append(q, m)[i] = q[i]
         /\ Append(q, m)[Len(q) + 1] = m
         /\ \A i \in DOMAIN Append(q, m) : i \in DOMAIN q \/ i = Len(q) + 1
OBVIOUS

LEMMA AppendToEmpty ==
  ASSUME NEW e
  PROVE  Append(<<>>, e) = <<e>>
OBVIOUS

LEMMA TailIs ==
  ASSUME NEW S, NEW q \in Seq(S), q # <<>>
  PROVE  /\ Head(q) = q[1] /\ Head(q) \in S /\ Tail(q) \in Seq(S)
         /\ Len(q) \in Nat \ {0} /\ Len(Tail(q)) = Len(q) - 1
         /\ DOMAIN q = 1..Len(q) /\ DOMAIN Tail(q) = 1..(Len(q) - 1)
         /\ \A i \in DOMAIN Tail(q) : Tail(q)[i] = q[i + 1] /\ i + 1 \in DOMAIN q
OBVIOUS

\* A message that ends with e: all of it has the number of e if it is whole.
LEMMA MessageOf ==
  ASSUME NEW b \in Seq(MidiEvent), NEW e \in MidiEvent
  PROVE  /\ Append(b, e) \in Message
         /\ e.n \in Numbers(Append(b, e))
         /\ Whole(Append(b, e)) =>
              /\ Ends(e) /\ Append(b, e)[1].n = e.n /\ Len(b) + 1 = e.part
              /\ \A i \in DOMAIN b : b[i].n = e.n /\ b[i].part = i
         /\ \A k \in Nat : (UpTo(b, k) /\ e.n <= k) => UpTo(Append(b, e), k)
<1> DEFINE m == Append(b, e)
           L == Len(b)
<1>1. /\ m \in Seq(MidiEvent) /\ Len(m) = L + 1 /\ L \in Nat
      /\ DOMAIN b = 1..L /\ DOMAIN m = 1..(L + 1)
      /\ \A i \in 1..L : m[i] = b[i]
      /\ m[L + 1] = e /\ m # <<>>
  BY AppendIs
<1>2. Last(m) = m[Len(m)] BY DEF Last
<1> HIDE DEF m, L
<1>3. m \in Message BY <1>1 DEF Message
<1>4. L + 1 \in DOMAIN m /\ 1 \in DOMAIN m BY <1>1
<1>5. e.n \in Numbers(m) BY <1>1, <1>4 DEF Numbers
<1>6. ASSUME Whole(m)
      PROVE  /\ Ends(e) /\ m[1].n = e.n /\ L + 1 = e.part
             /\ \A i \in DOMAIN b : b[i].n = e.n /\ b[i].part = i
  <2>1. Ends(e) BY <1>1, <1>2, <1>6 DEF Whole
  <2>2. \A i \in DOMAIN m : m[i].n = m[1].n /\ m[i].part = i BY <1>6 DEF Whole
  <2>3. e.n = m[1].n /\ e.part = L + 1 BY <1>1, <1>4, <2>2
  <2>4. ASSUME NEW i \in DOMAIN b PROVE b[i].n = e.n /\ b[i].part = i
    <3>1. i \in DOMAIN m /\ m[i] = b[i] BY <1>1, <2>4
    <3> QED BY <2>2, <2>3, <3>1
  <2> QED BY <2>1, <2>3, <2>4
<1>7. ASSUME NEW k \in Nat, UpTo(b, k), e.n <= k PROVE UpTo(m, k)
  <2>1. SUFFICES ASSUME NEW i \in DOMAIN m PROVE m[i].n <= k BY DEF UpTo
  <2>2. CASE i \in 1..L BY <1>1, <1>7, <2>2 DEF UpTo
  <2>3. CASE i = L + 1 BY <1>1, <1>7, <2>3
  <2> QED BY <1>1, <2>1, <2>2, <2>3
<1> QED BY <1>3, <1>5, <1>6, <1>7 DEF m, L

LEMMA NumbersUpTo ==
  ASSUME NEW m \in Seq(MidiEvent), NEW k \in 0..MaxMidi, UpTo(m, k)
  PROVE  Numbers(m) \subseteq 1..k
<1>1. SUFFICES ASSUME NEW i \in DOMAIN m PROVE m[i].n \in 1..k BY DEF Numbers
<1>2. m[i] \in MidiEvent OBVIOUS
<1>3. m[i].n \in 1..MaxMidi BY <1>2, EventsAre
<1>4. m[i].n <= k BY DEF UpTo
<1> QED BY <1>3, <1>4, MidiAssumption

\* What the events of the collected bytes are after a callback.
LEMMA BytesStep ==
  ASSUME NEW st \in Collecting, NEW e \in MidiEvent, NEW r, PutTogether(st, e, r)
  PROVE  /\ r.bytes \in Seq(MidiEvent)
         /\ \A i \in DOMAIN r.bytes : r.bytes[i] = e \/ \E j \in DOMAIN st.bytes : r.bytes[i] = st.bytes[j]
<1>1. PICK b \in {<<>>, st.bytes} : r.bytes \in {b, Append(b, e)} BY DEF PutTogether
<1>2. b \in Seq(MidiEvent)
  <2>1. st.bytes \in Seq(MidiEvent) BY DEF Collecting
  <2>2. <<>> \in Seq(MidiEvent) OBVIOUS
  <2> QED BY <1>1, <2>1, <2>2
<1>3. CASE r.bytes = b BY <1>1, <1>2, <1>3
<1>4. CASE r.bytes = Append(b, e)
  <2> DEFINE m == Append(b, e)
             L == Len(b)
  <2>1. /\ m \in Seq(MidiEvent) /\ DOMAIN b = 1..L
        /\ \A i \in 1..L : m[i] = b[i]
        /\ m[L + 1] = e
        /\ \A i \in DOMAIN m : i \in DOMAIN b \/ i = L + 1
    BY <1>2, AppendIs
  <2>2. \A i \in DOMAIN b : \E j \in DOMAIN st.bytes : b[i] = st.bytes[j] BY <1>1
  <2> HIDE DEF m, L
  <2>3. r.bytes = m BY <1>4 DEF m
  <2> QED BY <2>1, <2>2, <2>3
<1> QED BY <1>1, <1>3, <1>4

LEMMA BytesUpTo ==
  ASSUME NEW st \in Collecting, NEW e \in MidiEvent, NEW r, PutTogether(st, e, r),
         NEW k \in Nat, NEW k2 \in Nat, k <= k2, e.n <= k2, UpTo(st.bytes, k)
  PROVE  UpTo(r.bytes, k2)
<1>1. SUFFICES ASSUME NEW i \in DOMAIN r.bytes PROVE r.bytes[i].n <= k2 BY DEF UpTo
<1>2. r.bytes[i] = e \/ \E j \in DOMAIN st.bytes : r.bytes[i] = st.bytes[j] BY BytesStep
<1>3. ASSUME NEW j \in DOMAIN st.bytes PROVE st.bytes[j].n \in Nat /\ st.bytes[j].n <= k
  <2>1. st.bytes[j] \in MidiEvent BY DEF Collecting
  <2> QED BY <2>1, EventsAre DEF UpTo
<1> QED BY <1>2, <1>3

\* Messages added to a queue and taken from it.
LEMMA QueueAppend ==
  ASSUME NEW q \in Seq(Message), NEW m \in Message
  PROVE  /\ Append(q, m) \in Seq(Message)
         /\ \A k \in Nat : (AllUpTo(q, k) /\ UpTo(m, k)) => AllUpTo(Append(q, m), k)
         /\ (InOrder(q) /\ (Whole(m) => Below(q, m[1].n))) => InOrder(Append(q, m))
         /\ \A r \in Seq(Message) :
              (Before(r, q) /\ (Whole(m) => Below(r, m[1].n))) => Before(r, Append(q, m))
         /\ \A k \in Nat : (Below(q, k) /\ (Whole(m) => m[1].n < k)) => Below(Append(q, m), k)
         /\ \A S : (AllWhole(q, S) /\ (Whole(m) \/ Numbers(m) \cap S # {})) => AllWhole(Append(q, m), S)
         /\ AllNumbers(Append(q, m)) = AllNumbers(q) \cup Numbers(m)
         /\ \A S : (FirstsOutside(q, S) /\ m[1].n \notin S) => FirstsOutside(Append(q, m), S)
<1> DEFINE Q == Append(q, m)
           L == Len(q)
<1>1. /\ Q \in Seq(Message) /\ L \in Nat /\ DOMAIN q = 1..L /\ DOMAIN Q = 1..(L + 1)
      /\ \A i \in DOMAIN q : Q[i] = q[i]
      /\ Q[L + 1] = m
      /\ \A i \in DOMAIN Q : i \in DOMAIN q \/ i = L + 1
      /\ L + 1 \in DOMAIN Q
  BY AppendIs
<1> HIDE DEF Q, L
<1>2. \A k \in Nat : (AllUpTo(q, k) /\ UpTo(m, k)) => AllUpTo(Q, k) BY <1>1 DEF AllUpTo
<1>3. ASSUME InOrder(q), Whole(m) => Below(q, m[1].n) PROVE InOrder(Q)
  <2>1. SUFFICES ASSUME NEW i \in DOMAIN Q, NEW j \in DOMAIN Q, i < j, Whole(Q[i]), Whole(Q[j])
                 PROVE  Q[i][1].n < Q[j][1].n
    BY DEF InOrder
  <2>2. i \in DOMAIN q BY <1>1, <2>1
  <2>3. CASE j \in DOMAIN q BY <1>1, <1>3, <2>1, <2>2, <2>3 DEF InOrder
  <2>4. CASE j = L + 1 BY <1>1, <1>3, <2>1, <2>2, <2>4 DEF Below
  <2> QED BY <1>1, <2>3, <2>4
<1>4. ASSUME NEW r \in Seq(Message), Before(r, q), Whole(m) => Below(r, m[1].n) PROVE Before(r, Q)
  <2>1. SUFFICES ASSUME NEW i \in DOMAIN r, NEW j \in DOMAIN Q, Whole(r[i]), Whole(Q[j])
                 PROVE  r[i][1].n < Q[j][1].n
    BY DEF Before
  <2>3. CASE j \in DOMAIN q BY <1>1, <1>4, <2>1, <2>3 DEF Before
  <2>4. CASE j = L + 1 BY <1>1, <1>4, <2>1, <2>4 DEF Below
  <2> QED BY <1>1, <2>3, <2>4
<1>5. \A k \in Nat : (Below(q, k) /\ (Whole(m) => m[1].n < k)) => Below(Q, k) BY <1>1 DEF Below
<1>6. \A S : (AllWhole(q, S) /\ (Whole(m) \/ Numbers(m) \cap S # {})) => AllWhole(Q, S) BY <1>1 DEF AllWhole
<1>7. AllNumbers(Q) = AllNumbers(q) \cup Numbers(m)
  <2>1. ASSUME NEW n, n \in AllNumbers(Q) PROVE n \in AllNumbers(q) \cup Numbers(m)
    <3>1. PICK i \in DOMAIN Q : n \in Numbers(Q[i]) BY <2>1 DEF AllNumbers
    <3>2. CASE i \in DOMAIN q BY <1>1, <3>1, <3>2 DEF AllNumbers
    <3>3. CASE i = L + 1 BY <1>1, <3>1, <3>3
    <3> QED BY <1>1, <3>2, <3>3
  <2>2. ASSUME NEW n, n \in AllNumbers(q) PROVE n \in AllNumbers(Q)
    <3>1. PICK i \in DOMAIN q : n \in Numbers(q[i]) BY <2>2 DEF AllNumbers
    <3>2. i \in DOMAIN Q /\ Q[i] = q[i] BY <1>1
    <3> QED BY <3>1, <3>2 DEF AllNumbers
  <2>3. Numbers(m) \subseteq AllNumbers(Q) BY <1>1 DEF AllNumbers
  <2> QED BY <2>1, <2>2, <2>3
<1>8. \A S : (FirstsOutside(q, S) /\ m[1].n \notin S) => FirstsOutside(Q, S) BY <1>1 DEF FirstsOutside
<1> QED BY <1>1, <1>2, <1>3, <1>4, <1>5, <1>6, <1>7, <1>8 DEF Q

LEMMA QueueTail ==
  ASSUME NEW q \in Seq(Message), q # <<>>
  PROVE  /\ Tail(q) \in Seq(Message) /\ Head(q) \in Message /\ Len(Tail(q)) <= Len(q)
         /\ \A k \in Nat : AllUpTo(q, k) => AllUpTo(Tail(q), k) /\ UpTo(Head(q), k)
         /\ InOrder(q) => InOrder(Tail(q))
         /\ \A r \in Seq(Message) : Before(r, q) => Before(r, Tail(q))
         /\ \A r \in Seq(Message) : (Before(r, q) /\ Whole(Head(q))) => Below(r, Head(q)[1].n)
         /\ \A r \in Seq(Message) : (Before(r, q) /\ InOrder(q)) => Before(Append(r, Head(q)), Tail(q))
         /\ \A k \in Nat : Below(q, k) => Below(Tail(q), k) /\ (Whole(Head(q)) => Head(q)[1].n < k)
         /\ \A S : AllWhole(q, S) => AllWhole(Tail(q), S) /\ (Whole(Head(q)) \/ Numbers(Head(q)) \cap S # {})
         /\ AllNumbers(q) = AllNumbers(Tail(q)) \cup Numbers(Head(q))
         /\ \A S : FirstsOutside(q, S) => FirstsOutside(Tail(q), S) /\ Head(q)[1].n \notin S
<1> DEFINE T == Tail(q)
           m == Head(q)
           L == Len(q)
<1>1. /\ m = q[1] /\ m \in Message /\ T \in Seq(Message) /\ L \in Nat \ {0} /\ Len(T) = L - 1
      /\ DOMAIN q = 1..L /\ DOMAIN T = 1..(L - 1)
      /\ \A i \in DOMAIN T : T[i] = q[i + 1] /\ i + 1 \in DOMAIN q
  BY TailIs
<1> HIDE DEF T, m, L
<1>2. 1 \in DOMAIN q BY <1>1
<1>3. ASSUME NEW i \in DOMAIN q, i # 1 PROVE i - 1 \in DOMAIN T /\ T[i - 1] = q[i]
  <2>1. i - 1 \in DOMAIN T BY <1>1, <1>3
  <2>2. (i - 1) + 1 = i BY <1>1, <1>3
  <2> QED BY <1>1, <2>1, <2>2
<1>4. \A k \in Nat : AllUpTo(q, k) => AllUpTo(T, k) /\ UpTo(m, k) BY <1>1, <1>2 DEF AllUpTo
<1>5. ASSUME InOrder(q) PROVE InOrder(T)
  <2>1. SUFFICES ASSUME NEW i \in DOMAIN T, NEW j \in DOMAIN T, i < j, Whole(T[i]), Whole(T[j])
                 PROVE  T[i][1].n < T[j][1].n
    BY DEF InOrder
  <2>2. i + 1 < j + 1 /\ i + 1 \in DOMAIN q /\ j + 1 \in DOMAIN q /\ T[i] = q[i + 1] /\ T[j] = q[j + 1]
    BY <1>1, <2>1
  <2> QED BY <1>5, <2>1, <2>2 DEF InOrder
<1>6. \A r \in Seq(Message) : Before(r, q) => Before(r, T) BY <1>1 DEF Before
<1>7. \A r \in Seq(Message) : (Before(r, q) /\ Whole(m)) => Below(r, m[1].n) BY <1>1, <1>2 DEF Before, Below
<1>8. ASSUME NEW r \in Seq(Message), Before(r, q), InOrder(q) PROVE Before(Append(r, m), T)
  <2>1. SUFFICES ASSUME NEW i \in DOMAIN Append(r, m), NEW j \in DOMAIN T, Whole(Append(r, m)[i]), Whole(T[j])
                 PROVE  Append(r, m)[i][1].n < T[j][1].n
    BY DEF Before
  <2>2. /\ i \in DOMAIN r \/ i = Len(r) + 1
        /\ \A k \in DOMAIN r : Append(r, m)[k] = r[k]
        /\ Append(r, m)[Len(r) + 1] = m
    BY <1>1, AppendIs
  <2>3. j + 1 \in DOMAIN q /\ T[j] = q[j + 1] /\ 1 < j + 1 BY <1>1
  <2>4. CASE i \in DOMAIN r BY <1>8, <2>1, <2>2, <2>3, <2>4 DEF Before
  <2>5. CASE i = Len(r) + 1
    <3>1. Append(r, m)[i] = q[1] BY <1>1, <2>2, <2>5
    <3> QED BY <1>2, <1>8, <2>1, <2>3, <3>1 DEF InOrder
  <2> QED BY <2>2, <2>4, <2>5
<1>9. \A k \in Nat : Below(q, k) => Below(T, k) /\ (Whole(m) => m[1].n < k) BY <1>1, <1>2 DEF Below
<1>10. \A S : AllWhole(q, S) => AllWhole(T, S) /\ (Whole(m) \/ Numbers(m) \cap S # {})
  BY <1>1, <1>2 DEF AllWhole
<1>11. AllNumbers(q) = AllNumbers(T) \cup Numbers(m)
  <2>1. ASSUME NEW n, n \in AllNumbers(q) PROVE n \in AllNumbers(T) \cup Numbers(m)
    <3>1. PICK i \in DOMAIN q : n \in Numbers(q[i]) BY <2>1 DEF AllNumbers
    <3>2. CASE i = 1 BY <1>1, <3>1, <3>2
    <3>3. CASE i # 1
      <4>1. i - 1 \in DOMAIN T /\ T[i - 1] = q[i] BY <1>3, <3>3
      <4> QED BY <3>1, <4>1 DEF AllNumbers
    <3> QED BY <3>2, <3>3
  <2>2. AllNumbers(T) \subseteq AllNumbers(q) BY <1>1 DEF AllNumbers
  <2>3. Numbers(m) \subseteq AllNumbers(q) BY <1>1, <1>2 DEF AllNumbers
  <2> QED BY <2>1, <2>2, <2>3
<1>12. \A S : FirstsOutside(q, S) => FirstsOutside(T, S) /\ m[1].n \notin S BY <1>1, <1>2 DEF FirstsOutside
<1>13. Len(T) <= L BY <1>1
<1> QED BY <1>1, <1>4, <1>5, <1>6, <1>7, <1>8, <1>9, <1>10, <1>11, <1>12, <1>13 DEF T, m, L

-----------------------------------------------------------------------------
(* An event of the device: h and g are the history before and after, but    *)
(* for what the queue refuses.                                             *)
Device == MidiEvent \cup {NoEvent}

Fresh(port, d, h, e, d2, g) ==
  /\ e.n = h.sent + 1 /\ e.part = 1
  /\ d # NoEvent => e.type = "realtime"
  /\ e.type # "sysex" => Ends(e)
  /\ d2 = IF d # NoEvent \/ Ends(e) THEN d ELSE e
  /\ g.sent = e.n
  /\ g.ended = IF Ends(e) THEN h.ended \cup {e.n} ELSE h.ended
  /\ g.cut <=> (h.cut /\ ~(e.type = "sysex" /\ Ends(e)))
  /\ g.spoilt = h.spoilt \cup (IF d # NoEvent THEN {e.n, d.n} ELSE {})
                         \cup (IF port = "open" /\ ~h.cut THEN {} ELSE {e.n})
  /\ g.refused = h.refused /\ g.muted = h.muted

Continues(d, h, e, d2, g) ==
  /\ d # NoEvent /\ e = [d EXCEPT !.part = @ + 1]
  /\ d2 = IF Ends(e) THEN NoEvent ELSE e
  /\ g.sent = h.sent
  /\ g.ended = IF Ends(e) THEN h.ended \cup {e.n} ELSE h.ended
  /\ g.cut <=> (h.cut /\ ~Ends(e))
  /\ g.spoilt = h.spoilt /\ g.refused = h.refused /\ g.muted = h.muted

\* The device.
LEMMA NoEventIs == NoEvent \notin MidiEvent /\ NoEvent.n = 0 /\ NoEvent.part = 0
<1>1. NoEvent.n = 0 /\ NoEvent.part = 0 BY DEF NoEvent
<1> QED BY <1>1, EventsAre

LEMMA CollectedAre ==
  ASSUME NEW st \in Collecting, NEW i \in DOMAIN st.bytes
  PROVE  st.bytes[i] \in MidiEvent /\ st.bytes[i].n \in Nat \ {0} /\ st.bytes[i].part \in Nat \ {0}
<1>1. st.bytes[i] \in MidiEvent BY DEF Collecting
<1> QED BY <1>1, EventsAre

LEMMA DeviceFresh ==
  ASSUME NEW st \in Collecting, NEW e \in MidiEvent, NEW r, PutTogether(st, e, r),
         NEW d \in Device, NEW d2, NEW h, NEW g, NEW port, HistoryInv(h),
         DeviceInv(d, st.bytes, h), Fresh(port, d, h, e, d2, g)
  PROVE  d2 \in Device /\ DeviceInv(d2, r.bytes, g)
<1>1. h.sent \in Nat /\ h.ended \subseteq 1..h.sent BY MidiAssumption DEF HistoryInv, History
<1>2. e.n = h.sent + 1 /\ e.part = 1 /\ g.sent = e.n BY DEF Fresh
<1>3. d2 = d \/ (d2 = e /\ d = NoEvent /\ ~Ends(e) /\ e.type = "sysex") BY DEF Fresh
<1>4. d2 \in Device BY <1>3 DEF Device
<1>5. UpTo(r.bytes, g.sent)
  <2>1. UpTo(st.bytes, h.sent) BY DEF DeviceInv
  <2> QED BY <1>1, <1>2, <2>1, BytesUpTo
<1>6. ASSUME d2 # NoEvent
      PROVE  d2.n <= g.sent /\ d2.part < d2.of /\ d2.type = "sysex" /\ d2.n \notin g.ended
  <2>1. CASE d2 = d
    <3>1. d.n <= h.sent /\ d.part < d.of /\ d.type = "sysex" /\ d.n \notin h.ended BY <1>6, <2>1 DEF DeviceInv
    <3>2. d.n \in Nat BY <1>6, <2>1, EventsAre DEF Device
    <3>3. g.ended \subseteq h.ended \cup {e.n} BY DEF Fresh
    <3> QED BY <1>1, <1>2, <2>1, <3>1, <3>2, <3>3
  <2>2. CASE d2 = e /\ ~Ends(e) /\ e.type = "sysex"
    <3>1. e.part < e.of
      <4>1. e.part # e.of BY <2>2 DEF Ends
      <4>2. e.of \in Nat \ {0} BY EventsAre
      <4> QED BY <1>2, <4>1, <4>2
    <3>2. g.ended = h.ended BY <2>2 DEF Fresh
    <3> QED BY <1>1, <1>2, <2>2, <3>1, <3>2
  <2> QED BY <1>3, <2>1, <2>2
<1>7. ASSUME NEW i \in DOMAIN r.bytes, r.bytes[i].n = d2.n PROVE r.bytes[i].part <= d2.part
  <2>1. CASE r.bytes[i] = e
    <3>1. d2 # d
      <4>1. CASE d = NoEvent BY <1>1, <1>2, <1>7, <2>1, <4>1, NoEventIs
      <4>2. CASE d # NoEvent
        <5>1. d.n <= h.sent /\ d.n \in Nat BY <4>2, EventsAre DEF DeviceInv, Device
        <5> QED BY <1>1, <1>2, <1>7, <2>1, <5>1
      <4> QED BY <4>1, <4>2
    <3> QED BY <1>2, <1>3, <2>1, <3>1
  <2>2. ASSUME NEW j \in DOMAIN st.bytes, r.bytes[i] = st.bytes[j] PROVE r.bytes[i].part <= d2.part
    <3>1. st.bytes[j].n \in Nat /\ st.bytes[j].n <= h.sent BY CollectedAre DEF DeviceInv, UpTo
    <3>2. d2 # e BY <1>1, <1>2, <1>7, <2>2, <3>1
    <3> QED BY <1>3, <1>7, <2>2, <3>2 DEF DeviceInv
  <2> QED BY <2>1, <2>2, BytesStep
<1> QED BY <1>4, <1>5, <1>6, <1>7 DEF DeviceInv

LEMMA NextEvent ==
  ASSUME NEW d \in Device, NEW d2, NEW h, NEW g, NEW e, NEW b, DeviceInv(d, b, h), HistoryInv(h),
         Continues(d, h, e, d2, g)
  PROVE  /\ d \in MidiEvent /\ e \in MidiEvent /\ e.type = "sysex"
         /\ e.n = d.n /\ e.of = d.of /\ e.part = d.part + 1 /\ e.part <= e.of /\ e.part > 1
         /\ d.n <= h.sent /\ d.n \notin h.ended
<1>1. d \in MidiEvent BY DEF Device, Continues
<1>2. d.part < d.of /\ d.type = "sysex" /\ d.n <= h.sent /\ d.n \notin h.ended BY DEF DeviceInv, Continues
<1>3. d = [n |-> d.n, part |-> d.part, of |-> d.of, type |-> d.type] /\ d.part \in Nat \ {0} /\ d.of \in Nat \ {0}
  BY <1>1, EventsAre
<1>4. e = [d EXCEPT !.part = @ + 1] BY DEF Continues
<1>5. e.n = d.n /\ e.of = d.of /\ e.part = d.part + 1 /\ e.type = d.type BY <1>3, <1>4
<1>6. e = [n |-> d.n, part |-> d.part + 1, of |-> d.of, type |-> d.type] BY <1>3, <1>4
<1>7. d.of \in MidiParts \cup {1} /\ d.n \in 1..MaxMidi /\ d.type \in {"short", "realtime", "sysex"}
  BY <1>1 DEF MidiEvent
<1>8. d.part + 1 \in 1..d.of BY <1>2, <1>3
<1>9. e \in MidiEvent BY <1>6, <1>7, <1>8 DEF MidiEvent
<1> QED BY <1>1, <1>2, <1>3, <1>5, <1>9

LEMMA DeviceContinues ==
  ASSUME NEW st \in Collecting, NEW e, NEW r, PutTogether(st, e, r),
         NEW d \in Device, NEW d2, NEW h, NEW g, HistoryInv(h),
         DeviceInv(d, st.bytes, h), Continues(d, h, e, d2, g)
  PROVE  d2 \in Device /\ DeviceInv(d2, r.bytes, g)
<1>1. h.sent \in Nat /\ h.ended \subseteq 1..h.sent BY MidiAssumption DEF HistoryInv, History
<1>2. /\ d \in MidiEvent /\ e \in MidiEvent /\ e.type = "sysex"
      /\ e.n = d.n /\ e.of = d.of /\ e.part = d.part + 1 /\ e.part <= e.of
      /\ d.n <= h.sent /\ d.n \notin h.ended
  BY NextEvent
<1>3. d2 = IF Ends(e) THEN NoEvent ELSE e BY DEF Continues
<1>4. d2 \in Device BY <1>2, <1>3 DEF Device
<1>5. g.sent = h.sent BY DEF Continues
<1>6. UpTo(r.bytes, g.sent)
  <2>1. UpTo(st.bytes, h.sent) BY DEF DeviceInv
  <2>2. h.sent <= h.sent /\ e.n <= h.sent BY <1>1, <1>2
  <2> QED BY <1>1, <1>2, <1>5, <2>1, <2>2, BytesUpTo
<1>7. ASSUME d2 # NoEvent
      PROVE  d2.n <= g.sent /\ d2.part < d2.of /\ d2.type = "sysex" /\ d2.n \notin g.ended
  <2>1. d2 = e /\ ~Ends(e) BY <1>3, <1>7
  <2>2. e.part # e.of BY <2>1 DEF Ends
  <2>3. e.part < e.of BY <1>2, <2>2, EventsAre
  <2>4. g.ended = h.ended BY <2>1 DEF Continues
  <2> QED BY <1>2, <1>5, <2>1, <2>3, <2>4
<1>8. ASSUME NEW i \in DOMAIN r.bytes, r.bytes[i].n = d2.n PROVE r.bytes[i].part <= d2.part
  <2>1. r.bytes[i] \in MidiEvent /\ r.bytes[i].n \in Nat \ {0}
    <3>1. r.bytes \in Seq(MidiEvent) BY <1>2, BytesStep
    <3>2. r.bytes[i] \in MidiEvent BY <3>1
    <3> QED BY <3>2, EventsAre
  <2>2. d2 = e BY <1>3, <1>8, <2>1, NoEventIs
  <2>3. e.part \in Nat /\ d.part \in Nat BY <1>2, EventsAre
  <2>4. CASE r.bytes[i] = e BY <2>2, <2>3, <2>4
  <2>5. ASSUME NEW j \in DOMAIN st.bytes, r.bytes[i] = st.bytes[j] PROVE r.bytes[i].part <= d2.part
    <3>1. st.bytes[j].part <= d.part BY <1>2, <1>8, <2>2, <2>5 DEF DeviceInv
    <3>2. st.bytes[j].part \in Nat BY CollectedAre
    <3> QED BY <1>2, <2>2, <2>3, <2>5, <3>1, <3>2
  <2> QED BY <1>2, <2>4, <2>5, BytesStep
<1> QED BY <1>4, <1>6, <1>7, <1>8 DEF DeviceInv

-----------------------------------------------------------------------------
(* The queue and the history after an event.                               *)
Took(q, out, g, q2, h2) ==
  \/ out = <<>> /\ q2 = q /\ h2 = g
  \/ \E m : out = <<m>> /\ Len(q) < MidiQueueSize /\ q2 = Append(q, m) /\ h2 = g
  \/ \E m : out = <<m>> /\ q2 = q /\ h2 = [g EXCEPT !.refused = @ \cup Numbers(m)]

LEMMA QueueAfter ==
  ASSUME NEW st \in Collecting, NEW e \in MidiEvent, NEW r, PutTogether(st, e, r),
         NEW q \in Seq(Message), NEW q2, NEW g, NEW h2, Took(q, r.out, g, q2, h2)
  PROVE  \/ q2 = q
         \/ \E b \in {<<>>, st.bytes} :
              /\ b \in Seq(MidiEvent) /\ q2 = Append(q, Append(b, e))
              /\ r.out = <<Append(b, e)>> /\ r.bytes \in {<<>>, Append(b, e)}
<1>1. <<>> \in Seq(MidiEvent) /\ st.bytes \in Seq(MidiEvent) BY DEF Collecting
<1>2. CASE r.out = <<>> BY <1>2 DEF Took
<1>3. ASSUME NEW b \in {<<>>, st.bytes}, r.out = <<Append(b, e)>>, r.bytes \in {<<>>, Append(b, e)}, q2 # q
      PROVE  q2 = Append(q, Append(b, e))
  BY <1>3 DEF Took
<1> QED BY <1>1, <1>2, <1>3 DEF PutTogether

\* The messages up to a number are below the next one.
LEMMA UpToBelow ==
  ASSUME NEW q \in Seq(Message), NEW k \in Nat, AllUpTo(q, k)
  PROVE  Below(q, k + 1)
<1>1. SUFFICES ASSUME NEW i \in DOMAIN q PROVE q[i][1].n < k + 1 BY DEF Below
<1>2. q[i] \in Message OBVIOUS
<1>3. q[i] \in Seq(MidiEvent) /\ q[i] # <<>> BY <1>2 DEF Message
<1>4. 1 \in DOMAIN q[i] /\ q[i][1] \in MidiEvent BY <1>3
<1>5. q[i][1].n \in Nat BY <1>4, EventsAre
<1>6. q[i][1].n <= k BY <1>4 DEF AllUpTo, UpTo
<1> QED BY <1>5, <1>6

\* A longer bound.
LEMMA UpToMore ==
  ASSUME NEW q \in Seq(Message), NEW k \in Nat, AllUpTo(q, k)
  PROVE  AllUpTo(q, k + 1)
<1>1. SUFFICES ASSUME NEW i \in DOMAIN q, NEW j \in DOMAIN q[i] PROVE q[i][j].n <= k + 1 BY DEF AllUpTo, UpTo
<1>2. q[i] \in Message OBVIOUS
<1>3. q[i][j] \in MidiEvent BY <1>2 DEF Message
<1>4. q[i][j].n \in Nat BY <1>3, EventsAre
<1>5. q[i][j].n <= k BY DEF AllUpTo, UpTo
<1> QED BY <1>4, <1>5

\* Collected bytes with the event in them look like the parts of a message only with its number.
LEMMA LooksHasNumber ==
  ASSUME NEW b \in Seq(MidiEvent), NEW e \in MidiEvent, NEW d, LooksLike(Append(b, e), d)
  PROVE  e.n = d.n /\ e.part = d.part /\ Len(b) + 1 = d.part /\ \A i \in DOMAIN b : b[i].n = d.n /\ b[i].part = i
<1> DEFINE m == Append(b, e)
           L == Len(b)
<1>1. /\ L \in Nat /\ Len(m) = L + 1 /\ DOMAIN b = 1..L /\ DOMAIN m = 1..(L + 1)
      /\ \A i \in 1..L : m[i] = b[i]
      /\ m[L + 1] = e
  BY AppendIs
<1> HIDE DEF m, L
<1>2. Len(m) = d.part /\ \A i \in DOMAIN m : m[i].n = d.n /\ m[i].part = i BY DEF LooksLike, m
<1>3. L + 1 \in DOMAIN m /\ \A i \in DOMAIN b : i \in DOMAIN m BY <1>1
<1>4. L + 1 = d.part /\ e.n = d.n /\ e.part = d.part BY <1>1, <1>2, <1>3
<1>5. ASSUME NEW i \in DOMAIN b PROVE b[i].n = d.n /\ b[i].part = i BY <1>1, <1>2, <1>3
<1> QED BY <1>4, <1>5 DEF L

LEMMA OrderFresh ==
  ASSUME NEW st \in Collecting, NEW e \in MidiEvent, NEW r, PutTogether(st, e, r),
         NEW rt \in Seq(Message), NEW q \in Seq(Message), NEW q2, NEW h2, NEW g, Took(q, r.out, g, q2, h2),
         NEW d \in Device, NEW d2, NEW h, NEW port, HistoryInv(h),
         DeviceInv(d, st.bytes, h), Fresh(port, d, h, e, d2, g),
         OrderInv(rt, q, d, st.bytes, h.sent)
  PROVE  OrderInv(rt, q2, d2, r.bytes, g.sent)
<1> DEFINE k == h.sent
<1>1. k \in Nat BY MidiAssumption DEF HistoryInv, History
<1>2. e.n = k + 1 /\ g.sent = k + 1 /\ e.part = 1 BY DEF Fresh
<1>3. d2 = d \/ (d2 = e /\ d = NoEvent /\ ~Ends(e)) BY DEF Fresh
<1>4. AllUpTo(rt, k) /\ AllUpTo(q, k) /\ InOrder(rt) /\ InOrder(q) /\ Before(rt, q) BY DEF OrderInv
<1>5. Below(rt, k + 1) /\ Below(q, k + 1) BY <1>1, <1>4, UpToBelow
<1>6. AllUpTo(rt, k + 1) /\ AllUpTo(q, k + 1) BY <1>1, <1>4, UpToMore
<1>7. UpTo(st.bytes, k) BY DEF DeviceInv
<1>8. d # NoEvent => d.n <= k /\ d.n \in Nat /\ d.part \in Nat \ {0} BY EventsAre DEF DeviceInv, Device
<1>9. <<>> \in Seq(MidiEvent) /\ st.bytes \in Seq(MidiEvent) BY DEF Collecting
<1>10. ASSUME LooksLike(r.bytes, d2), d2 # NoEvent, d2 = d PROVE r.bytes = st.bytes /\ st.bytes # <<>>
  <2>1. PICK b \in {<<>>, st.bytes} : r.bytes \in {b, Append(b, e)} BY DEF PutTogether
  <2>2. b \in Seq(MidiEvent) BY <1>9, <2>1
  <2>3. r.bytes # Append(b, e)
    <3>1. SUFFICES ASSUME r.bytes = Append(b, e) PROVE FALSE OBVIOUS
    <3>2. LooksLike(Append(b, e), d) BY <1>10, <3>1
    <3>3. e.n = d.n BY <2>2, <3>2, LooksHasNumber
    <3> QED BY <1>1, <1>2, <1>8, <1>10, <3>3
  <2>4. r.bytes # <<>>
    <3>1. Len(r.bytes) = d.part BY <1>10 DEF LooksLike
    <3> QED BY <1>8, <1>10, <3>1
  <2> QED BY <2>1, <2>3, <2>4
<1>11. CASE q2 = q
  <2>1. (d2 # NoEvent /\ LooksLike(r.bytes, d2)) => Below(rt, d2.n) /\ Below(q, d2.n)
    <3>1. CASE d2 = d BY <1>10, <3>1 DEF OrderInv
    <3>2. CASE d2 = e BY <1>2, <1>5, <3>2
    <3> QED BY <1>3, <3>1, <3>2
  <2> QED BY <1>2, <1>4, <1>6, <1>11, <2>1 DEF OrderInv
<1>12. ASSUME NEW b \in {<<>>, st.bytes}, b \in Seq(MidiEvent), q2 = Append(q, Append(b, e)),
              r.bytes \in {<<>>, Append(b, e)}
       PROVE  OrderInv(rt, q2, d2, r.bytes, g.sent)
  <2> DEFINE m == Append(b, e)
  <2>1. m \in Message /\ (Whole(m) => Ends(e) /\ m[1].n = k + 1) BY <1>2, <1>12, MessageOf
  <2>2. UpTo(m, k + 1)
    <3>1. UpTo(b, k + 1)
      <4>1. CASE b = <<>> BY <4>1 DEF UpTo
      <4>2. CASE b = st.bytes
        <5>1. SUFFICES ASSUME NEW i \in DOMAIN st.bytes PROVE st.bytes[i].n <= k + 1 BY <4>2 DEF UpTo
        <5> QED BY <1>1, <1>7, CollectedAre DEF UpTo
      <4> QED BY <1>12, <4>1, <4>2
    <3>2. e.n <= k + 1 /\ k + 1 \in Nat BY <1>1, <1>2
    <3> QED BY <1>12, <3>1, <3>2, MessageOf
  <2>3. ASSUME d2 # NoEvent PROVE ~LooksLike(r.bytes, d2) \/ (d2 = e /\ ~Ends(e))
    <3>1. CASE d2 = d
      <4>1. SUFFICES ASSUME LooksLike(r.bytes, d2) PROVE FALSE BY <3>1
      <4>2. r.bytes = st.bytes /\ st.bytes # <<>> BY <1>10, <2>3, <3>1, <4>1
      <4>3. LooksLike(Append(b, e), d) BY <1>12, <3>1, <4>1, <4>2
      <4> QED BY <1>1, <1>2, <1>8, <1>12, <2>3, <3>1, <4>3, LooksHasNumber
    <3> QED BY <1>3, <3>1
  <2> HIDE DEF m, k
  <2>4. InOrder(q2) /\ Before(rt, q2) /\ AllUpTo(q2, k + 1)
    <3>1. q2 = Append(q, m) BY <1>12 DEF m
    <3>2. k + 1 \in Nat BY <1>1
    <3> QED BY <1>4, <1>5, <1>6, <2>1, <2>2, <3>1, <3>2, QueueAppend
  <2>5. (d2 # NoEvent /\ LooksLike(r.bytes, d2)) => Below(rt, d2.n) /\ Below(q2, d2.n)
    <3>1. SUFFICES ASSUME d2 = e, ~Ends(e) PROVE Below(rt, e.n) /\ Below(q2, e.n) BY <2>3
    <3>2. ~Whole(m) BY <2>1, <3>1
    <3>3. q2 = Append(q, m) /\ k + 1 \in Nat BY <1>1, <1>12 DEF m
    <3>4. Below(q2, k + 1) BY <1>5, <2>1, <3>2, <3>3, QueueAppend
    <3> QED BY <1>2, <1>5, <3>4
  <2> QED BY <1>2, <1>4, <1>6, <2>4, <2>5 DEF OrderInv
<1>13. \/ q2 = q
       \/ \E b \in {<<>>, st.bytes} :
            /\ b \in Seq(MidiEvent) /\ q2 = Append(q, Append(b, e))
            /\ r.out = <<Append(b, e)>> /\ r.bytes \in {<<>>, Append(b, e)}
  BY QueueAfter
<1> QED BY <1>11, <1>12, <1>13

LEMMA OrderContinues ==
  ASSUME NEW st \in Collecting, NEW e, NEW r, PutTogether(st, e, r),
         NEW rt \in Seq(Message), NEW q \in Seq(Message), NEW q2, NEW h2, NEW g, Took(q, r.out, g, q2, h2),
         NEW d \in Device, NEW d2, NEW h, HistoryInv(h),
         DeviceInv(d, st.bytes, h), Continues(d, h, e, d2, g),
         OrderInv(rt, q, d, st.bytes, h.sent)
  PROVE  OrderInv(rt, q2, d2, r.bytes, g.sent)
<1> DEFINE k == h.sent
<1>1. k \in Nat BY MidiAssumption DEF HistoryInv, History
<1>2. /\ d \in MidiEvent /\ e \in MidiEvent /\ e.n = d.n /\ e.part = d.part + 1 /\ d.n <= k /\ d # NoEvent
      /\ g.sent = k /\ d.n \in Nat /\ d.part \in Nat \ {0}
  <2>1. d \in MidiEvent /\ e \in MidiEvent /\ e.n = d.n /\ e.part = d.part + 1 /\ d.n <= k BY NextEvent
  <2> QED BY <2>1, EventsAre DEF Continues
<1>3. d2 = IF Ends(e) THEN NoEvent ELSE e BY DEF Continues
<1>4. AllUpTo(rt, k) /\ AllUpTo(q, k) /\ InOrder(rt) /\ InOrder(q) /\ Before(rt, q) BY DEF OrderInv
<1>5. UpTo(st.bytes, k) BY DEF DeviceInv
<1>6. <<>> \in Seq(MidiEvent) /\ st.bytes \in Seq(MidiEvent) BY DEF Collecting
<1>7. LooksLike(st.bytes, d) => Below(rt, d.n) /\ Below(q, d.n) BY <1>2 DEF OrderInv
\* What precedes the event in bytes that look like a message looks like the message before it.
<1>8. ASSUME NEW b \in {<<>>, st.bytes}, Len(b) + 1 = e.part, \A i \in DOMAIN b : b[i].n = e.n /\ b[i].part = i
      PROVE  LooksLike(st.bytes, d)
  <2>1. Len(b) \in Nat BY <1>6, <1>8
  <2>2. Len(b) = d.part BY <1>2, <1>8, <2>1
  <2>3. b # <<>> BY <1>2, <2>2
  <2> QED BY <1>2, <1>8, <2>2, <2>3 DEF LooksLike
<1>9. ASSUME LooksLike(r.bytes, d2), d2 # NoEvent PROVE LooksLike(st.bytes, d) /\ ~Ends(e) /\ d2 = e
  <2>1. PICK b \in {<<>>, st.bytes} : r.bytes \in {b, Append(b, e)} BY DEF PutTogether
  <2>2. b \in Seq(MidiEvent) BY <1>6, <2>1
  <2>3. d2 = e /\ ~Ends(e) BY <1>3, <1>9
  <2>4. CASE r.bytes = Append(b, e)
    <3>1. Len(b) + 1 = e.part /\ \A i \in DOMAIN b : b[i].n = e.n /\ b[i].part = i
      BY <1>2, <1>9, <2>2, <2>3, <2>4, LooksHasNumber
    <3> QED BY <1>8, <2>3, <3>1
  <2>5. CASE r.bytes = b
    <3>1. Len(b) = d.part + 1 /\ \A i \in DOMAIN b : b[i].n = d.n /\ b[i].part = i
      BY <1>2, <1>9, <2>3, <2>5 DEF LooksLike
    <3>2. d.part + 1 \in DOMAIN b BY <1>2, <2>2, <3>1
    <3>3. b = st.bytes BY <2>1, <3>2
    <3>4. b[d.part + 1].n = d.n /\ b[d.part + 1].part = d.part + 1 BY <3>1, <3>2
    <3>5. b[d.part + 1].part <= d.part BY <3>2, <3>3, <3>4 DEF DeviceInv
    <3> QED BY <1>2, <3>4, <3>5
  <2> QED BY <2>1, <2>4, <2>5
<1>10. CASE q2 = q
  <2>1. (d2 # NoEvent /\ LooksLike(r.bytes, d2)) => Below(rt, d2.n) /\ Below(q, d2.n)
    BY <1>2, <1>7, <1>9
  <2> QED BY <1>2, <1>4, <1>10, <2>1 DEF OrderInv
<1>11. ASSUME NEW b \in {<<>>, st.bytes}, b \in Seq(MidiEvent), q2 = Append(q, Append(b, e)),
              r.bytes \in {<<>>, Append(b, e)}
       PROVE  OrderInv(rt, q2, d2, r.bytes, g.sent)
  <2> DEFINE m == Append(b, e)
  <2>1. /\ m \in Message
        /\ Whole(m) => Ends(e) /\ m[1].n = d.n /\ LooksLike(st.bytes, d)
    <3>1. m \in Message BY <1>2, <1>11, MessageOf
    <3>2. Whole(m) => /\ Ends(e) /\ m[1].n = e.n /\ Len(b) + 1 = e.part
                      /\ \A i \in DOMAIN b : b[i].n = e.n /\ b[i].part = i
      BY <1>2, <1>11, MessageOf
    <3> HIDE DEF m
    <3>3. ASSUME Whole(m) PROVE LooksLike(st.bytes, d) BY <1>8, <3>2, <3>3
    <3> QED BY <1>2, <3>1, <3>2, <3>3
  <2>2. UpTo(m, k)
    <3>1. UpTo(b, k)
      <4>1. CASE b = <<>> BY <4>1 DEF UpTo
      <4> QED BY <1>5, <1>11, <4>1
    <3> QED BY <1>1, <1>2, <1>11, <3>1, MessageOf
  <2> HIDE DEF m, k
  <2>3. q2 = Append(q, m) BY <1>11 DEF m
  <2>4. InOrder(q2) /\ Before(rt, q2) /\ AllUpTo(q2, k)
    BY <1>1, <1>4, <1>7, <2>1, <2>2, <2>3, QueueAppend
  <2>5. ASSUME d2 # NoEvent, LooksLike(r.bytes, d2) PROVE Below(rt, d2.n) /\ Below(q2, d2.n)
    <3>1. LooksLike(st.bytes, d) /\ ~Ends(e) /\ d2 = e BY <1>9, <2>5
    <3>2. ~Whole(m) BY <2>1, <3>1
    <3>3. Below(rt, d.n) /\ Below(q, d.n) BY <1>7, <3>1
    <3>4. Below(q2, d.n) BY <1>2, <2>1, <2>3, <3>2, <3>3, QueueAppend
    <3> QED BY <1>2, <3>1, <3>3, <3>4
  <2> QED BY <1>2, <1>4, <2>4, <2>5 DEF OrderInv, k
<1>12. \/ q2 = q
       \/ \E b \in {<<>>, st.bytes} :
            /\ b \in Seq(MidiEvent) /\ q2 = Append(q, Append(b, e))
            /\ r.out = <<Append(b, e)>> /\ r.bytes \in {<<>>, Append(b, e)}
  BY <1>2, QueueAfter
<1> QED BY <1>10, <1>11, <1>12

-----------------------------------------------------------------------------
(* The backends that put the parts together.                               *)
Handled(port, st, e, r) ==
  IF port = "closed" THEN r = Result(st.sysex, st.bytes, <<>>) ELSE Assembles(st, e, port = "opening", r)

LEMMA PartsAre ==
  ASSUME NEW d \in MidiEvent
  PROVE  /\ Parts(d) \in Seq(MidiEvent) /\ Len(Parts(d)) = d.part /\ DOMAIN Parts(d) = 1..d.part
         /\ \A i \in 1..d.part : Parts(d)[i].n = d.n /\ Parts(d)[i].part = i /\ Parts(d)[i] = [d EXCEPT !.part = i]
         /\ Parts(d)[d.part] = d
         /\ Numbers(Parts(d)) = {d.n}
<1>1. d.part \in Nat \ {0} /\ d = [n |-> d.n, part |-> d.part, of |-> d.of, type |-> d.type] BY EventsAre
<1>2. PICK k \in MidiParts \cup {1} : d.part \in 1..k BY DEF MidiEvent
<1>3. k \in Nat BY <1>2, MidiAssumption
<1>4. d.of \in MidiParts \cup {1} /\ d.n \in 1..MaxMidi /\ d.type \in {"short", "realtime", "sysex"}
  BY DEF MidiEvent
<1>5. ASSUME NEW i \in 1..d.part
      PROVE  [d EXCEPT !.part = i] \in MidiEvent /\ [d EXCEPT !.part = i].n = d.n /\ [d EXCEPT !.part = i].part = i
  <2>1. [d EXCEPT !.part = i] = [n |-> d.n, part |-> i, of |-> d.of, type |-> d.type] BY <1>1
  <2>2. i \in 1..k BY <1>1, <1>2, <1>3
  <2>3. i \in UNION {1..j : j \in MidiParts \cup {1}} BY <1>2, <2>2
  <2> QED BY <1>4, <2>1, <2>3 DEF MidiEvent
<1>6. Parts(d) \in [1..d.part -> MidiEvent] BY <1>5 DEF Parts
<1>7. Parts(d) \in Seq(MidiEvent) /\ Len(Parts(d)) = d.part /\ DOMAIN Parts(d) = 1..d.part BY <1>1, <1>6
<1>8. \A i \in 1..d.part : Parts(d)[i] = [d EXCEPT !.part = i] BY DEF Parts
<1>9. d.part \in 1..d.part /\ [d EXCEPT !.part = d.part] = d BY <1>1
<1>10. Parts(d)[d.part] = d BY <1>8, <1>9
<1>11. \A i \in 1..d.part : Parts(d)[i].n = d.n /\ Parts(d)[i].part = i BY <1>5, <1>8
<1>12. Numbers(Parts(d)) = {d.n} BY <1>7, <1>9, <1>11 DEF Numbers
<1> QED BY <1>7, <1>8, <1>10, <1>11, <1>12

LEMMA PartsAppend ==
  ASSUME NEW d \in MidiEvent, NEW e \in MidiEvent, e = [d EXCEPT !.part = @ + 1]
  PROVE  Append(Parts(d), e) = Parts(e)
<1> DEFINE P == Parts(d)
           A == Append(P, e)
<1>1. d.part \in Nat /\ d = [n |-> d.n, part |-> d.part, of |-> d.of, type |-> d.type] BY EventsAre
<1>2. e = [n |-> d.n, part |-> d.part + 1, of |-> d.of, type |-> d.type] BY <1>1
<1>3. /\ P \in Seq(MidiEvent) /\ Len(P) = d.part /\ DOMAIN P = 1..d.part
      /\ \A i \in 1..d.part : P[i] = [d EXCEPT !.part = i]
  BY PartsAre
<1>4. /\ DOMAIN Parts(e) = 1..(d.part + 1)
      /\ Parts(e)[d.part + 1] = e
      /\ \A i \in 1..(d.part + 1) : Parts(e)[i] = [e EXCEPT !.part = i]
      /\ Parts(e) \in Seq(MidiEvent) /\ Len(Parts(e)) = d.part + 1
  <2>1. e.part = d.part + 1 BY <1>2
  <2>2. /\ Parts(e) \in Seq(MidiEvent) /\ Len(Parts(e)) = e.part /\ DOMAIN Parts(e) = 1..e.part
        /\ \A i \in 1..e.part : Parts(e)[i] = [e EXCEPT !.part = i]
        /\ Parts(e)[e.part] = e
    <3>1. ASSUME NEW x \in MidiEvent
          PROVE  /\ Parts(x) \in Seq(MidiEvent) /\ Len(Parts(x)) = x.part /\ DOMAIN Parts(x) = 1..x.part
                 /\ \A i \in 1..x.part : Parts(x)[i] = [x EXCEPT !.part = i]
                 /\ Parts(x)[x.part] = x
      BY PartsAre
    <3> QED BY Zenon, <3>1
  <2> HIDE DEF Parts
  <2> QED BY <2>1, <2>2
<1> HIDE DEF P
<1>5. /\ A \in Seq(MidiEvent) /\ Len(A) = d.part + 1 /\ A[d.part + 1] = e
      /\ \A i \in 1..d.part : A[i] = P[i]
  BY <1>1, <1>3, AppendIs
<1> HIDE DEF A
<1>6. ASSUME NEW i \in 1..(d.part + 1) PROVE A[i] = Parts(e)[i]
  <2>1. CASE i = d.part + 1 BY <1>4, <1>5, <2>1
  <2>2. CASE i # d.part + 1
    <3>1. i \in 1..d.part BY <1>1, <2>2
    <3>2. [d EXCEPT !.part = i] = [e EXCEPT !.part = i] BY <1>1, <1>2
    <3>3. A[i] = [d EXCEPT !.part = i] BY <1>3, <1>5, <3>1
    <3>4. Parts(e)[i] = [e EXCEPT !.part = i] BY <1>4
    <3> QED BY <3>2, <3>3, <3>4
  <2> QED BY <2>1, <2>2
<1>7. A = Parts(e) BY <1>1, <1>4, <1>5, <1>6, SeqEqual
<1> QED BY <1>7 DEF A, P

LEMMA AssemblyFresh ==
  ASSUME NEW st \in Collecting, NEW e \in MidiEvent, NEW r, PutTogether(st, e, r),
         NEW port \in {"closed", "opening", "open"}, Handled(port, st, e, r),
         NEW d \in Device, NEW d2, NEW h, NEW g, HistoryInv(h), Fresh(port, d, h, e, d2, g),
         NEW q, ClosedInv(port, st.sysex, st.bytes, q), AssemblyInv(port, d, st.sysex, st.bytes, h)
  PROVE  AssemblyInv(port, d2, r.sysex, r.bytes, g)
<1>1. st.sysex \in BOOLEAN /\ r.sysex \in BOOLEAN /\ h.cut \in BOOLEAN
  BY DEF Collecting, PutTogether, HistoryInv, History
<1>2. d2 = d \/ (d2 = e /\ d = NoEvent /\ ~Ends(e) /\ e.type = "sysex") BY DEF Fresh
<1>3. e # NoEvent BY NoEventIs
<1>4. ASSUME d2 # NoEvent, d2.n \notin g.spoilt
      PROVE  port = "open" /\ ~g.cut /\ r.sysex /\ r.bytes = Parts(d2)
  <2>1. d2 = e /\ d = NoEvent /\ ~Ends(e) /\ e.type = "sysex" /\ e.part = 1 BY <1>2, <1>4 DEF Fresh
  <2>2. port = "open" /\ ~h.cut BY <1>4, <2>1 DEF Fresh
  <2>3. ~st.sysex BY <2>1, <2>2 DEF AssemblyInv
  <2>4. Assembles(st, e, FALSE, r) BY <2>2 DEF Handled
  <2>5. r.sysex /\ r.bytes = <<e>> BY <2>1, <2>3, <2>4 DEF Assembles, GoesOnWith
  <2>6. ~g.cut BY <2>2 DEF Fresh
  <2>7. Parts(e) = <<e>>
    <3>1. Parts(e) \in Seq(MidiEvent) /\ Len(Parts(e)) = 1 /\ Parts(e)[1] = e BY <2>1, PartsAre
    <3> QED BY <3>1
  <2> QED BY <2>1, <2>2, <2>5, <2>6, <2>7
<1>5. ASSUME r.sysex, ~g.cut PROVE d2 # NoEvent
  <2>1. SUFFICES ASSUME d2 = NoEvent PROVE FALSE OBVIOUS
  <2>2. d = NoEvent /\ d2 = d BY <1>2, <1>3, <2>1
  <2>3. e.type = "sysex" => Ends(e) BY <1>3, <2>1 DEF Fresh
  <2>4. CASE port = "closed"
    <3>1. r.sysex = st.sysex BY <2>4, ResultIs DEF Handled
    <3> QED BY <1>1, <1>5, <2>4, <3>1 DEF ClosedInv
  <2>5. CASE port # "closed"
    <3>1. Assembles(st, e, port = "opening", r) BY <2>5 DEF Handled
    <3>2. st.sysex BY <1>5, <2>3, <3>1 DEF Assembles, GoesOnWith
    <3>3. h.cut BY <2>2, <3>2 DEF AssemblyInv
    <3>4. e.type = "sysex" /\ Ends(e) BY <1>5, <3>3 DEF Fresh
    <3>5. ~(backend = "alsa" /\ port = "opening") BY <3>2 DEF ClosedInv
    <3> QED BY <1>5, <3>1, <3>4, <3>5 DEF Assembles
  <2> QED BY <2>4, <2>5
<1> QED BY <1>4, <1>5 DEF AssemblyInv

LEMMA AssemblyContinues ==
  ASSUME NEW st \in Collecting, NEW e, NEW r, PutTogether(st, e, r),
         NEW port \in {"closed", "opening", "open"}, Handled(port, st, e, r),
         NEW d \in Device, NEW d2, NEW h, NEW g, HistoryInv(h), Continues(d, h, e, d2, g),
         DeviceInv(d, st.bytes, h),
         NEW q, ClosedInv(port, st.sysex, st.bytes, q), AssemblyInv(port, d, st.sysex, st.bytes, h)
  PROVE  AssemblyInv(port, d2, r.sysex, r.bytes, g)
<1>1. /\ d \in MidiEvent /\ e \in MidiEvent /\ e.type = "sysex" /\ e.n = d.n /\ e.part > 1
  BY NextEvent
<1>2. st.sysex \in BOOLEAN /\ r.sysex \in BOOLEAN /\ h.cut \in BOOLEAN
  BY DEF Collecting, PutTogether, HistoryInv, History
<1>3. d # NoEvent /\ d2 = IF Ends(e) THEN NoEvent ELSE e BY DEF Continues
<1>4. e # NoEvent BY <1>1, NoEventIs
<1>5. ASSUME d2 # NoEvent, d2.n \notin g.spoilt
      PROVE  port = "open" /\ ~g.cut /\ r.sysex /\ r.bytes = Parts(d2)
  <2>1. d2 = e /\ ~Ends(e) BY <1>3, <1>5
  <2>2. d.n \notin h.spoilt BY <1>1, <1>5, <2>1 DEF Continues
  <2>3. port = "open" /\ ~h.cut /\ st.sysex /\ st.bytes = Parts(d) BY <1>3, <2>2 DEF AssemblyInv
  <2>4. Assembles(st, e, FALSE, r) BY <2>3 DEF Handled
  <2>5. r.sysex /\ r.bytes = Append(st.bytes, e) BY <1>1, <2>1, <2>3, <2>4 DEF Assembles
  <2>6. ~g.cut BY <2>3 DEF Continues
  <2>7. Append(Parts(d), e) = Parts(e) BY <1>1, PartsAppend DEF Continues
  <2> QED BY <2>1, <2>3, <2>5, <2>6, <2>7
<1>6. ASSUME r.sysex, ~g.cut PROVE d2 # NoEvent
  <2>1. SUFFICES ASSUME Ends(e) PROVE FALSE BY <1>3, <1>4
  <2>2. CASE port = "closed"
    <3>1. r.sysex = st.sysex BY <2>2, ResultIs DEF Handled
    <3> QED BY <1>2, <1>6, <2>2, <3>1 DEF ClosedInv
  <2>3. CASE port # "closed"
    <3>1. Assembles(st, e, port = "opening", r) BY <2>3 DEF Handled
    <3>2. CASE backend = "alsa" /\ port = "opening" BY <1>6, <3>1, <3>2 DEF Assembles, ClosedInv
    <3>3. CASE ~(backend = "alsa" /\ port = "opening") BY <1>1, <1>6, <2>1, <3>1, <3>3 DEF Assembles
    <3> QED BY <3>2, <3>3
  <2> QED BY <2>2, <2>3
<1> QED BY <1>5, <1>6 DEF AssemblyInv

LEMMA SpoiltMore ==
  ASSUME NEW q \in Seq(Message), NEW S, NEW T, AllWhole(q, S), S \subseteq T
  PROVE  AllWhole(q, T)
BY DEF AllWhole

\* What an event puts on the queue is whole or spoilt.
LEMMA WholeFresh ==
  ASSUME NEW st \in Collecting, NEW e \in MidiEvent, NEW r, PutTogether(st, e, r),
         NEW port \in {"closed", "opening", "open"}, Handled(port, st, e, r),
         NEW d \in Device, NEW d2, NEW h, NEW g, HistoryInv(h), Fresh(port, d, h, e, d2, g),
         AssemblyInv(port, d, st.sysex, st.bytes, h),
         NEW b \in Seq(MidiEvent), r.out = <<Append(b, e)>>
  PROVE  Whole(Append(b, e)) \/ Numbers(Append(b, e)) \cap g.spoilt # {}
<1>1. st.sysex \in BOOLEAN /\ h.cut \in BOOLEAN BY DEF Collecting, HistoryInv, History
<1>2. SUFFICES ASSUME e.n \notin g.spoilt PROVE Whole(Append(b, e)) BY MessageOf
<1>3. port = "open" /\ ~h.cut /\ d = NoEvent BY <1>2 DEF Fresh
<1>4. ~st.sysex BY <1>1, <1>3 DEF AssemblyInv
<1>5. Assembles(st, e, FALSE, r) /\ e.part = 1 BY <1>3 DEF Handled, Fresh
<1>6. ~GoesOnWith(e) /\ r.out = << <<e>> >> BY <1>4, <1>5 DEF Assembles
<1>7. Ends(e) BY <1>6 DEF GoesOnWith, Fresh
<1>8. Append(b, e) = <<e>>
  <2> DEFINE m == Append(b, e)
  <2>1. r.out = <<m>> OBVIOUS
  <2> HIDE DEF m
  <2>2. m = <<e>> BY <1>6, <2>1
  <2> QED BY <2>2 DEF m
<1>9. Whole(<<e>>) BY <1>5, <1>7 DEF Whole, Last
<1> QED BY <1>8, <1>9

LEMMA WholeContinues ==
  ASSUME NEW st \in Collecting, NEW e, NEW r, PutTogether(st, e, r),
         NEW port \in {"closed", "opening", "open"}, Handled(port, st, e, r),
         NEW d \in Device, NEW d2, NEW h, NEW g, HistoryInv(h), Continues(d, h, e, d2, g),
         DeviceInv(d, st.bytes, h), AssemblyInv(port, d, st.sysex, st.bytes, h),
         NEW b \in Seq(MidiEvent), r.out = <<Append(b, e)>>
  PROVE  Whole(Append(b, e)) \/ Numbers(Append(b, e)) \cap g.spoilt # {}
<1>1. /\ d \in MidiEvent /\ e \in MidiEvent /\ e.type = "sysex" /\ e.n = d.n /\ e.part > 1
  BY NextEvent
<1>2. SUFFICES ASSUME e.n \notin g.spoilt PROVE Whole(Append(b, e)) BY <1>1, MessageOf
<1>3. d # NoEvent /\ d.n \notin h.spoilt BY <1>1, <1>2 DEF Continues
<1>4. port = "open" /\ st.sysex /\ st.bytes = Parts(d) BY <1>3 DEF AssemblyInv
<1>5. Assembles(st, e, FALSE, r) BY <1>4 DEF Handled
<1>6. Ends(e) /\ r.out = <<Append(st.bytes, e)>> BY <1>1, <1>4, <1>5 DEF Assembles
<1>7. Append(b, e) = Parts(e)
  <2>1. Append(Parts(d), e) = Parts(e) BY <1>1, PartsAppend DEF Continues
  <2> QED BY <1>4, <1>6, <2>1
<1>8. Whole(Parts(e))
  <2>1. /\ Parts(e) \in Seq(MidiEvent) /\ Len(Parts(e)) = e.part /\ DOMAIN Parts(e) = 1..e.part
        /\ \A i \in 1..e.part : Parts(e)[i].n = e.n /\ Parts(e)[i].part = i
        /\ Parts(e)[e.part] = e
    <3>1. ASSUME NEW x \in MidiEvent
          PROVE  /\ Parts(x) \in Seq(MidiEvent) /\ Len(Parts(x)) = x.part /\ DOMAIN Parts(x) = 1..x.part
                 /\ \A i \in 1..x.part : Parts(x)[i].n = x.n /\ Parts(x)[i].part = i /\ Parts(x)[i] = [x EXCEPT !.part = i]
                 /\ Parts(x)[x.part] = x
                 /\ Numbers(Parts(x)) = {x.n}
      BY PartsAre
    <3>2. /\ Parts(e) \in Seq(MidiEvent) /\ Len(Parts(e)) = e.part /\ DOMAIN Parts(e) = 1..e.part
          /\ \A i \in 1..e.part : Parts(e)[i].n = e.n /\ Parts(e)[i].part = i /\ Parts(e)[i] = [e EXCEPT !.part = i]
          /\ Parts(e)[e.part] = e
      BY Zenon, <1>1, <3>1
    <3> QED BY Zenon, <3>2
  <2>2. e.part \in Nat \ {0} BY <1>1, EventsAre
  <2>3. Last(Parts(e)) = e BY <2>1 DEF Last
  <2> HIDE DEF Parts
  <2>4. Parts(e) # <<>> /\ 1 \in 1..e.part BY <2>1, <2>2
  <2> QED BY <1>6, <2>1, <2>3, <2>4 DEF Whole
<1> QED BY <1>7, <1>8

\* The first number of a queued message is one of the numbers of the queue.
LEMMA FirstsAreNumbers ==
  ASSUME NEW q \in Seq(Message), NEW n, n \notin AllNumbers(q), NEW S, FirstsOutside(q, S)
  PROVE  FirstsOutside(q, S \cup {n})
<1>1. SUFFICES ASSUME NEW i \in DOMAIN q PROVE q[i][1].n # n BY DEF FirstsOutside
<1>2. q[i] \in Message OBVIOUS
<1>3. 1 \in DOMAIN q[i] BY <1>2 DEF Message
<1> QED BY <1>3 DEF AllNumbers, Numbers

\* Either nothing ends and nothing is queued, or the message of the event ends and is queued
\* or refused.
LEMMA KeptStep ==
  ASSUME NEW rt \in Seq(Message), NEW q \in Seq(Message), NEW q2, NEW h, NEW g \in History, NEW h2, NEW out,
         Took(q, out, g, q2, h2), KeptInv(rt, q, h), h.spoilt = {}, NEW e,
         g.refused = h.refused, g.muted = h.muted, e.n \notin h.ended,
         \/ out = <<>> /\ g.ended = h.ended
         \/ \E m \in Message : /\ out = <<m>> /\ g.ended = h.ended \cup {e.n}
                               /\ Numbers(m) = {e.n} /\ m[1].n = e.n
  PROVE  KeptInv(rt, q2, h2)
<1> DEFINE S == h.refused \cup h.muted
<1>1. /\ h.ended = AllNumbers(rt) \cup AllNumbers(q) \cup h.refused \cup h.muted
      /\ FirstsOutside(rt, S) /\ FirstsOutside(q, S)
  BY DEF KeptInv
<1>2. CASE out = <<>> /\ g.ended = h.ended
  <2>1. q2 = q /\ h2 = g BY <1>2 DEF Took
  <2> QED BY <1>1, <1>2, <2>1 DEF KeptInv
<1>3. ASSUME NEW m \in Message, out = <<m>>, g.ended = h.ended \cup {e.n}, Numbers(m) = {e.n}, m[1].n = e.n
      PROVE  KeptInv(rt, q2, h2)
  <2>1. e.n \notin S /\ e.n \notin AllNumbers(rt) /\ e.n \notin AllNumbers(q) BY <1>1
  <2>2. CASE q2 = Append(q, m) /\ h2 = g
    <3>1. AllNumbers(q2) = AllNumbers(q) \cup {e.n} /\ FirstsOutside(q2, S)
      BY <1>1, <1>3, <2>1, <2>2, QueueAppend
    <3> QED BY <1>1, <1>3, <2>2, <3>1 DEF KeptInv
  <2>3. CASE q2 = q /\ h2 = [g EXCEPT !.refused = @ \cup Numbers(m)]
    <3>1. h2.ended = g.ended /\ h2.refused = h.refused \cup {e.n} /\ h2.muted = h.muted
      BY <1>3, <2>3 DEF History
    <3>2. FirstsOutside(rt, S \cup {e.n}) /\ FirstsOutside(q, S \cup {e.n}) BY <1>1, <2>1, FirstsAreNumbers
    <3>3. h2.refused \cup h2.muted = S \cup {e.n} BY <3>1
    <3> HIDE DEF S
    <3>4. FirstsOutside(rt, h2.refused \cup h2.muted) /\ FirstsOutside(q, h2.refused \cup h2.muted) BY <3>2, <3>3
    <3>5. h2.ended = AllNumbers(rt) \cup AllNumbers(q) \cup h2.refused \cup h2.muted BY <1>1, <1>3, <3>1
    <3> QED BY <2>3, <3>4, <3>5 DEF KeptInv
  <2> QED BY <1>3, <2>2, <2>3 DEF Took
<1> QED BY <1>2, <1>3

LEMMA KeptFresh ==
  ASSUME NEW st \in Collecting, NEW e \in MidiEvent, NEW r, PutTogether(st, e, r),
         NEW port \in {"closed", "opening", "open"}, Handled(port, st, e, r),
         NEW d \in Device, NEW d2, NEW h, NEW g \in History, HistoryInv(h), Fresh(port, d, h, e, d2, g),
         AssemblyInv(port, d, st.sysex, st.bytes, h),
         NEW rt \in Seq(Message), NEW q \in Seq(Message), NEW q2, NEW h2, Took(q, r.out, g, q2, h2),
         KeptInv(rt, q, h)
  PROVE  KeptInv(rt, q2, h2)
<1>1. st.sysex \in BOOLEAN /\ h.cut \in BOOLEAN /\ h.sent \in Nat /\ h.ended \subseteq 1..h.sent
  BY MidiAssumption DEF Collecting, HistoryInv, History
<1>2. h2.spoilt = g.spoilt BY DEF Took, History
<1>3. SUFFICES ASSUME g.spoilt = {} PROVE KeptInv(rt, q2, h2) BY <1>2 DEF KeptInv
<1>4. port = "open" /\ ~h.cut /\ d = NoEvent /\ h.spoilt = {} BY <1>3 DEF Fresh
<1>5. ~st.sysex BY <1>1, <1>4 DEF AssemblyInv
<1>6. Assembles(st, e, FALSE, r) /\ e.part = 1 BY <1>4 DEF Handled, Fresh
<1>7. e.n \notin h.ended /\ g.refused = h.refused /\ g.muted = h.muted BY <1>1 DEF Fresh
<1>8. CASE GoesOnWith(e)
  <2>1. r.out = <<>> BY <1>5, <1>6, <1>8 DEF Assembles
  <2>2. g.ended = h.ended BY <1>8 DEF Fresh, GoesOnWith
  <2> QED BY <1>4, <1>7, <2>1, <2>2, KeptStep
<1>9. CASE ~GoesOnWith(e)
  <2> DEFINE m == <<e>>
  <2>1. r.out = <<m>> BY <1>5, <1>6, <1>9 DEF Assembles
  <2>2. g.ended = h.ended \cup {e.n} BY <1>9 DEF Fresh, GoesOnWith
  <2>3. m \in Message /\ Numbers(m) = {e.n} /\ m[1].n = e.n BY DEF Message, Numbers
  <2> HIDE DEF m
  <2>4. \E x \in Message : /\ r.out = <<x>> /\ g.ended = h.ended \cup {e.n}
                           /\ Numbers(x) = {e.n} /\ x[1].n = e.n
    BY <2>1, <2>2, <2>3
  <2> QED BY <1>4, <1>7, <2>4, KeptStep
<1> QED BY <1>8, <1>9

LEMMA KeptContinues ==
  ASSUME NEW st \in Collecting, NEW e, NEW r, PutTogether(st, e, r),
         NEW port \in {"closed", "opening", "open"}, Handled(port, st, e, r),
         NEW d \in Device, NEW d2, NEW h, NEW g \in History, HistoryInv(h), Continues(d, h, e, d2, g),
         DeviceInv(d, st.bytes, h), AssemblyInv(port, d, st.sysex, st.bytes, h),
         NEW rt \in Seq(Message), NEW q \in Seq(Message), NEW q2, NEW h2, Took(q, r.out, g, q2, h2),
         KeptInv(rt, q, h)
  PROVE  KeptInv(rt, q2, h2)
<1>1. /\ d \in MidiEvent /\ e \in MidiEvent /\ e.type = "sysex" /\ e.n = d.n /\ e.part > 1
      /\ d.n \notin h.ended
  BY NextEvent
<1>2. h2.spoilt = g.spoilt BY DEF Took, History
<1>3. SUFFICES ASSUME g.spoilt = {} PROVE KeptInv(rt, q2, h2) BY <1>2 DEF KeptInv
<1>4. d # NoEvent /\ h.spoilt = {} BY <1>3 DEF Continues
<1>5. port = "open" /\ st.sysex /\ st.bytes = Parts(d) BY <1>4 DEF AssemblyInv
<1>6. Assembles(st, e, FALSE, r) BY <1>5 DEF Handled
<1>7. e.n \notin h.ended /\ g.refused = h.refused /\ g.muted = h.muted BY <1>1 DEF Continues
<1>8. CASE ~Ends(e)
  <2>1. r.out = <<>> BY <1>1, <1>5, <1>6, <1>8 DEF Assembles
  <2>2. g.ended = h.ended BY <1>8 DEF Continues
  <2> QED BY <1>4, <1>7, <2>1, <2>2, KeptStep
<1>9. CASE Ends(e)
  <2> DEFINE m == Parts(e)
  <2>1. r.out = <<m>>
    <3>1. Append(Parts(d), e) = Parts(e) BY <1>1, PartsAppend DEF Continues
    <3> QED BY <1>1, <1>5, <1>6, <1>9, <3>1 DEF Assembles
  <2>2. g.ended = h.ended \cup {e.n} BY <1>9 DEF Continues
  <2>3. m \in Message /\ Numbers(m) = {e.n} /\ m[1].n = e.n
    <3>1. /\ m \in Seq(MidiEvent) /\ Len(m) = e.part /\ Numbers(m) = {e.n}
          /\ \A i \in 1..e.part : m[i].n = e.n
      BY <1>1, PartsAre
    <3>2. e.part \in Nat \ {0} BY <1>1, EventsAre
    <3> HIDE DEF m
    <3> QED BY <3>1, <3>2 DEF Message
  <2> HIDE DEF m
  <2>4. \E x \in Message : /\ r.out = <<x>> /\ g.ended = h.ended \cup {e.n}
                           /\ Numbers(x) = {e.n} /\ x[1].n = e.n
    BY <2>1, <2>2, <2>3
  <2> QED BY <1>4, <1>7, <2>4, KeptStep
<1> QED BY <1>8, <1>9

-----------------------------------------------------------------------------
(* The invariant and its steps.                                            *)
LEMMA MidiInitInv == MidiInit => MidiInv
<1> SUFFICES ASSUME MidiInit PROVE MidiInv OBVIOUS
<1> DEFINE h == midiHistory
<1>1. /\ backend \in MidiBackends /\ midiPort = "closed" /\ device = NoEvent /\ sysex = FALSE /\ bytes = <<>>
      /\ midiQueue = <<>> /\ midiRouted = <<>>
      /\ h = [sent |-> 0, ended |-> {}, cut |-> FALSE, spoilt |-> {}, refused |-> {}, muted |-> {}]
  BY DEF MidiInit
<1>2. HistoryInv(h) BY <1>1, MidiAssumption DEF HistoryInv, History
<1>3. DeviceInv(device, bytes, h) BY <1>1 DEF DeviceInv, UpTo
<1>4. OrderInv(midiRouted, midiQueue, device, bytes, h.sent)
  BY <1>1 DEF OrderInv, AllUpTo, InOrder, Before
<1>5. ClosedInv(midiPort, sysex, bytes, midiQueue) BY <1>1 DEF ClosedInv
<1>6. AssemblyInv(midiPort, device, sysex, bytes, h) BY <1>1 DEF AssemblyInv
<1>7. AllWhole(midiRouted, h.spoilt) /\ AllWhole(midiQueue, h.spoilt) BY <1>1 DEF AllWhole
<1>8. KeptInv(midiRouted, midiQueue, h)
  <2>1. AllNumbers(<<>>) = {} BY DEF AllNumbers
  <2> QED BY <1>1, <2>1 DEF KeptInv, FirstsOutside
<1>9. bytes \in Seq(MidiEvent) /\ midiQueue \in Seq(Message) /\ midiRouted \in Seq(Message)
      /\ Len(midiQueue) <= MidiQueueSize
  BY <1>1, MidiAssumption
<1> QED BY <1>1, <1>2, <1>3, <1>4, <1>5, <1>6, <1>7, <1>8, <1>9 DEF MidiInv

\* What Delivered means: a result of the callback, and what becomes of it.
LEMMA DeliveredIs ==
  ASSUME MidiInv, NEW e \in MidiEvent, NEW g \in History, Delivered(e, g)
  PROVE  \E r : /\ PutTogether([sysex |-> sysex, bytes |-> bytes], e, r)
                /\ backend \in Assembling => Handled(midiPort, [sysex |-> sysex, bytes |-> bytes], e, r)
                /\ midiPort = "closed" => r = Result(sysex, bytes, <<>>)
                /\ (backend = "alsa" /\ midiPort = "opening") => ~r.sysex
                /\ sysex' = r.sysex /\ bytes' = r.bytes
                /\ Took(midiQueue, r.out, g, midiQueue', midiHistory')
<1> DEFINE st == [sysex |-> sysex, bytes |-> bytes]
<1>1. st \in Collecting /\ st.sysex = sysex /\ st.bytes = bytes BY DEF MidiInv, Collecting
<1>2. CASE midiPort = "closed"
  <2> DEFINE r == Result(st.sysex, st.bytes, <<>>)
  <2>1. r.sysex = st.sysex /\ r.bytes = st.bytes /\ r.out = <<>> BY DEF Result
  <2>2. st.sysex \in BOOLEAN BY <1>1 DEF MidiInv
  <2>3. sysex' = sysex /\ bytes' = bytes /\ midiQueue' = midiQueue /\ midiHistory' = g
    BY <1>2 DEF Delivered
  <2>4. r = Result(sysex, bytes, <<>>) BY <1>1
  <2> HIDE DEF r, st
  <2>5. PutTogether(st, e, r) BY <2>1, <2>2 DEF PutTogether
  <2>6. Handled(midiPort, st, e, r) BY <1>2 DEF Handled, r
  <2>7. Took(midiQueue, r.out, g, midiQueue', midiHistory') BY <2>1, <2>3 DEF Took
  <2>8. sysex' = r.sysex /\ bytes' = r.bytes BY <1>1, <2>1, <2>3
  <2>9. ~(backend = "alsa" /\ midiPort = "opening") BY <1>2
  <2> QED BY <2>4, <2>5, <2>6, <2>7, <2>8, <2>9 DEF st
<1>3. CASE midiPort # "closed"
  <2> DEFINE r == Callback(st, e, midiPort = "opening")
  <2>1. /\ sysex' = r.sysex /\ bytes' = r.bytes
        /\ midiQueue' = IF r.out = <<>> THEN midiQueue ELSE Pushed(midiQueue, r.out[1])
        /\ midiHistory' = [g EXCEPT !.refused = @ \cup
             IF r.out # <<>> /\ Len(midiQueue) = MidiQueueSize THEN Numbers(r.out[1]) ELSE {}]
    BY <1>3 DEF Delivered
  <2>2. (midiPort = "opening") \in BOOLEAN OBVIOUS
  <2> HIDE DEF st
  <2>3. PutTogether(st, e, r) BY <1>1, <2>2, CallbackPuts
  <2>4. backend \in Assembling => Assembles(st, e, midiPort = "opening", r) BY <1>1, <2>2, CallbackAssembles
  <2> HIDE DEF r
  <2>5. backend \in Assembling => Handled(midiPort, st, e, r) BY <1>3, <2>4 DEF Handled
  <2>6. ASSUME backend = "alsa", midiPort = "opening" PROVE ~r.sysex
    <3>1. ~st.sysex BY <1>1, <2>6 DEF MidiInv, ClosedInv
    <3> QED BY <2>4, <2>6, <3>1 DEF Assembles, Assembling
  <2>7. Took(midiQueue, r.out, g, midiQueue', midiHistory')
    <3>1. CASE r.out = <<>>
      <4>1. midiHistory' = g BY <2>1, <3>1 DEF History
      <4> QED BY <2>1, <3>1, <4>1 DEF Took
    <3>2. ASSUME NEW m, r.out = <<m>> PROVE Took(midiQueue, r.out, g, midiQueue', midiHistory')
      <4>1. r.out # <<>> /\ r.out[1] = m BY <3>2
      <4>2. Len(midiQueue) \in Nat /\ Len(midiQueue) <= MidiQueueSize /\ MidiQueueSize \in Nat
        BY MidiAssumption DEF MidiInv
      <4>3. CASE Len(midiQueue) = MidiQueueSize
        <5>1. midiQueue' = midiQueue /\ midiHistory' = [g EXCEPT !.refused = @ \cup Numbers(m)]
          BY <2>1, <4>1, <4>2, <4>3 DEF Pushed
        <5> QED BY <3>2, <5>1 DEF Took
      <4>4. CASE Len(midiQueue) # MidiQueueSize
        <5>1. Len(midiQueue) < MidiQueueSize BY <4>2, <4>4
        <5>2. midiQueue' = Append(midiQueue, m) BY <2>1, <4>1, <5>1 DEF Pushed
        <5>3. midiHistory' = [g EXCEPT !.refused = @ \cup {}] BY <2>1, <4>4
        <5>4. midiHistory' = g BY <5>3 DEF History
        <5> QED BY <3>2, <5>1, <5>2, <5>4 DEF Took
      <4> QED BY <4>3, <4>4
    <3> QED BY <2>3, <3>1, <3>2 DEF PutTogether
  <2> QED BY <1>3, <2>1, <2>3, <2>5, <2>6, <2>7 DEF st
<1> QED BY <1>2, <1>3

\* The history after an event but for what was refused.
RefusedOnly(g, h2) ==
  /\ HistoryInv(h2) /\ h2.sent = g.sent /\ h2.ended = g.ended /\ h2.cut = g.cut /\ h2.spoilt = g.spoilt
  /\ h2.muted = g.muted

LEMMA HistoryAfter ==
  ASSUME NEW st \in Collecting, NEW e \in MidiEvent, NEW r, PutTogether(st, e, r),
         NEW q \in Seq(Message), NEW q2, NEW g, NEW h2, HistoryInv(g), Took(q, r.out, g, q2, h2),
         UpTo(st.bytes, g.sent), e.n <= g.sent
  PROVE  RefusedOnly(g, h2)
<1>1. g \in History /\ g.sent \in 0..MaxMidi /\ g.sent \in Nat BY MidiAssumption DEF HistoryInv, History
<1>2. CASE h2 = g BY <1>2 DEF RefusedOnly
<1>3. ASSUME NEW m, r.out = <<m>>, h2 = [g EXCEPT !.refused = @ \cup Numbers(m)]
      PROVE  RefusedOnly(g, h2)
  <2>1. PICK b \in {<<>>, st.bytes} : m = Append(b, e)
    <3>1. PICK b \in {<<>>, st.bytes} : r.out = <<Append(b, e)>> BY <1>3 DEF PutTogether
    <3> DEFINE x == Append(b, e)
    <3>2. r.out = <<x>> BY <3>1
    <3> HIDE DEF x
    <3>3. m = x BY <1>3, <3>2
    <3> QED BY <3>3 DEF x
  <2>2. b \in Seq(MidiEvent)
    <3>1. st.bytes \in Seq(MidiEvent) BY DEF Collecting
    <3>2. <<>> \in Seq(MidiEvent) OBVIOUS
    <3> QED BY <2>1, <3>1, <3>2
  <2>3. UpTo(b, g.sent)
    <3>1. CASE b = <<>> BY <3>1 DEF UpTo
    <3> QED BY <2>1, <3>1
  <2>4. m \in Seq(MidiEvent) /\ UpTo(m, g.sent)
    <3>1. Append(b, e) \in Message /\ UpTo(Append(b, e), g.sent) BY <1>1, <2>2, <2>3, MessageOf
    <3> QED BY <2>1, <3>1 DEF Message
  <2>5. Numbers(m) \subseteq 1..g.sent BY <1>1, <2>4, NumbersUpTo
  <2>6. 1..g.sent \subseteq 1..MaxMidi BY <1>1, MidiAssumption
  <2>7. h2 \in History BY <1>1, <1>3, <2>5, <2>6 DEF History
  <2>8. /\ h2.sent = g.sent /\ h2.ended = g.ended /\ h2.cut = g.cut /\ h2.spoilt = g.spoilt
        /\ h2.muted = g.muted /\ h2.refused = g.refused \cup Numbers(m)
    BY <1>1, <1>3 DEF History
  <2> QED BY <2>5, <2>7, <2>8 DEF HistoryInv, RefusedOnly
<1> QED BY <1>2, <1>3 DEF Took

\* An event preserves the invariant, be it the first of a message or another one.
LEMMA EventStep ==
  ASSUME MidiInv, NEW e \in MidiEvent, NEW g, HistoryInv(g), Delivered(e, g),
         backend' = backend, midiPort' = midiPort, midiRouted' = midiRouted,
         \/ Fresh(midiPort, device, midiHistory, e, device', g)
         \/ Continues(device, midiHistory, e, device', g)
  PROVE  MidiInv'
<1> DEFINE st == [sysex |-> sysex, bytes |-> bytes]
           d == device
           h == midiHistory
<1>1. st \in Collecting /\ st.sysex = sysex /\ st.bytes = bytes BY DEF MidiInv, Collecting
<1>2. g \in History BY DEF HistoryInv
<1>3. PICK r : /\ PutTogether(st, e, r)
               /\ backend \in Assembling => Handled(midiPort, st, e, r)
               /\ midiPort = "closed" => r = Result(sysex, bytes, <<>>)
               /\ (backend = "alsa" /\ midiPort = "opening") => ~r.sysex
               /\ sysex' = r.sysex /\ bytes' = r.bytes
               /\ Took(midiQueue, r.out, g, midiQueue', midiHistory')
  BY <1>2, DeliveredIs
<1>4. /\ midiPort \in {"closed", "opening", "open"} /\ d \in Device /\ HistoryInv(h)
      /\ midiQueue \in Seq(Message) /\ midiRouted \in Seq(Message) /\ Len(midiQueue) <= MidiQueueSize
      /\ DeviceInv(d, st.bytes, h) /\ OrderInv(midiRouted, midiQueue, d, st.bytes, h.sent)
      /\ ClosedInv(midiPort, st.sysex, st.bytes, midiQueue)
      /\ backend \in Assembling =>
           /\ AssemblyInv(midiPort, d, st.sysex, st.bytes, h)
           /\ AllWhole(midiRouted, h.spoilt) /\ AllWhole(midiQueue, h.spoilt)
           /\ KeptInv(midiRouted, midiQueue, h)
  BY <1>1 DEF MidiInv, Device
<1>5. h.sent \in Nat /\ g.sent \in Nat BY <1>2, <1>4, MidiAssumption DEF HistoryInv, History
<1> HIDE DEF st, d, h
<1>6. /\ h.sent <= g.sent /\ e.n <= g.sent /\ h.spoilt \subseteq g.spoilt
  <2>1. CASE Fresh(midiPort, d, h, e, device', g) BY <1>5, <2>1 DEF Fresh
  <2>2. CASE Continues(d, h, e, device', g)
    <3>1. e.n = d.n /\ d.n <= h.sent BY <1>4, <2>2, NextEvent
    <3> QED BY <1>5, <2>2, <3>1 DEF Continues
  <2> QED BY <2>1, <2>2 DEF d, h
<1>7. device' \in Device /\ DeviceInv(device', r.bytes, g)
  <2>1. CASE Fresh(midiPort, d, h, e, device', g) BY <1>1, <1>3, <1>4, <2>1, DeviceFresh
  <2>2. CASE Continues(d, h, e, device', g) BY <1>1, <1>3, <1>4, <2>2, DeviceContinues
  <2> QED BY <2>1, <2>2 DEF d, h
<1>8. OrderInv(midiRouted, midiQueue', device', r.bytes, g.sent)
  <2>1. CASE Fresh(midiPort, d, h, e, device', g) BY <1>1, <1>3, <1>4, <2>1, OrderFresh
  <2>2. CASE Continues(d, h, e, device', g) BY <1>1, <1>3, <1>4, <2>2, OrderContinues
  <2> QED BY <2>1, <2>2 DEF d, h
<1>9. /\ HistoryInv(midiHistory') /\ midiHistory'.sent = g.sent /\ midiHistory'.ended = g.ended
      /\ midiHistory'.cut = g.cut /\ midiHistory'.spoilt = g.spoilt
  <2>1. UpTo(st.bytes, g.sent)
    <3>1. SUFFICES ASSUME NEW i \in DOMAIN st.bytes PROVE st.bytes[i].n <= g.sent BY DEF UpTo
    <3>2. st.bytes[i].n <= h.sent BY <1>4 DEF DeviceInv, UpTo
    <3>3. st.bytes[i].n \in Nat BY <1>1, CollectedAre
    <3> QED BY <1>5, <1>6, <3>2, <3>3
  <2>2. PutTogether(st, e, r) /\ Took(midiQueue, r.out, g, midiQueue', midiHistory') BY <1>3
  <2>3. st \in Collecting /\ midiQueue \in Seq(Message) /\ e.n <= g.sent BY <1>1, <1>4, <1>6
  <2>4. RefusedOnly(g, midiHistory') BY <2>1, <2>2, <2>3, HistoryAfter
  <2> QED BY <2>4 DEF RefusedOnly
<1>10. \/ midiQueue' = midiQueue
       \/ \E b \in {<<>>, st.bytes} :
            /\ b \in Seq(MidiEvent) /\ midiQueue' = Append(midiQueue, Append(b, e))
            /\ r.out = <<Append(b, e)>> /\ r.bytes \in {<<>>, Append(b, e)}
  BY <1>1, <1>3, <1>4, QueueAfter
<1>11. midiQueue' \in Seq(Message)
  <2>1. ASSUME NEW b \in Seq(MidiEvent), midiQueue' = Append(midiQueue, Append(b, e))
        PROVE  midiQueue' \in Seq(Message)
    <3>1. Append(b, e) \in Message BY MessageOf
    <3> QED BY <1>4, <2>1, <3>1, QueueAppend
  <2> QED BY <1>4, <1>10, <2>1
<1>12. Len(midiQueue') <= MidiQueueSize
  <2>1. ASSUME NEW m, Len(midiQueue) < MidiQueueSize, midiQueue' = Append(midiQueue, m)
        PROVE  Len(midiQueue') <= MidiQueueSize
    <3>1. Len(midiQueue') = Len(midiQueue) + 1 /\ Len(midiQueue) \in Nat BY <1>4, <2>1
    <3> QED BY <2>1, <3>1, MidiAssumption
  <2> QED BY <1>3, <1>4, <2>1 DEF Took
<1>13. ClosedInv(midiPort, r.sysex, r.bytes, midiQueue')
  <2>1. ASSUME midiPort = "closed" PROVE ~r.sysex /\ r.bytes = <<>> /\ midiQueue' = <<>>
    <3>1. r = Result(sysex, bytes, <<>>) BY <1>3, <2>1
    <3>2. r.sysex = sysex /\ r.bytes = bytes /\ r.out = <<>> BY <3>1 DEF Result
    <3>3. midiQueue' = midiQueue BY <1>3, <3>2 DEF Took
    <3> QED BY <1>1, <1>4, <2>1, <3>2, <3>3 DEF ClosedInv
  <2> QED BY <1>3, <2>1 DEF ClosedInv
<1>14. ASSUME backend \in Assembling
       PROVE  /\ AssemblyInv(midiPort, device', r.sysex, r.bytes, g)
              /\ AllWhole(midiRouted, g.spoilt) /\ AllWhole(midiQueue', g.spoilt)
              /\ KeptInv(midiRouted, midiQueue', midiHistory')
  <2>1. /\ Handled(midiPort, st, e, r) /\ AssemblyInv(midiPort, d, st.sysex, st.bytes, h)
        /\ AllWhole(midiRouted, h.spoilt) /\ AllWhole(midiQueue, h.spoilt)
        /\ KeptInv(midiRouted, midiQueue, h) /\ PutTogether(st, e, r)
        /\ Took(midiQueue, r.out, g, midiQueue', midiHistory')
    BY <1>3, <1>4, <1>14
  <2>2. AllWhole(midiRouted, g.spoilt) /\ AllWhole(midiQueue, g.spoilt) BY <1>4, <1>6, <2>1, SpoiltMore
  <2>3. CASE Fresh(midiPort, d, h, e, device', g)
    <3>1. AssemblyInv(midiPort, device', r.sysex, r.bytes, g) BY <1>1, <1>4, <2>1, <2>3, AssemblyFresh
    <3>2. ASSUME NEW b \in Seq(MidiEvent), r.out = <<Append(b, e)>>
          PROVE  Whole(Append(b, e)) \/ Numbers(Append(b, e)) \cap g.spoilt # {}
      BY <1>1, <1>4, <2>1, <2>3, <3>2, WholeFresh
    <3>3. KeptInv(midiRouted, midiQueue', midiHistory') BY <1>1, <1>2, <1>4, <2>1, <2>3, KeptFresh
    <3>4. ASSUME NEW b \in Seq(MidiEvent), r.out = <<Append(b, e)>>, midiQueue' = Append(midiQueue, Append(b, e))
          PROVE  AllWhole(midiQueue', g.spoilt)
      <4>1. Append(b, e) \in Message BY MessageOf
      <4> QED BY <1>4, <2>2, <3>2, <3>4, <4>1, QueueAppend
    <3>5. AllWhole(midiQueue', g.spoilt) BY <1>10, <2>2, <3>4
    <3> QED BY <2>2, <3>1, <3>3, <3>5
  <2>4. CASE Continues(d, h, e, device', g)
    <3>1. AssemblyInv(midiPort, device', r.sysex, r.bytes, g)
      <4>1. /\ st \in Collecting /\ midiPort \in {"closed", "opening", "open"} /\ d \in Device /\ HistoryInv(h)
            /\ DeviceInv(d, st.bytes, h) /\ ClosedInv(midiPort, st.sysex, st.bytes, midiQueue)
        BY <1>1, <1>4
      <4>2. /\ Handled(midiPort, st, e, r) /\ AssemblyInv(midiPort, d, st.sysex, st.bytes, h)
            /\ PutTogether(st, e, r)
        BY <2>1
      <4>3. ASSUME NEW d1 \in Device, NEW d2, NEW p \in {"closed", "opening", "open"}, NEW h1, HistoryInv(h1), NEW q,
                   DeviceInv(d1, st.bytes, h1), ClosedInv(p, st.sysex, st.bytes, q), Handled(p, st, e, r),
                   AssemblyInv(p, d1, st.sysex, st.bytes, h1), PutTogether(st, e, r), Continues(d1, h1, e, d2, g)
            PROVE  AssemblyInv(p, d2, r.sysex, r.bytes, g)
        BY <4>1, <4>3, AssemblyContinues
      <4> QED BY Zenon, <2>4, <4>1, <4>2, <4>3
    <3>2. ASSUME NEW b \in Seq(MidiEvent), r.out = <<Append(b, e)>>
          PROVE  Whole(Append(b, e)) \/ Numbers(Append(b, e)) \cap g.spoilt # {}
      BY <1>1, <1>4, <2>1, <2>4, <3>2, WholeContinues
    <3>3. KeptInv(midiRouted, midiQueue', midiHistory') BY <1>1, <1>2, <1>4, <2>1, <2>4, KeptContinues
    <3>4. ASSUME NEW b \in Seq(MidiEvent), r.out = <<Append(b, e)>>, midiQueue' = Append(midiQueue, Append(b, e))
          PROVE  AllWhole(midiQueue', g.spoilt)
      <4>1. Append(b, e) \in Message BY MessageOf
      <4> QED BY <1>4, <2>2, <3>2, <3>4, <4>1, QueueAppend
    <3>5. AllWhole(midiQueue', g.spoilt) BY <1>10, <2>2, <3>4
    <3> QED BY <2>2, <3>1, <3>3, <3>5
  <2> QED BY <2>3, <2>4 DEF d, h
<1>15. DeviceInv(device', bytes', midiHistory') BY <1>3, <1>7, <1>9 DEF DeviceInv
<1>16. OrderInv(midiRouted', midiQueue', device', bytes', midiHistory'.sent) BY <1>3, <1>8, <1>9
<1>17. ClosedInv(midiPort, sysex', bytes', midiQueue') BY <1>3, <1>13
<1>18. backend \in Assembling =>
         /\ AssemblyInv(midiPort', device', sysex', bytes', midiHistory')
         /\ AllWhole(midiRouted', midiHistory'.spoilt) /\ AllWhole(midiQueue', midiHistory'.spoilt)
         /\ KeptInv(midiRouted', midiQueue', midiHistory')
  BY <1>3, <1>9, <1>14 DEF AssemblyInv
<1>19. bytes' \in Seq(MidiEvent) /\ sysex' \in BOOLEAN
  <2>1. r.sysex \in BOOLEAN BY <1>3 DEF PutTogether
  <2>2. r.bytes \in Seq(MidiEvent) BY <1>1, <1>3, BytesStep
  <2> QED BY <1>3, <2>1, <2>2
<1> QED
  BY <1>4, <1>7, <1>9, <1>11, <1>12, <1>15, <1>16, <1>17, <1>18, <1>19 DEF MidiInv, Device, ClosedInv

LEMMA SendStep ==
  ASSUME MidiInv, NEW type \in {"short", "realtime", "sysex"}, NEW of \in MidiParts \cup {1}, DeviceSend(type, of)
  PROVE  MidiInv'
<1> DEFINE h == midiHistory
           n == h.sent + 1
           e == [n |-> n, part |-> 1, of |-> of, type |-> type]
           within == device # NoEvent
           g == [h EXCEPT
                  !.sent = n,
                  !.ended = IF of = 1 THEN @ \cup {n} ELSE @,
                  !.cut = @ /\ ~(type = "sysex" /\ of = 1),
                  !.spoilt = @ \cup (IF within THEN {n, device.n} ELSE {})
                               \cup (IF midiPort = "open" /\ ~h.cut THEN {} ELSE {n})]
<1>1. /\ n <= MaxMidi /\ (within => type = "realtime") /\ (type # "sysex" => of = 1)
      /\ device' = IF within \/ of = 1 THEN device ELSE e
      /\ Delivered(e, g) /\ backend' = backend /\ midiPort' = midiPort /\ midiRouted' = midiRouted
  BY DEF DeviceSend
<1>2. /\ h \in History /\ h.ended \subseteq 1..h.sent /\ h.spoilt \subseteq 1..h.sent
      /\ h.refused \subseteq 1..h.sent /\ h.muted \subseteq 1..h.sent
      /\ h.sent \in Nat /\ MaxMidi \in Nat
  BY MidiAssumption DEF MidiInv, HistoryInv, History
<1>3. n \in 1..MaxMidi BY <1>1, <1>2
<1>4. e \in MidiEvent
  <2>1. \A k \in MidiParts : k \in Nat \ {0} BY MidiAssumption
  <2>2. 1 \in UNION {1..k : k \in MidiParts \cup {1}} OBVIOUS
  <2> HIDE DEF n
  <2> QED BY <1>3, <2>2 DEF MidiEvent
<1>5. e.n = n /\ e.part = 1 /\ e.of = of /\ e.type = type OBVIOUS
<1>6. /\ g.sent = n /\ g.ended = IF of = 1 THEN h.ended \cup {n} ELSE h.ended
      /\ g.cut = (h.cut /\ ~(type = "sysex" /\ of = 1))
      /\ g.spoilt = h.spoilt \cup (IF within THEN {n, device.n} ELSE {})
                             \cup (IF midiPort = "open" /\ ~h.cut THEN {} ELSE {n})
      /\ g.refused = h.refused /\ g.muted = h.muted
  <2> HIDE DEF n, within, h
  <2> QED BY <1>2 DEF History
<1>7. within => device.n \in 1..h.sent
  <2>1. within => device \in MidiEvent /\ device.n <= h.sent BY DEF MidiInv, DeviceInv
  <2>2. within => device.n \in 1..MaxMidi BY <2>1, EventsAre
  <2> QED BY <1>2, <2>1, <2>2
<1>8. 1..h.sent \subseteq 1..n /\ n \in 1..n /\ 1..n \subseteq 1..MaxMidi BY <1>2, <1>3
<1>9. HistoryInv(g)
  <2> HIDE DEF n, within, h
  <2>1. g.ended \subseteq 1..n /\ g.spoilt \subseteq 1..n /\ g.refused \subseteq 1..n /\ g.muted \subseteq 1..n
    <3> HIDE DEF g
    <3>1. g.ended \subseteq 1..n BY <1>2, <1>6, <1>8
    <3>2. g.spoilt \subseteq 1..n
      <4>1. (IF within THEN {n, device.n} ELSE {}) \subseteq 1..n BY <1>7, <1>8
      <4>2. (IF midiPort = "open" /\ ~h.cut THEN {} ELSE {n}) \subseteq 1..n BY <1>8
      <4> QED BY <1>2, <1>6, <1>8, <4>1, <4>2
    <3> QED BY <1>2, <1>6, <1>8, <3>1, <3>2
  <2>2. n \in 0..MaxMidi BY <1>3
  <2>3. (h.cut /\ ~(type = "sysex" /\ of = 1)) \in BOOLEAN OBVIOUS
  <2> DEFINE en == IF of = 1 THEN h.ended \cup {n} ELSE h.ended
             cu == h.cut /\ ~(type = "sysex" /\ of = 1)
             sp == h.spoilt \cup (IF within THEN {n, device.n} ELSE {})
                            \cup (IF midiPort = "open" /\ ~h.cut THEN {} ELSE {n})
  <2>4. g = [h EXCEPT !.sent = n, !.ended = en, !.cut = cu, !.spoilt = sp] BY <1>2 DEF History
  <2>5. en \in SUBSET (1..MaxMidi) /\ sp \in SUBSET (1..MaxMidi) BY <1>6, <1>8, <2>1
  <2> HIDE DEF en, cu, sp
  <2>6. g \in History BY <1>2, <2>2, <2>3, <2>4, <2>5 DEF History, cu
  <2> QED BY <1>6, <2>1, <2>6 DEF HistoryInv
<1>10. Ends(e) <=> of = 1 BY <1>5 DEF Ends
<1> HIDE DEF e, g, n, h
<1>11. Fresh(midiPort, device, h, e, device', g) BY <1>1, <1>5, <1>6, <1>10 DEF Fresh, n
<1> QED BY <1>1, <1>4, <1>9, <1>11, EventStep DEF h

LEMMA ContinueStep ==
  ASSUME MidiInv, DeviceContinue
  PROVE  MidiInv'
<1> DEFINE h == midiHistory
           e == [device EXCEPT !.part = @ + 1]
           g == [h EXCEPT !.ended = IF Ends(e) THEN @ \cup {e.n} ELSE @, !.cut = @ /\ ~Ends(e)]
<1>1. /\ device # NoEvent /\ device' = IF Ends(e) THEN NoEvent ELSE e
      /\ Delivered(e, g) /\ backend' = backend /\ midiPort' = midiPort /\ midiRouted' = midiRouted
  BY DEF DeviceContinue
<1>2. /\ HistoryInv(h) /\ h \in History /\ h.ended \subseteq 1..h.sent /\ h.sent \in Nat /\ MaxMidi \in Nat
      /\ h.sent \in 0..MaxMidi
  BY MidiAssumption DEF MidiInv, HistoryInv, History
<1> HIDE DEF e, h
<1>3. /\ g.sent = h.sent /\ g.ended = IF Ends(e) THEN h.ended \cup {e.n} ELSE h.ended
      /\ g.cut = (h.cut /\ ~Ends(e)) /\ g.spoilt = h.spoilt /\ g.refused = h.refused /\ g.muted = h.muted
  BY <1>2 DEF History
<1> HIDE DEF g
<1>4. Continues(device, h, e, device', g) BY <1>1, <1>3 DEF Continues, e
<1>5. e \in MidiEvent /\ e.n = device.n /\ device.n <= h.sent
  <2>1. device \in Device /\ DeviceInv(device, bytes, h) BY DEF MidiInv, Device, h
  <2> QED BY <1>2, <1>4, <2>1, NextEvent
<1>6. HistoryInv(g)
  <2>1. e.n \in 1..h.sent BY <1>2, <1>5, EventsAre
  <2> DEFINE en == IF Ends(e) THEN h.ended \cup {e.n} ELSE h.ended
             cu == h.cut /\ ~Ends(e)
  <2>2. g = [h EXCEPT !.ended = en, !.cut = cu] BY <1>2 DEF g, History
  <2>3. en \subseteq 1..h.sent BY <1>2, <2>1
  <2>4. 1..h.sent \subseteq 1..MaxMidi BY <1>2
  <2>5. cu \in BOOLEAN OBVIOUS
  <2> HIDE DEF en, cu
  <2>6. g \in History BY <1>2, <2>2, <2>3, <2>4, <2>5 DEF History
  <2>7. g.ended = en BY <1>2, <2>2 DEF History
  <2> QED BY <1>2, <1>3, <2>3, <2>6, <2>7 DEF HistoryInv
<1> QED BY <1>1, <1>4, <1>5, <1>6, EventStep DEF h

\* The history h and one with more that is spoilt.
Spoilt(h, X, c, g) ==
  /\ HistoryInv(g) /\ g.sent = h.sent /\ g.ended = h.ended /\ g.refused = h.refused
  /\ g.muted = h.muted /\ g.spoilt = h.spoilt \cup X /\ (g.cut <=> c)

LEMMA SpoiltHistory ==
  ASSUME NEW h, HistoryInv(h), NEW X, X \subseteq 1..h.sent, NEW c \in BOOLEAN
  PROVE  Spoilt(h, X, c, [h EXCEPT !.spoilt = @ \cup X, !.cut = c])
<1> DEFINE g == [h EXCEPT !.spoilt = @ \cup X, !.cut = c]
           sp == h.spoilt \cup X
<1>1. h \in History /\ h.sent \in 0..MaxMidi /\ h.sent \in Nat /\ MaxMidi \in Nat
  BY MidiAssumption DEF HistoryInv, History
<1>2. sp \subseteq 1..h.sent BY DEF HistoryInv
<1>3. 1..h.sent \subseteq 1..MaxMidi BY <1>1
<1>4. g = [h EXCEPT !.spoilt = sp, !.cut = c] OBVIOUS
<1> HIDE DEF g, sp
<1>5. g \in History BY <1>1, <1>2, <1>3, <1>4 DEF History
<1>6. /\ g.sent = h.sent /\ g.ended = h.ended /\ g.refused = h.refused
      /\ g.muted = h.muted /\ g.spoilt = sp /\ (g.cut <=> c)
  BY <1>1, <1>4 DEF History
<1>7. HistoryInv(g) BY <1>2, <1>5, <1>6 DEF HistoryInv
<1> QED BY <1>6, <1>7 DEF g, sp, Spoilt

LEMMA EmptyQueue ==
  ASSUME NEW k \in Nat, NEW rt \in Seq(Message), NEW S
  PROVE  /\ AllUpTo(<<>>, k) /\ InOrder(<<>>) /\ Before(rt, <<>>) /\ Below(<<>>, k) /\ AllWhole(<<>>, S)
         /\ AllNumbers(<<>>) = {} /\ FirstsOutside(<<>>, S)
         /\ UpTo(<<>>, k)
BY DEF AllUpTo, InOrder, Before, Below, AllWhole, AllNumbers, FirstsOutside, UpTo

LEMMA StopStep ==
  ASSUME MidiInv, DeviceStop
  PROVE  MidiInv'
<1> DEFINE h == midiHistory
           g == [h EXCEPT !.spoilt = @ \cup {device.n}, !.cut = midiPort # "closed"]
<1>1. /\ device # NoEvent /\ device' = NoEvent /\ midiHistory' = g
      /\ backend' = backend /\ midiPort' = midiPort /\ sysex' = sysex /\ bytes' = bytes
      /\ midiQueue' = midiQueue /\ midiRouted' = midiRouted
  BY DEF DeviceStop
<1>2. HistoryInv(h) /\ h.sent \in Nat BY MidiAssumption DEF MidiInv, HistoryInv, History
<1>3. {device.n} \subseteq 1..h.sent
  <2>1. device \in MidiEvent /\ device.n <= h.sent BY <1>1 DEF MidiInv, DeviceInv
  <2> QED BY <1>2, <2>1, EventsAre
<1>4. /\ HistoryInv(g) /\ g.sent = h.sent /\ g.ended = h.ended /\ g.refused = h.refused
      /\ g.muted = h.muted /\ g.spoilt = h.spoilt \cup {device.n} /\ (g.cut <=> midiPort # "closed")
  <2> DEFINE X == {device.n}
             c == midiPort # "closed"
  <2>1. c \in BOOLEAN /\ X \subseteq 1..h.sent /\ HistoryInv(h) BY <1>2, <1>3
  <2>2. g = [h EXCEPT !.spoilt = @ \cup X, !.cut = c] OBVIOUS
  <2> HIDE DEF X, c, h, g
  <2>3. Spoilt(h, X, c, g) BY <2>1, <2>2, SpoiltHistory
  <2> QED BY <2>3 DEF Spoilt, X, c
<1> HIDE DEF g
<1>5. DeviceInv(NoEvent, bytes, g)
  <2>1. UpTo(bytes, g.sent) BY <1>4 DEF MidiInv, DeviceInv
  <2>2. \A i \in DOMAIN bytes : bytes[i].n # 0
    <3>1. bytes \in Seq(MidiEvent) BY DEF MidiInv
    <3>2. \A i \in DOMAIN bytes : bytes[i] \in MidiEvent BY <3>1
    <3>3. ASSUME NEW x \in MidiEvent PROVE x.n # 0 BY EventsAre
    <3> QED BY <3>2, <3>3
  <2> QED BY <2>1, <2>2, NoEventIs DEF DeviceInv
<1>6. OrderInv(midiRouted, midiQueue, NoEvent, bytes, g.sent) BY <1>4 DEF MidiInv, OrderInv
<1>7. backend \in Assembling =>
         /\ AssemblyInv(midiPort, NoEvent, sysex, bytes, g)
         /\ AllWhole(midiRouted, g.spoilt) /\ AllWhole(midiQueue, g.spoilt)
         /\ KeptInv(midiRouted, midiQueue, g)
  <2> SUFFICES ASSUME backend \in Assembling
               PROVE  /\ AssemblyInv(midiPort, NoEvent, sysex, bytes, g)
                      /\ AllWhole(midiRouted, g.spoilt) /\ AllWhole(midiQueue, g.spoilt)
                      /\ KeptInv(midiRouted, midiQueue, g)
    OBVIOUS
  <2>1. ~g.cut => ~sysex BY <1>4 DEF MidiInv, ClosedInv
  <2>2. AssemblyInv(midiPort, NoEvent, sysex, bytes, g) BY <2>1 DEF AssemblyInv
  <2>3. AllWhole(midiRouted, g.spoilt) /\ AllWhole(midiQueue, g.spoilt)
    <3>1. AllWhole(midiRouted, h.spoilt) /\ AllWhole(midiQueue, h.spoilt)
          /\ midiRouted \in Seq(Message) /\ midiQueue \in Seq(Message)
      BY DEF MidiInv
    <3>2. h.spoilt \subseteq g.spoilt BY <1>4
    <3> QED BY <3>1, <3>2, SpoiltMore
  <2>4. KeptInv(midiRouted, midiQueue, g) BY <1>4 DEF KeptInv
  <2> QED BY <2>2, <2>3, <2>4
<1> QED BY <1>1, <1>4, <1>5, <1>6, <1>7 DEF MidiInv, ClosedInv

LEMMA OpenStep ==
  ASSUME MidiInv, OpenPort
  PROVE  MidiInv'
<1> DEFINE h == midiHistory
<1>1. /\ midiPort = "closed" /\ midiPort' = "opening" /\ sysex' = FALSE /\ bytes' = <<>> /\ midiQueue' = <<>>
      /\ backend' = backend /\ device' = device /\ midiRouted' = midiRouted /\ midiHistory' = h
  BY DEF OpenPort
<1>2. midiQueue = <<>> /\ bytes = <<>> /\ ~sysex BY <1>1 DEF MidiInv, ClosedInv
<1>3. HistoryInv(h) /\ DeviceInv(device, <<>>, h) /\ OrderInv(midiRouted, <<>>, device, <<>>, h.sent)
  BY <1>2 DEF MidiInv
<1>4. backend \in Assembling =>
        /\ AssemblyInv("opening", device, FALSE, <<>>, h)
        /\ AllWhole(midiRouted, h.spoilt) /\ AllWhole(<<>>, h.spoilt)
        /\ KeptInv(midiRouted, <<>>, h)
  BY <1>1, <1>2 DEF MidiInv, AssemblyInv
<1>5. ClosedInv("opening", FALSE, <<>>, <<>>) BY DEF ClosedInv
<1>6. <<>> \in Seq(MidiEvent) /\ <<>> \in Seq(Message) /\ Len(<<>>) <= MidiQueueSize BY MidiAssumption
<1> HIDE DEF h
<1> QED BY <1>1, <1>2, <1>3, <1>4, <1>5, <1>6 DEF MidiInv, ClosedInv

LEMMA AllNumbersUpTo ==
  ASSUME NEW q \in Seq(Message), NEW k \in 0..MaxMidi, AllUpTo(q, k)
  PROVE  AllNumbers(q) \subseteq 1..k
<1>1. SUFFICES ASSUME NEW i \in DOMAIN q PROVE Numbers(q[i]) \subseteq 1..k BY DEF AllNumbers
<1>2. q[i] \in Message OBVIOUS
<1>3. q[i] \in Seq(MidiEvent) /\ UpTo(q[i], k) BY <1>2 DEF AllUpTo, Message
<1> QED BY <1>3, NumbersUpTo

LEMMA IgnoreStep ==
  ASSUME MidiInv, IgnoreTypes
  PROVE  MidiInv'
<1> DEFINE h == midiHistory
           X == IF device = NoEvent THEN {} ELSE {device.n}
           g == [h EXCEPT !.spoilt = @ \cup X]
<1>1. /\ midiPort = "opening" /\ midiPort' = "open" /\ midiHistory' = g
      /\ backend' = backend /\ device' = device /\ sysex' = sysex /\ bytes' = bytes
      /\ midiQueue' = midiQueue /\ midiRouted' = midiRouted
  BY DEF IgnoreTypes
<1>2. HistoryInv(h) /\ h \in History /\ h.sent \in Nat BY MidiAssumption DEF MidiInv, HistoryInv, History
<1>3. X \subseteq 1..h.sent
  <2>1. device # NoEvent => device \in MidiEvent /\ device.n <= h.sent BY DEF MidiInv, DeviceInv
  <2> QED BY <1>2, <2>1, EventsAre
<1>4. Spoilt(h, X, h.cut, g)
  <2>1. h.cut \in BOOLEAN BY <1>2 DEF History
  <2> HIDE DEF X, h
  <2>2. g = [h EXCEPT !.spoilt = @ \cup X, !.cut = h.cut] BY <1>2 DEF History
  <2> HIDE DEF g
  <2> QED BY <1>2, <1>3, <2>1, <2>2, SpoiltHistory
<1>5. device # NoEvent => device.n \in g.spoilt BY <1>4 DEF Spoilt
<1> HIDE DEF g, X
<1>6. DeviceInv(device, bytes, g) BY <1>4 DEF MidiInv, DeviceInv, Spoilt
<1>7. OrderInv(midiRouted, midiQueue, device, bytes, g.sent) BY <1>4 DEF MidiInv, OrderInv, Spoilt
<1>8. ASSUME backend \in Assembling
      PROVE  /\ AssemblyInv("open", device, sysex, bytes, g)
             /\ AllWhole(midiRouted, g.spoilt) /\ AllWhole(midiQueue, g.spoilt)
             /\ KeptInv(midiRouted, midiQueue, g)
  <2>1. /\ AllWhole(midiRouted, h.spoilt) /\ AllWhole(midiQueue, h.spoilt)
        /\ midiRouted \in Seq(Message) /\ midiQueue \in Seq(Message)
        /\ AssemblyInv(midiPort, device, sysex, bytes, h) /\ KeptInv(midiRouted, midiQueue, h)
    BY <1>8 DEF MidiInv
  <2>2. h.spoilt \subseteq g.spoilt BY <1>4 DEF Spoilt
  <2>3. AllWhole(midiRouted, g.spoilt) /\ AllWhole(midiQueue, g.spoilt) BY <2>1, <2>2, SpoiltMore
  <2>4. KeptInv(midiRouted, midiQueue, g) BY <1>4, <2>1 DEF KeptInv, Spoilt
  <2>5. AssemblyInv("open", device, sysex, bytes, g) BY <1>4, <1>5, <2>1 DEF AssemblyInv, Spoilt
  <2> QED BY <2>3, <2>4, <2>5
<1>9. HistoryInv(g) BY <1>4 DEF Spoilt
<1>10. ClosedInv("open", sysex, bytes, midiQueue) BY DEF ClosedInv
<1> HIDE DEF h
<1> QED BY <1>1, <1>6, <1>7, <1>8, <1>9, <1>10 DEF MidiInv, ClosedInv

LEMMA WholeNumbers ==
  ASSUME NEW m \in Message, Whole(m)
  PROVE  Numbers(m) = {m[1].n}
<1>1. 1 \in DOMAIN m BY DEF Message
<1> QED BY <1>1 DEF Whole, Numbers

LEMMA RecvStep ==
  ASSUME MidiInv, NEW mute \in BOOLEAN, RecvMIDI(mute)
  PROVE  MidiInv'
<1> DEFINE h == midiHistory
           q == midiQueue
           rt == midiRouted
           m == Head(q)
           T == Tail(q)
           mu == IF mute THEN h.muted \cup Numbers(m) ELSE h.muted
<1>1. /\ midiPort = "open" /\ q # <<>>
      /\ midiRouted' = IF mute THEN rt ELSE Append(rt, m)
      /\ midiHistory' = [h EXCEPT !.muted = mu]
      /\ midiQueue' = T
      /\ backend' = backend /\ midiPort' = midiPort /\ device' = device /\ sysex' = sysex /\ bytes' = bytes
  BY DEF RecvMIDI
<1>2. HistoryInv(h) /\ h \in History /\ h.sent \in Nat /\ h.sent \in 0..MaxMidi /\ MaxMidi \in Nat
  BY MidiAssumption DEF MidiInv, HistoryInv, History
<1>3. /\ q \in Seq(Message) /\ rt \in Seq(Message) /\ Len(q) <= MidiQueueSize
      /\ AllUpTo(rt, h.sent) /\ AllUpTo(q, h.sent) /\ InOrder(rt) /\ InOrder(q) /\ Before(rt, q)
      /\ (device # NoEvent /\ LooksLike(bytes, device)) => Below(rt, device.n) /\ Below(q, device.n)
      /\ device # NoEvent => device.n \in Nat
  BY EventsAre DEF MidiInv, OrderInv
<1> HIDE DEF h, q, rt
<1>4. /\ T \in Seq(Message) /\ m \in Message /\ Len(T) <= Len(q)
      /\ AllUpTo(T, h.sent) /\ UpTo(m, h.sent) /\ InOrder(T) /\ Before(rt, T)
      /\ (Whole(m) => Below(rt, m[1].n)) /\ Before(Append(rt, m), T)
      /\ \A k \in Nat : Below(q, k) => Below(T, k) /\ (Whole(m) => m[1].n < k)
      /\ \A S : AllWhole(q, S) => AllWhole(T, S) /\ (Whole(m) \/ Numbers(m) \cap S # {})
      /\ AllNumbers(q) = AllNumbers(T) \cup Numbers(m)
      /\ \A S : FirstsOutside(q, S) => FirstsOutside(T, S) /\ m[1].n \notin S
  BY <1>1, <1>2, <1>3, QueueTail
<1> HIDE DEF m, T
<1>5. Numbers(m) \subseteq 1..h.sent
  <2>1. m \in Seq(MidiEvent) BY <1>4 DEF Message
  <2> QED BY <1>2, <1>4, <2>1, NumbersUpTo
<1>6. Len(T) <= MidiQueueSize
  <2>1. Len(T) \in Nat /\ Len(q) \in Nat BY <1>3, <1>4
  <2> QED BY <1>3, <1>4, <2>1, MidiAssumption
<1>7. HistoryInv(midiHistory') /\ midiHistory'.sent = h.sent /\ midiHistory'.ended = h.ended
      /\ midiHistory'.cut = h.cut /\ midiHistory'.spoilt = h.spoilt /\ midiHistory'.refused = h.refused
      /\ midiHistory'.muted = mu
  <2>1. mu \subseteq 1..h.sent BY <1>2, <1>5 DEF HistoryInv
  <2>2. 1..h.sent \subseteq 1..MaxMidi BY <1>2
  <2> HIDE DEF mu
  <2>3. midiHistory' \in History BY <1>1, <1>2, <2>1, <2>2 DEF History
  <2>4. midiHistory'.sent = h.sent /\ midiHistory'.ended = h.ended
        /\ midiHistory'.cut = h.cut /\ midiHistory'.spoilt = h.spoilt /\ midiHistory'.refused = h.refused
        /\ midiHistory'.muted = mu
    BY <1>1, <1>2 DEF History
  <2> QED BY <1>2, <2>1, <2>3, <2>4 DEF HistoryInv
<1>8. DeviceInv(device, bytes, midiHistory') BY <1>7 DEF MidiInv, DeviceInv, h
<1>9. midiRouted' \in Seq(Message) /\ OrderInv(midiRouted', T, device, bytes, h.sent)
  <2>1. CASE mute
    <3>1. midiRouted' = rt BY <1>1, <2>1
    <3> QED BY <1>3, <1>4, <3>1 DEF OrderInv
  <2>2. CASE ~mute
    <3>1. midiRouted' = Append(rt, m) BY <1>1, <2>2
    <3>2. Append(rt, m) \in Seq(Message) /\ AllUpTo(Append(rt, m), h.sent) /\ InOrder(Append(rt, m))
      BY <1>2, <1>3, <1>4, QueueAppend
    <3>3. ASSUME device # NoEvent, LooksLike(bytes, device)
          PROVE  Below(Append(rt, m), device.n) /\ Below(T, device.n)
      <4>1. device.n \in Nat /\ Below(rt, device.n) /\ Below(q, device.n) BY <1>3, <3>3
      <4>2. Below(T, device.n) /\ (Whole(m) => m[1].n < device.n) BY <1>4, <4>1
      <4> QED BY <1>3, <1>4, <4>1, <4>2, QueueAppend
    <3> QED BY <1>4, <3>1, <3>2, <3>3 DEF OrderInv
  <2> QED BY <2>1, <2>2
<1>10. ASSUME backend \in Assembling
       PROVE  /\ AssemblyInv("open", device, sysex, bytes, midiHistory')
              /\ AllWhole(midiRouted', h.spoilt) /\ AllWhole(T, h.spoilt)
              /\ KeptInv(midiRouted', T, midiHistory')
  <2>1. /\ AllWhole(rt, h.spoilt) /\ AllWhole(q, h.spoilt)
        /\ AssemblyInv(midiPort, device, sysex, bytes, h) /\ KeptInv(rt, q, h)
    BY <1>10 DEF MidiInv, h, rt, q
  <2>2. AllWhole(T, h.spoilt) /\ (Whole(m) \/ Numbers(m) \cap h.spoilt # {}) BY <1>4, <2>1
  <2>3. AllWhole(midiRouted', h.spoilt)
    <3>1. AllWhole(Append(rt, m), h.spoilt) BY <1>3, <1>4, <2>1, <2>2, QueueAppend
    <3> QED BY <1>1, <2>1, <3>1
  <2>4. AssemblyInv("open", device, sysex, bytes, midiHistory') BY <1>1, <1>7, <2>1 DEF AssemblyInv
  <2>5. ASSUME h.spoilt = {} PROVE KeptInv(midiRouted', T, midiHistory')
    <3> DEFINE S == h.refused \cup h.muted
    <3>1. /\ h.ended = AllNumbers(rt) \cup AllNumbers(q) \cup h.refused \cup h.muted
          /\ FirstsOutside(rt, S) /\ FirstsOutside(q, S)
      BY <2>1, <2>5 DEF KeptInv
    <3>2. Whole(m) BY <2>2, <2>5
    <3>3. Numbers(m) = {m[1].n} BY <1>4, <3>2, WholeNumbers
    <3>4. FirstsOutside(T, S) /\ m[1].n \notin S BY <1>4, <3>1
    <3>5. CASE ~mute
      <4>1. midiRouted' = Append(rt, m) /\ mu = h.muted BY <1>1, <3>5
      <4>2. AllNumbers(midiRouted') = AllNumbers(rt) \cup Numbers(m) /\ FirstsOutside(midiRouted', S)
        BY <1>3, <1>4, <3>1, <3>4, <4>1, QueueAppend
      <4> QED BY <1>4, <1>7, <3>1, <3>4, <4>1, <4>2 DEF KeptInv
    <3>6. CASE mute
      <4> DEFINE n == m[1].n
      <4>1. midiRouted' = rt /\ mu = h.muted \cup {n} BY <1>1, <3>3, <3>6
      <4>2. ASSUME NEW i \in DOMAIN rt PROVE rt[i][1].n # n /\ rt[i][1].n \notin S
        <5>1. Whole(rt[i]) BY <2>1, <2>5 DEF AllWhole
        <5>2. rt[i][1].n < n BY <1>4, <3>2, <5>1 DEF Below
        <5>3. rt[i][1].n \in Nat /\ n \in Nat
          <6>1. rt[i] \in Message BY <1>3
          <6>2. rt[i][1] \in MidiEvent /\ m[1] \in MidiEvent BY <1>4, <6>1 DEF Message
          <6> QED BY <6>2, EventsAre
        <5> HIDE DEF n
        <5>4. rt[i][1].n # n BY <5>2, <5>3
        <5> QED BY <3>1, <5>4 DEF FirstsOutside
      <4>3. ASSUME NEW i \in DOMAIN T PROVE T[i][1].n # n /\ T[i][1].n \notin S
        <5>1. Whole(T[i]) BY <2>2, <2>5 DEF AllWhole
        <5>2. Append(rt, m)[Len(rt) + 1] = m /\ Len(rt) + 1 \in DOMAIN Append(rt, m)
          <6>1. /\ DOMAIN Append(rt, m) = 1..(Len(rt) + 1) /\ Len(rt) \in Nat
                /\ Append(rt, m)[Len(rt) + 1] = m
            BY <1>3, <1>4, AppendIs
          <6> QED BY <6>1
        <5>3. n < T[i][1].n BY <1>4, <3>2, <5>1, <5>2 DEF Before
        <5>4. T[i][1].n \in Nat /\ n \in Nat
          <6>1. T[i] \in Message BY <1>4
          <6>2. T[i][1] \in MidiEvent /\ m[1] \in MidiEvent BY <1>4, <6>1 DEF Message
          <6> QED BY <6>2, EventsAre
        <5> HIDE DEF n
        <5>5. T[i][1].n # n BY <5>3, <5>4
        <5> QED BY <3>4, <5>5 DEF FirstsOutside
      <4>4. FirstsOutside(rt, S \cup {n}) /\ FirstsOutside(T, S \cup {n}) BY <4>2, <4>3 DEF FirstsOutside
      <4>5. h.refused \cup mu = S \cup {n} BY <4>1
      <4>6. h.ended = AllNumbers(rt) \cup AllNumbers(T) \cup h.refused \cup mu BY <1>4, <3>1, <3>3, <4>1
      <4> HIDE DEF S, n, mu
      <4>7. FirstsOutside(rt, h.refused \cup mu) /\ FirstsOutside(T, h.refused \cup mu) BY <4>4, <4>5
      <4> QED BY <1>7, <4>1, <4>6, <4>7 DEF KeptInv
    <3> QED BY <3>5, <3>6
  <2>6. KeptInv(midiRouted', T, midiHistory') BY <1>7, <2>5 DEF KeptInv
  <2> QED BY <2>2, <2>3, <2>4, <2>6
<1>11. ClosedInv("open", sysex, bytes, T) BY DEF ClosedInv
<1>12. HistoryInv(midiHistory') /\ OrderInv(midiRouted', midiQueue', device', bytes', midiHistory'.sent)
  BY <1>1, <1>7, <1>9
<1>13. backend \in Assembling =>
         /\ AssemblyInv(midiPort', device', sysex', bytes', midiHistory')
         /\ AllWhole(midiRouted', midiHistory'.spoilt) /\ AllWhole(midiQueue', midiHistory'.spoilt)
         /\ KeptInv(midiRouted', midiQueue', midiHistory')
  BY <1>1, <1>7, <1>10
<1>14. DeviceInv(device', bytes', midiHistory') BY <1>1, <1>8
<1> QED BY <1>1, <1>4, <1>6, <1>9, <1>12, <1>13, <1>14 DEF MidiInv, ClosedInv

LEMMA CloseStep ==
  ASSUME MidiInv, ClosePort
  PROVE  MidiInv'
<1> DEFINE h == midiHistory
           q == midiQueue
           X == (IF device = NoEvent THEN {} ELSE {device.n}) \cup UNION {Numbers(m) : m \in Range(q)}
           g == [h EXCEPT !.cut = FALSE, !.spoilt = @ \cup X]
<1>1. /\ midiPort = "open" /\ midiPort' = "closed" /\ sysex' = FALSE /\ bytes' = <<>> /\ midiQueue' = <<>>
      /\ midiHistory' = [h EXCEPT !.cut = FALSE, !.spoilt = @ \cup
           (IF device = NoEvent THEN {} ELSE {device.n}) \cup UNION {Numbers(m) : m \in Range(q)}]
      /\ backend' = backend /\ device' = device /\ midiRouted' = midiRouted
  BY DEF ClosePort
<1>2. HistoryInv(h) /\ h \in History /\ h.sent \in Nat /\ h.sent \in 0..MaxMidi
  BY MidiAssumption DEF MidiInv, HistoryInv, History
<1>3. X = (IF device = NoEvent THEN {} ELSE {device.n}) \cup AllNumbers(q)
  <2>1. UNION {Numbers(m) : m \in Range(q)} = AllNumbers(q) BY DEF AllNumbers, Range
  <2> QED BY <2>1
<1>4. X \subseteq 1..h.sent
  <2>1. device # NoEvent => device.n \in 1..h.sent
    <3>1. device # NoEvent => device \in MidiEvent /\ device.n <= h.sent BY DEF MidiInv, DeviceInv
    <3> QED BY <1>2, <3>1, EventsAre
  <2>2. q \in Seq(Message) /\ AllUpTo(q, h.sent) BY DEF MidiInv, OrderInv
  <2> HIDE DEF q, h, X
  <2>3. AllNumbers(q) \subseteq 1..h.sent BY <1>2, <2>2, AllNumbersUpTo
  <2> QED BY <1>3, <2>1, <2>3
<1>5. midiHistory' = [h EXCEPT !.spoilt = @ \cup X, !.cut = FALSE] BY <1>1, <1>2 DEF History
<1>6. Spoilt(h, X, FALSE, midiHistory')
  <2> HIDE DEF X, h
  <2>1. FALSE \in BOOLEAN OBVIOUS
  <2>2. Spoilt(h, X, FALSE, [h EXCEPT !.spoilt = @ \cup X, !.cut = FALSE]) BY <1>2, <1>4, <2>1, SpoiltHistory
  <2> QED BY <1>5, <2>2
<1>7. device # NoEvent => device.n \in midiHistory'.spoilt BY <1>3, <1>6 DEF Spoilt
<1>8. HistoryInv(midiHistory') /\ midiHistory'.sent = h.sent BY <1>6 DEF Spoilt
<1>9. DeviceInv(device, <<>>, midiHistory') BY <1>6 DEF MidiInv, DeviceInv, Spoilt, UpTo
<1>10. OrderInv(midiRouted, <<>>, device, <<>>, midiHistory'.sent)
  <2>1. midiRouted \in Seq(Message) /\ AllUpTo(midiRouted, h.sent) /\ InOrder(midiRouted)
    BY DEF MidiInv, OrderInv
  <2>2. /\ AllUpTo(<<>>, h.sent) /\ InOrder(<<>>) /\ Before(midiRouted, <<>>) BY <1>2, <2>1, EmptyQueue
  <2>3. ~(device # NoEvent /\ LooksLike(<<>>, device))
    <3>1. device # NoEvent => device.part \in Nat \ {0} BY EventsAre DEF MidiInv
    <3> QED BY <3>1 DEF LooksLike
  <2> QED BY <1>8, <2>1, <2>2, <2>3 DEF OrderInv
<1>11. ASSUME backend \in Assembling
       PROVE  /\ AssemblyInv("closed", device, FALSE, <<>>, midiHistory')
              /\ AllWhole(midiRouted, midiHistory'.spoilt) /\ AllWhole(<<>>, midiHistory'.spoilt)
              /\ KeptInv(midiRouted, <<>>, midiHistory')
  <2>1. /\ AllWhole(midiRouted, h.spoilt) /\ midiRouted \in Seq(Message) /\ KeptInv(midiRouted, q, h)
    BY <1>11 DEF MidiInv
  <2>2. AllWhole(midiRouted, midiHistory'.spoilt)
    <3>1. h.spoilt \subseteq midiHistory'.spoilt BY <1>6 DEF Spoilt
    <3> QED BY <2>1, <3>1, SpoiltMore
  <2>3. AssemblyInv("closed", device, FALSE, <<>>, midiHistory') BY <1>7 DEF AssemblyInv
  <2>4. AllWhole(<<>>, midiHistory'.spoilt) BY DEF AllWhole
  <2>5. KeptInv(midiRouted, <<>>, midiHistory')
    <3>1. SUFFICES ASSUME midiHistory'.spoilt = {}
                   PROVE  /\ midiHistory'.ended = AllNumbers(midiRouted) \cup AllNumbers(<<>>)
                                                  \cup midiHistory'.refused \cup midiHistory'.muted
                          /\ FirstsOutside(midiRouted, midiHistory'.refused \cup midiHistory'.muted)
                          /\ FirstsOutside(<<>>, midiHistory'.refused \cup midiHistory'.muted)
      BY DEF KeptInv
    <3>2. h.spoilt = {} /\ X = {} BY <1>6, <3>1 DEF Spoilt
    <3>3. AllNumbers(q) = {} BY <1>3, <3>2
    <3>4. AllNumbers(<<>>) = {} BY DEF AllNumbers
    <3>5. FirstsOutside(<<>>, midiHistory'.refused \cup midiHistory'.muted) BY DEF FirstsOutside
    <3>6. /\ h.ended = AllNumbers(midiRouted) \cup AllNumbers(q) \cup h.refused \cup h.muted
          /\ FirstsOutside(midiRouted, h.refused \cup h.muted)
      BY <2>1, <3>2 DEF KeptInv
    <3> HIDE DEF X, h, q
    <3>7. midiHistory'.ended = h.ended /\ midiHistory'.refused = h.refused /\ midiHistory'.muted = h.muted
      BY <1>6 DEF Spoilt
    <3> QED BY <3>3, <3>4, <3>5, <3>6, <3>7
  <2> QED BY <2>2, <2>3, <2>4, <2>5
<1>12. ClosedInv("closed", FALSE, <<>>, <<>>) BY DEF ClosedInv
<1>13. <<>> \in Seq(MidiEvent) /\ <<>> \in Seq(Message) /\ Len(<<>>) <= MidiQueueSize BY MidiAssumption
<1> QED BY <1>1, <1>8, <1>9, <1>10, <1>11, <1>12, <1>13 DEF MidiInv, ClosedInv

LEMMA MidiStep == MidiInv /\ [MidiNext]_midiVars => MidiInv'
<1> SUFFICES ASSUME MidiInv, [MidiNext]_midiVars PROVE MidiInv' OBVIOUS
<1>1. ASSUME NEW type \in {"short", "realtime", "sysex"}, NEW of \in MidiParts \cup {1}, DeviceSend(type, of)
      PROVE  MidiInv'
  BY <1>1, SendStep
<1>2. CASE DeviceContinue BY <1>2, ContinueStep
<1>3. CASE DeviceStop BY <1>3, StopStep
<1>4. CASE OpenPort BY <1>4, OpenStep
<1>5. CASE IgnoreTypes BY <1>5, IgnoreStep
<1>6. ASSUME NEW mute \in BOOLEAN, RecvMIDI(mute) PROVE MidiInv' BY <1>6, RecvStep
<1>7. CASE ClosePort BY <1>7, CloseStep
<1>8. CASE UNCHANGED midiVars BY <1>8 DEF midiVars, MidiInv, ClosedInv
<1> QED BY <1>1, <1>2, <1>3, <1>4, <1>5, <1>6, <1>7, <1>8 DEF MidiNext

LEMMA MidiInvSuffices == MidiInv => MidiTypeOK /\ MidiDelivered
<1> SUFFICES ASSUME MidiInv PROVE MidiTypeOK /\ MidiDelivered OBVIOUS
<1> DEFINE h == midiHistory
           kept == midiRouted \o midiQueue
<1>1. MidiTypeOK
  <2>1. Range(bytes) \subseteq MidiEvent BY DEF MidiInv, Range
  <2> QED BY <2>1 DEF MidiTypeOK, MidiInv, HistoryInv, History
<1>2. OnlySpoiltBroken
  <2>1. backend \in Assembling => AllWhole(midiRouted, h.spoilt) BY DEF MidiInv
  <2> QED BY <2>1 DEF OnlySpoiltBroken, AllWhole, Range
<1>3. RoutedInOrder BY DEF MidiInv, OrderInv, InOrder, RoutedInOrder
<1>4. NothingLost
  <2>1. SUFFICES ASSUME backend \in Assembling, h.spoilt = {}
                 PROVE  /\ h.ended = (UNION {Numbers(m) : m \in Range(kept)}) \cup h.refused \cup h.muted
                        /\ \A i \in DOMAIN kept : kept[i][1].n \notin h.refused \cup h.muted
    BY DEF NothingLost
  <2>2. /\ h.ended = AllNumbers(midiRouted) \cup AllNumbers(midiQueue) \cup h.refused \cup h.muted
        /\ FirstsOutside(midiRouted, h.refused \cup h.muted)
        /\ FirstsOutside(midiQueue, h.refused \cup h.muted)
    BY <2>1 DEF MidiInv, KeptInv
  <2> DEFINE A == Len(midiRouted)
             B == Len(midiQueue)
  <2>3. /\ A \in Nat /\ B \in Nat /\ DOMAIN midiRouted = 1..A /\ DOMAIN midiQueue = 1..B
        /\ midiRouted \in Seq(Message) /\ midiQueue \in Seq(Message)
    BY DEF MidiInv
  <2>4. /\ DOMAIN kept = 1..(A + B)
        /\ \A i \in 1..(A + B) : kept[i] = IF i <= A THEN midiRouted[i] ELSE midiQueue[i - A]
    BY <2>3, ConcatProperties
  <2> HIDE DEF A, B, kept
  <2>5. ASSUME NEW i \in DOMAIN kept
        PROVE  \/ i \in DOMAIN midiRouted /\ kept[i] = midiRouted[i]
               \/ i - A \in DOMAIN midiQueue /\ kept[i] = midiQueue[i - A]
    BY <2>3, <2>4
  <2>6. \A i \in DOMAIN midiRouted : i \in DOMAIN kept /\ kept[i] = midiRouted[i] BY <2>3, <2>4
  <2>7. ASSUME NEW i \in DOMAIN midiQueue PROVE i + A \in DOMAIN kept /\ kept[i + A] = midiQueue[i]
    <3>1. i + A \in 1..(A + B) /\ ~(i + A <= A) /\ (i + A) - A = i BY <2>3
    <3> QED BY <2>4, <3>1
  <2>8. UNION {Numbers(m) : m \in Range(kept)} = AllNumbers(midiRouted) \cup AllNumbers(midiQueue)
    <3>1. UNION {Numbers(m) : m \in Range(kept)} = AllNumbers(kept) BY DEF AllNumbers, Range
    <3>2. AllNumbers(kept) \subseteq AllNumbers(midiRouted) \cup AllNumbers(midiQueue) BY <2>5 DEF AllNumbers
    <3>3. AllNumbers(midiRouted) \subseteq AllNumbers(kept) BY <2>6 DEF AllNumbers
    <3>4. AllNumbers(midiQueue) \subseteq AllNumbers(kept)
      <4>1. SUFFICES ASSUME NEW i \in DOMAIN midiQueue PROVE Numbers(midiQueue[i]) \subseteq AllNumbers(kept)
        BY DEF AllNumbers
      <4>2. i + A \in DOMAIN kept /\ kept[i + A] = midiQueue[i] BY <2>7
      <4> HIDE DEF Numbers
      <4> QED BY <4>2 DEF AllNumbers
    <3> QED BY <3>1, <3>2, <3>3, <3>4
  <2>9. \A i \in DOMAIN kept : kept[i][1].n \notin h.refused \cup h.muted BY <2>2, <2>5 DEF FirstsOutside
  <2> QED BY <2>2, <2>8, <2>9
<1> QED BY <1>1, <1>2, <1>3, <1>4 DEF MidiDelivered

\* Every variable of the MIDI input has the values of its type, for any numbers of parts, any
\* length of the queue and every backend (the callbacks, BuildMIDI, RecvMIDI).
THEOREM MidiTypes == MidiSpec => []MidiTypeOK
<1>1. MidiInv => MidiTypeOK BY MidiInvSuffices
<1> QED BY <1>1, MidiInitInv, MidiStep, PTL DEF MidiSpec

\* A message that is routed is whole, or spoilt by the driver or a port that opens or closes;
\* while nothing is spoilt none is lost; and they keep their order (the callbacks, MidiQueue,
\* RecvMIDI).
THEOREM MidiIsDelivered == MidiSpec => []MidiDelivered
<1>1. MidiInv => MidiDelivered BY MidiInvSuffices
<1> QED BY <1>1, MidiInitInv, MidiStep, PTL DEF MidiSpec

-----------------------------------------------------------------------------
(* PSN: the decoder, and the frames that come whole.                       *)

Decoder == [count: Nat, data: PsnHeader, toCommit: PsnHeader]
PsnPacket == [id: 0..(PsnIds - 1), packets: Nat \ {0}, trackers: SUBSET Tracker, value: 0..MaxPsnFrames]
Reception == [decoder: Decoder, frame: 0..PsnIds, shown: Shown]

\* The decoder between two packets: amid a frame, or with nothing collected.
Amid(d) ==
  /\ d.count = 0 \/ d.count < d.toCommit.packets
  /\ d.count = 0 => d.toCommit.trackers = NoTracker

\* The trackers with those of a packet.
WithPart(trackers, p) == [t \in Tracker |-> IF t \in p.trackers THEN p.value ELSE trackers[t]]

\* The ids of two frames in a row differ.
LEMMA IdsDiffer ==
  ASSUME NEW f \in Nat \ {0}
  PROVE  /\ f % PsnIds \in 0..(PsnIds - 1) /\ (f - 1) % PsnIds \in 0..(PsnIds - 1)
         /\ f % PsnIds # (f - 1) % PsnIds
<1> DEFINE P == PsnIds
<1>1. P \in Nat /\ P >= 2 BY PsnAssumption
<1> HIDE DEF P
<1>2. \A n \in Nat : n % P \in 0..(P - 1) /\ n \div P \in Nat /\ n = P * (n \div P) + (n % P)
  <2> SUFFICES ASSUME NEW n \in Nat PROVE n % P \in 0..(P - 1) /\ n \div P \in Nat /\ n = P * (n \div P) + (n % P)
    OBVIOUS
  <2>1. n % P \in 0..(P - 1) /\ n \div P \in Nat BY <1>1
  <2>2. n = P * (n \div P) + (n % P) BY <1>1
  <2> QED BY <2>1, <2>2
<1>3. f - 1 \in Nat /\ f \in Nat OBVIOUS
<1>4. ASSUME f % P = (f - 1) % P PROVE FALSE
  <2> DEFINE a == f \div P
             b == (f - 1) \div P
             r == f % P
  <2>1. a \in Nat /\ b \in Nat /\ r \in Nat /\ f = P * a + r /\ f - 1 = P * b + r
    <3>1. r \in 0..(P - 1) /\ a \in Nat /\ f = P * a + r BY <1>2, <1>3
    <3>2. b \in Nat /\ f - 1 = P * b + ((f - 1) % P) BY <1>2, <1>3
    <3>3. r \in Nat BY <1>1, <3>1
    <3> QED BY <1>4, <3>1, <3>2, <3>3
  <2> HIDE DEF a, b, r
  <2> DEFINE c == a - b
  <2>2. c \in Int /\ P * a = P * b + P * c BY <1>1, <2>1
  <2>3. P * a \in Int /\ P * b \in Int /\ P * c \in Int BY <1>1, <2>1, <2>2
  <2> HIDE DEF c
  <2>4. P * c = 1
    <3> DEFINE x == P * a
               y == P * b
               z == P * c
    <3>1. x \in Int /\ y \in Int /\ z \in Int /\ f = x + r /\ f - 1 = y + r /\ x = y + z BY <2>1, <2>2, <2>3
    <3> HIDE DEF x, y, z
    <3>2. z = 1 BY <2>1, <3>1
    <3> QED BY <3>2 DEF z
  <2>5. CASE c <= 0
    <3>1. P * c <= 0 BY <1>1, <2>2, <2>5
    <3> QED BY <2>4, <3>1
  <2>6. CASE c >= 1
    <3>1. P * c >= P BY <1>1, <2>2, <2>6
    <3> QED BY <1>1, <2>4, <3>1
  <2> QED BY <2>2, <2>5, <2>6
<1> QED BY <1>2, <1>3, <1>4 DEF P

-----------------------------------------------------------------------------
(* The decoder, a packet at a time.                                        *)

LEMMA WithIsShown ==
  ASSUME NEW trackers \in Shown, NEW p \in PsnPacket PROVE WithPart(trackers, p) \in Shown
  BY DEF WithPart, Shown, PsnPacket

LEMMA NoTrackerIsShown == NoTracker \in Shown
  BY PsnAssumption DEF NoTracker, Shown

\* A packet that does not end another frame.
LEMMA DecodeGoesOn ==
  ASSUME NEW d \in Decoder, NEW p \in PsnPacket, d.count = 0 \/ d.toCommit.id = p.id
  PROVE  LET e == Decode(d, p)
         IN  /\ e \in Decoder /\ Amid(e) /\ e.toCommit.id = p.id
             /\ d.count + 1 < p.packets => /\ e.count = d.count + 1 /\ e.data = d.data
                                           /\ e.toCommit.trackers = WithPart(d.toCommit.trackers, p)
             /\ ~(d.count + 1 < p.packets) => /\ e.count = 0 /\ e.data.id = p.id
                                              /\ e.data.trackers = WithPart(d.toCommit.trackers, p)
<1> DEFINE next == [d.toCommit EXCEPT !.id = p.id, !.packets = p.packets]
           h == DecodeDataHeader(d, p.id, p.packets)
           t == DecodeTrackers(h, p.trackers, p.value)
           e == Decode(d, p)
<1>1. d.count \in Nat /\ d.data \in PsnHeader /\ d.toCommit \in PsnHeader BY DEF Decoder
<1>2. /\ next \in PsnHeader /\ next.id = p.id /\ next.packets = p.packets
      /\ next.trackers = d.toCommit.trackers
  BY <1>1 DEF PsnHeader, PsnPacket
<1>3. h = [d EXCEPT !.toCommit = next] BY DEF DecodeDataHeader
<1> HIDE DEF next
<1>4. h \in Decoder /\ h.count = d.count /\ h.data = d.data /\ h.toCommit = next BY <1>2, <1>3 DEF Decoder
<1> HIDE DEF h
<1>5. t = [h EXCEPT !.toCommit.trackers = WithPart(next.trackers, p)] BY <1>4 DEF DecodeTrackers, WithPart
<1> DEFINE full == [next EXCEPT !.trackers = WithPart(next.trackers, p)]
<1>6. full \in PsnHeader /\ full.id = p.id /\ full.packets = p.packets /\ full.trackers = WithPart(next.trackers, p)
  <2>1. WithPart(next.trackers, p) \in Shown BY <1>2, WithIsShown DEF PsnHeader
  <2> QED BY <1>2, <2>1 DEF PsnHeader
<1>7. t = [h EXCEPT !.toCommit = full] BY <1>4, <1>5 DEF Decoder
<1> HIDE DEF full
<1>8. t \in Decoder /\ t.count = d.count /\ t.data = d.data /\ t.toCommit = full BY <1>4, <1>6, <1>7 DEF Decoder
<1>9. e = Committed(t) BY DEF Decode, h, t
<1> HIDE DEF t, e
<1>10. CASE d.count + 1 < p.packets
  <2>1. e = [t EXCEPT !.count = d.count + 1] BY <1>6, <1>8, <1>9, <1>10 DEF Committed
  <2>2. e \in Decoder /\ e.count = d.count + 1 /\ e.data = d.data /\ e.toCommit = full
    BY <1>1, <1>8, <2>1 DEF Decoder
  <2>3. e.count # 0 BY <1>1, <2>2
  <2>4. Amid(e) BY <1>6, <1>10, <2>2, <2>3 DEF Amid
  <2> QED BY <1>2, <1>6, <1>10, <2>2, <2>4 DEF e
<1>11. CASE ~(d.count + 1 < p.packets)
  <2> DEFINE none == [full EXCEPT !.trackers = NoTracker]
  <2>1. none \in PsnHeader /\ none.id = p.id /\ none.trackers = NoTracker
    BY <1>6, NoTrackerIsShown DEF PsnHeader
  <2>2. e = [count |-> 0, data |-> full, toCommit |-> none] BY <1>6, <1>8, <1>9, <1>11 DEF Committed
  <2> HIDE DEF none
  <2>3. e \in Decoder /\ e.count = 0 /\ e.data = full /\ e.toCommit = none BY <1>6, <2>1, <2>2 DEF Decoder
  <2>4. Amid(e) BY <2>1, <2>3 DEF Amid
  <2> QED BY <1>2, <1>6, <1>11, <2>1, <2>3, <2>4 DEF e
<1> QED BY <1>10, <1>11 DEF e

\* The first packet of a frame, amid another one.
LEMMA DecodeBreaks ==
  ASSUME NEW d \in Decoder, NEW p \in PsnPacket, d.count # 0, d.toCommit.id # p.id
  PROVE  LET e == Decode(d, p)
         IN  /\ e \in Decoder /\ Amid(e) /\ e.toCommit.id = p.id /\ e.data.id = p.id
             /\ e.count = IF 1 < p.packets THEN 1 ELSE 0
<1> DEFINE next == [d.toCommit EXCEPT !.id = p.id, !.packets = p.packets]
           h == DecodeDataHeader(d, p.id, p.packets)
           e == Decode(d, p)
<1>1. d.count \in Nat /\ d.data \in PsnHeader /\ d.toCommit \in PsnHeader BY DEF Decoder
<1>2. next \in PsnHeader /\ next.id = p.id BY <1>1 DEF PsnHeader, PsnPacket
<1>3. h = [count |-> 0, data |-> next, toCommit |-> next] BY DEF DecodeDataHeader
<1> HIDE DEF next
<1>4. h \in Decoder /\ h.count = 0 /\ h.data = next /\ h.toCommit = next BY <1>2, <1>3 DEF Decoder
<1> HIDE DEF h
<1>5. e = Decode(h, p)
  <2>1. DecodeDataHeader(h, p.id, p.packets) = [h EXCEPT !.toCommit = [next EXCEPT !.id = p.id, !.packets = p.packets]]
    BY <1>4 DEF DecodeDataHeader
  <2>2. p.packets = next.packets BY <1>1 DEF next, PsnHeader
  <2>3. [next EXCEPT !.id = p.id, !.packets = p.packets] = next BY <1>2, <2>2 DEF PsnHeader
  <2>4. DecodeDataHeader(h, p.id, p.packets) = h BY <1>4, <2>1, <2>3 DEF Decoder
  <2> QED BY <2>4 DEF Decode, h
<1>6. /\ e \in Decoder /\ Amid(e) /\ e.toCommit.id = p.id
      /\ h.count + 1 < p.packets => e.count = h.count + 1 /\ e.data = h.data
      /\ ~(h.count + 1 < p.packets) => e.count = 0 /\ e.data.id = p.id
  <2> HIDE DEF e
  <2>1. h.count = 0 \/ h.toCommit.id = p.id BY <1>4
  <2>2. /\ Decode(h, p) \in Decoder /\ Amid(Decode(h, p)) /\ Decode(h, p).toCommit.id = p.id
        /\ h.count + 1 < p.packets => Decode(h, p).count = h.count + 1 /\ Decode(h, p).data = h.data
        /\ ~(h.count + 1 < p.packets) => Decode(h, p).count = 0 /\ Decode(h, p).data.id = p.id
    BY <1>4, <2>1, DecodeGoesOn
  <2> QED BY <1>5, <2>2
<1> HIDE DEF e
<1>7. 0 + 1 = 1 OBVIOUS
<1> QED BY <1>2, <1>4, <1>6, <1>7 DEF e

LEMMA ReceiveIs ==
  ASSUME NEW st \in Reception, NEW d \in Decoder
  PROVE  LET w == Receive(st, d)
         IN  /\ w \in Reception /\ w.decoder = d /\ w.frame = d.data.id
             /\ st.frame # d.data.id => \A t \in Tracker : d.data.trackers[t] # 0 => w.shown[t] = d.data.trackers[t]
             /\ st.frame = d.data.id => w.shown = st.shown
<1> DEFINE shown == IF IsNew(st.frame, d)
                    THEN [t \in Tracker |-> IF d.data.trackers[t] # 0 THEN d.data.trackers[t] ELSE st.shown[t]]
                    ELSE st.shown
           w == Receive(st, d)
<1>1. d.data.trackers \in Shown /\ d.data.id \in 0..PsnIds /\ st.shown \in Shown
  BY PsnAssumption DEF Decoder, PsnHeader, Reception
<1>2. shown \in Shown BY <1>1 DEF Shown
<1>3. /\ st.frame # d.data.id => \A t \in Tracker : d.data.trackers[t] # 0 => shown[t] = d.data.trackers[t]
      /\ st.frame = d.data.id => shown = st.shown
  BY DEF IsNew
<1>4. w = [decoder |-> d, frame |-> d.data.id, shown |-> shown] BY DEF Receive
<1> HIDE DEF shown, w
<1>5. w \in Reception /\ w.decoder = d /\ w.frame = d.data.id /\ w.shown = shown BY <1>1, <1>2, <1>4 DEF Reception
<1> QED BY <1>3, <1>5 DEF w

-----------------------------------------------------------------------------
(* Frames in a row that come whole.                                        *)

\* Packets of the frame that have been sent, and the ids of the frame and of the one before.
Gone(s) == Len(s.split) - Len(s.left)
FrameId(s) == s.frame % PsnIds
IdBefore(s) == (s.frame - 1) % PsnIds

SentRight(s) ==
  /\ s \in [frame: 0..MaxPsnFrames, split: PsnSplits \cup {<<>>}, left: Split]
  /\ Len(s.left) <= Len(s.split)
  /\ \A i \in 1..Len(s.left) : s.left[i] = s.split[Gone(s) + i]

\* After k of n packets of whole frame number w: the decoder has them, under their id; what was
\* begun before is given up with the second at the latest.
Numbered(w, k, n, id, before, d, frame) ==
  /\ w >= 1 /\ k >= 1 => frame = d.data.id /\ d.toCommit.id = id /\ (d.count = 0 => d.data.id = id)
  /\ w >= 2 /\ k = 0 => frame = d.data.id /\ d.toCommit.id = before /\ (d.count = 0 => d.data.id = before)
  /\ w >= 2 /\ k >= 1 => d.count = IF k < n THEN k ELSE 0
  /\ w = 3 /\ k = 0 => d.count = 0 /\ d.data.id = before
  /\ w = 3 /\ k >= 1 /\ k < n => d.data.id = before

\* Each of them has its trackers there, and the last brings them all to be shown.
Filled(w, k, n, s, trackers, shown) ==
  w = 3 => /\ k < n => \A j \in 1..k : \A t \in s.split[j] : trackers[t] = s.frame
           /\ k = n => \A j \in 1..k : \A t \in s.split[j] : shown[t] = s.frame

WholeFrame(w, s, st) ==
  /\ w >= 1 => Len(s.split) >= 1 /\ s.frame >= 1
  /\ Numbered(w, Gone(s), Len(s.split), FrameId(s), IdBefore(s), st.decoder, st.frame)
  /\ Filled(w, Gone(s), Len(s.split), s, st.decoder.toCommit.trackers, st.shown)

PsnInv ==
  /\ PsnState \in Reception /\ Amid(psnDecoder) /\ SentRight(psnSent)
  /\ psnHistory \in [faults: 0..MaxPsnFaults, whole: 0..3]
  /\ WholeFrame(psnHistory.whole, psnSent, PsnState)

\* What is received keeps its types and leaves the decoder between two packets.
LEMMA ReceivedFits ==
  ASSUME NEW st \in Reception, NEW p \in PsnPacket
  PROVE  LET w == PsnReceived(st, p)
         IN  w \in Reception /\ Amid(w.decoder) /\ w.frame = w.decoder.data.id
             /\ w.decoder = Decode(st.decoder, p)
<1> DEFINE d == st.decoder
           e == Decode(d, p)
           w == PsnReceived(st, p)
<1>1. d \in Decoder BY DEF Reception
<1>2. e \in Decoder /\ Amid(e)
  <2> HIDE DEF d
  <2>1. CASE d.count = 0 \/ d.toCommit.id = p.id BY <1>1, <2>1, DecodeGoesOn
  <2>2. CASE d.count # 0 /\ d.toCommit.id # p.id BY <1>1, <2>2, DecodeBreaks
  <2> QED BY <2>1, <2>2
<1> HIDE DEF e
<1>3. w = Receive(st, e) BY DEF PsnReceived, e
<1>4. Receive(st, e) \in Reception /\ Receive(st, e).decoder = e /\ Receive(st, e).frame = e.data.id
  BY <1>2, ReceiveIs
<1> QED BY <1>2, <1>3, <1>4 DEF e

\* The next packet of a whole frame.
LEMMA WholeGoesOn ==
  ASSUME NEW st \in Reception, NEW s, SentRight(s), NEW w \in 1..3, WholeFrame(w, s, st), s.left # <<>>,
         NEW p \in PsnPacket, p.id = FrameId(s), p.packets = Len(s.split), p.trackers = Head(s.left),
         p.value = s.frame
  PROVE  WholeFrame(w, [s EXCEPT !.left = Tail(s.left)], PsnReceived(st, p))
<1> DEFINE n == Len(s.split)
           k == Gone(s)
           id == FrameId(s)
           before == IdBefore(s)
           d == st.decoder
           e == Decode(d, p)
           u == PsnReceived(st, p)
           r == [s EXCEPT !.left = Tail(s.left)]
<1>1. /\ s \in [frame: 0..MaxPsnFrames, split: PsnSplits \cup {<<>>}, left: Split]
      /\ n \in Nat /\ n >= 1 /\ Len(s.left) \in Nat /\ Len(s.left) >= 1 /\ Len(s.left) <= n
      /\ s.frame \in Nat \ {0} /\ s.left[1] = s.split[k + 1]
  <2>1. s \in [frame: 0..MaxPsnFrames, split: PsnSplits \cup {<<>>}, left: Split] BY DEF SentRight
  <2>2. s.split \in Split /\ s.left \in Split
    <3>1. <<>> \in Split /\ PsnSplits \subseteq Split BY PsnAssumption DEF Split
    <3> QED BY <2>1, <3>1
  <2>3. n \in Nat /\ Len(s.left) \in Nat /\ Len(s.left) >= 1 BY <2>2 DEF Split
  <2>4. n >= 1 /\ s.frame >= 1 BY DEF WholeFrame
  <2>5. s.frame \in Nat \ {0} BY <2>1, <2>4, PsnAssumption
  <2>6. 1 \in 1..Len(s.left) BY <2>3
  <2> QED BY <2>1, <2>3, <2>4, <2>5, <2>6 DEF SentRight
<1>2. k \in Nat /\ k < n BY <1>1 DEF Gone
<1>3. /\ r.split = s.split /\ r.frame = s.frame /\ r.left = Tail(s.left) BY <1>1
<1>4. Gone(r) = k + 1 /\ FrameId(r) = id /\ IdBefore(r) = before
  <2>1. Len(Tail(s.left)) = Len(s.left) - 1 BY <1>1
  <2> QED BY <1>1, <1>3, <2>1 DEF Gone, FrameId, IdBefore
<1>5. id # before BY <1>1, IdsDiffer DEF FrameId, IdBefore
<1>6. Head(s.left) = s.split[k + 1] BY <1>1
<1>7. /\ Numbered(w, k, n, id, before, d, st.frame)
      /\ Filled(w, k, n, s, d.toCommit.trackers, st.shown)
  BY DEF WholeFrame
<1> HIDE DEF n, k, id, before, r
<1>8. d \in Decoder /\ d.count \in Nat BY DEF Reception, Decoder
<1>9. u = Receive(st, e) BY DEF PsnReceived
<1> HIDE DEF d, e, u
<1>10. d.count = 0 \/ d.toCommit.id = p.id =>
         /\ e \in Decoder /\ e.toCommit.id = id
         /\ d.count + 1 < n => /\ e.count = d.count + 1 /\ e.data = d.data
                               /\ e.toCommit.trackers = WithPart(d.toCommit.trackers, p)
         /\ ~(d.count + 1 < n) => /\ e.count = 0 /\ e.data.id = id
                                  /\ e.data.trackers = WithPart(d.toCommit.trackers, p)
  BY <1>8, DecodeGoesOn DEF e, n, id
<1>11. d.count # 0 /\ d.toCommit.id # p.id =>
         e \in Decoder /\ e.toCommit.id = id /\ e.data.id = id /\ e.count = IF 1 < n THEN 1 ELSE 0
  BY <1>8, DecodeBreaks DEF e, n, id
<1>12. e \in Decoder BY <1>10, <1>11
<1>13. /\ u \in Reception /\ u.decoder = e /\ u.frame = e.data.id
       /\ st.frame # e.data.id => \A t \in Tracker : e.data.trackers[t] # 0 => u.shown[t] = e.data.trackers[t]
  BY <1>9, <1>12, ReceiveIs
<1>14. p.id = id BY DEF id
<1>15. e.toCommit.id = id /\ (e.count = 0 => e.data.id = id)
  <2>1. d.count + 1 # 0 BY <1>8
  <2>2. CASE d.count = 0 \/ d.toCommit.id = p.id BY <1>10, <2>1, <2>2
  <2>3. CASE d.count # 0 /\ d.toCommit.id # p.id BY <1>11, <2>3
  <2> QED BY <2>2, <2>3
<1>16. ASSUME w >= 2 PROVE e.count = IF k + 1 < n THEN k + 1 ELSE 0
  <2>1. CASE k = 0
    <3>1. d.toCommit.id = before BY <1>7, <1>16, <2>1 DEF Numbered
    <3>2. CASE d.count = 0 BY <1>10, <2>1, <3>2
    <3>3. CASE d.count # 0 BY <1>5, <1>11, <1>14, <2>1, <3>1, <3>3
    <3> QED BY <3>2, <3>3
  <2>2. CASE k # 0
    <3>1. k >= 1 BY <1>2, <2>2
    <3>2. d.toCommit.id = id /\ d.count = k BY <1>2, <1>7, <1>16, <3>1 DEF Numbered
    <3> QED BY <1>10, <1>14, <3>2
  <2> QED BY <2>1, <2>2
<1>17. ASSUME w = 3
       PROVE  /\ d.count = k /\ st.frame = before /\ (k = 0 \/ d.toCommit.id = id)
              /\ d.data.id = before
  <2>1. CASE k = 0 BY <1>7, <1>17, <2>1 DEF Numbered
  <2>2. CASE k # 0
    <3>1. k >= 1 BY <1>2, <2>2
    <3> QED BY <1>2, <1>7, <1>17, <3>1 DEF Numbered
  <2> QED BY <2>1, <2>2
<1>18. ASSUME w = 3
       PROVE  /\ k + 1 < n => e.data = d.data /\ e.toCommit.trackers = WithPart(d.toCommit.trackers, p)
              /\ ~(k + 1 < n) => e.data.id = id /\ e.data.trackers = WithPart(d.toCommit.trackers, p)
  BY <1>10, <1>14, <1>17, <1>18
<1>19. Numbered(w, k + 1, n, id, before, e, u.frame)
  <2>1. k + 1 >= 1 /\ k + 1 # 0 BY <1>2
  <2>2. w = 3 /\ k + 1 < n => e.data.id = before BY <1>17, <1>18
  <2> QED BY <1>13, <1>15, <1>16, <2>1, <2>2 DEF Numbered
<1>20. ASSUME w = 3 PROVE \A j \in 1..k + 1 : \A t \in s.split[j] : t \in Tracker /\ WithPart(d.toCommit.trackers, p)[t] = s.frame
  <2>1. s.split \in Split
    <3>1. <<>> \in Split /\ PsnSplits \subseteq Split BY PsnAssumption DEF Split
    <3> QED BY <1>1, <3>1
  <2> SUFFICES ASSUME NEW j \in 1..k + 1, NEW t \in s.split[j]
               PROVE  t \in Tracker /\ WithPart(d.toCommit.trackers, p)[t] = s.frame
    OBVIOUS
  <2>2. j \in 1..n /\ n = Len(s.split) BY <1>2 DEF n
  <2>3. t \in Tracker BY <2>1, <2>2 DEF Split
  <2>4. CASE j = k + 1
    <3>1. t \in p.trackers BY <1>6, <2>4
    <3> QED BY <2>3, <3>1 DEF WithPart
  <2>5. CASE j # k + 1
    <3>1. j \in 1..k BY <1>2, <2>5
    <3>2. d.toCommit.trackers[t] = s.frame BY <1>2, <1>7, <1>20, <3>1 DEF Filled
    <3> QED BY <2>3, <3>2 DEF WithPart
  <2> QED BY <2>4, <2>5
<1>21. Filled(w, k + 1, n, r, e.toCommit.trackers, u.shown)
  <2> SUFFICES ASSUME w = 3
               PROVE  /\ k + 1 < n => \A j \in 1..k + 1 : \A t \in s.split[j] : e.toCommit.trackers[t] = s.frame
                      /\ k + 1 = n => \A j \in 1..k + 1 : \A t \in s.split[j] : u.shown[t] = s.frame
    BY <1>3 DEF Filled
  <2>1. CASE k + 1 < n
    <3>1. k + 1 # n BY <1>1, <1>2, <2>1 DEF n
    <3> QED BY <1>18, <1>20, <2>1, <3>1
  <2>2. CASE ~(k + 1 < n)
    <3>1. e.data.id = id /\ e.data.trackers = WithPart(d.toCommit.trackers, p) BY <1>18, <2>2
    <3>2. st.frame # e.data.id BY <1>5, <1>17, <3>1
    <3>3. s.frame # 0 BY <1>1
    <3>4. \A j \in 1..k + 1 : \A t \in s.split[j] : u.shown[t] = s.frame BY <1>13, <1>20, <3>1, <3>2, <3>3
    <3> QED BY <2>2, <3>4
  <2> QED BY <2>1, <2>2
<1>22. w >= 1 => Len(r.split) >= 1 /\ r.frame >= 1 BY <1>1, <1>3 DEF n
<1>23. Len(r.split) = n BY <1>3 DEF n
<1>24. WholeFrame(w, r, u) BY <1>4, <1>13, <1>19, <1>21, <1>22, <1>23 DEF WholeFrame
<1> QED BY <1>24 DEF r, u

-----------------------------------------------------------------------------
(* Init and the actions.                                                   *)

LEMMA PsnStarts == PsnInit => PsnInv
<1> SUFFICES ASSUME PsnInit PROVE PsnInv OBVIOUS
<1>0. MaxPsnFrames \in Nat /\ MaxPsnFaults \in Nat /\ PsnIds \in Nat \ {0, 1} BY PsnAssumption
<1> DEFINE header == [id |-> 0, packets |-> 0, trackers |-> NoTracker]
<1>1. /\ psnSent = [frame |-> 0, split |-> <<>>, left |-> <<>>]
      /\ psnDecoder = [count |-> 0, data |-> header, toCommit |-> header]
      /\ psnFrame = PsnIds /\ psnShown = NoTracker /\ psnHistory = [faults |-> 0, whole |-> 0]
  BY DEF PsnInit, NoFrame
<1>2. NoTracker \in Shown BY NoTrackerIsShown
<1>3. header \in PsnHeader /\ header.trackers = NoTracker BY <1>0, <1>2 DEF PsnHeader
<1> HIDE DEF header
<1>4. psnDecoder \in Decoder /\ psnDecoder.count = 0 /\ psnDecoder.toCommit = header BY <1>1, <1>3 DEF Decoder
<1>5. PsnState \in Reception
  <2>1. PsnIds \in 0..PsnIds BY <1>0
  <2> QED BY <1>1, <1>2, <1>4, <2>1 DEF PsnState, Reception
<1>6. Amid(psnDecoder) BY <1>3, <1>4 DEF Amid
<1>7. SentRight(psnSent)
  <2>1. Len(<<>>) = 0 /\ <<>> \in Split BY DEF Split
  <2> QED BY <1>0, <1>1, <2>1 DEF SentRight
<1>8. psnHistory \in [faults: 0..MaxPsnFaults, whole: 0..3] /\ psnHistory.whole = 0 BY <1>0, <1>1
<1>9. WholeFrame(0, psnSent, PsnState) BY DEF WholeFrame, Numbered, Filled
<1> QED BY <1>5, <1>6, <1>7, <1>8, <1>9 DEF PsnInv

\* Another frame begins: the one before, if it came whole, counts.
LEMMA EncodeStays == ASSUME NEW split \in PsnSplits PROVE PsnInv /\ EncodeData(split) => PsnInv'
<1> SUFFICES ASSUME PsnInv, EncodeData(split) PROVE PsnInv' OBVIOUS
<1>0. MaxPsnFrames \in Nat /\ MaxPsnFaults \in Nat /\ <<>> \notin PsnSplits /\ PsnSplits \subseteq Split BY PsnAssumption
<1> DEFINE s == psnSent
           h == psnHistory
           w == h.whole
           r == [frame |-> s.frame + 1, split |-> split, left |-> split]
           d == psnDecoder
           n == Len(s.split)
           m == Len(split)
<1>1. /\ PsnState \in Reception /\ Amid(d) /\ SentRight(s) /\ h \in [faults: 0..MaxPsnFaults, whole: 0..3]
      /\ WholeFrame(w, s, PsnState)
  BY DEF PsnInv
<1>2. /\ s.left = <<>> /\ s.frame < MaxPsnFrames /\ psnSent' = r
      /\ psnHistory' = [h EXCEPT !.whole = IF w < 3 THEN w + 1 ELSE w]
      /\ UNCHANGED <<psnDecoder, psnFrame, psnShown>>
  BY DEF EncodeData
<1>3. s \in [frame: 0..MaxPsnFrames, split: PsnSplits \cup {<<>>}, left: Split] BY <1>1 DEF SentRight
<1>4. m \in Nat /\ m >= 1 /\ split \in Split
  <2>1. split \in Seq(SUBSET Tracker) /\ split # <<>> BY <1>0 DEF Split
  <2> QED BY <2>1 DEF Split
<1>5. r.frame = s.frame + 1 /\ r.split = split /\ r.left = split OBVIOUS
<1>6. r \in [frame: 0..MaxPsnFrames, split: PsnSplits \cup {<<>>}, left: Split] /\ r.frame \in Nat \ {0}
      /\ (s.frame + 1) - 1 = s.frame
  BY <1>0, <1>2, <1>3, <1>4
<1>7. Gone(r) = 0 /\ IdBefore(r) = FrameId(s) BY <1>4, <1>6 DEF Gone, IdBefore, FrameId
<1> HIDE DEF r
<1>8. SentRight(r)
  <2>1. \A i \in 1..m : split[i] = split[0 + i] BY <1>4
  <2> QED BY <1>4, <1>5, <1>6, <1>7, <2>1 DEF SentRight
<1>9. n \in Nat /\ Gone(s) = n
  <2>1. s.split \in Split
    <3>1. <<>> \in Split BY DEF Split
    <3> QED BY <1>0, <1>3, <3>1
  <2>2. n \in Nat /\ Len(s.left) = 0 BY <1>2, <2>1 DEF Split
  <2> HIDE DEF n
  <2> QED BY <2>2 DEF Gone, n
<1>10. psnHistory' \in [faults: 0..MaxPsnFaults, whole: 0..3]
       /\ psnHistory'.whole = IF w < 3 THEN w + 1 ELSE w
  BY <1>1, <1>2
<1> DEFINE v == IF w < 3 THEN w + 1 ELSE w
<1>11. v \in 1..3 /\ (v >= 2 => w >= 1) /\ (v = 3 => w >= 2) BY <1>1
<1>12. /\ PsnState.decoder = d /\ PsnState.frame = psnFrame
       /\ w >= 1 => n >= 1
       /\ Numbered(w, n, n, FrameId(s), IdBefore(s), d, psnFrame)
  <2>1. PsnState.decoder = d /\ PsnState.frame = psnFrame BY DEF PsnState
  <2> QED BY <1>1, <1>9, <2>1 DEF WholeFrame
<1> HIDE DEF w, n, d
<1>13. w \in 0..3 BY <1>1 DEF w
<1> HIDE DEF v
<1>14. Numbered(v, 0, m, FrameId(r), IdBefore(r), d, psnFrame)
  <2> DEFINE id == FrameId(s)
  <2>1. w >= 1 => psnFrame = d.data.id /\ d.toCommit.id = id /\ (d.count = 0 => d.data.id = id)
    BY <1>9, <1>12, <1>13 DEF Numbered
  <2>2. w >= 2 => d.count = 0 /\ d.data.id = id
    <3>1. w >= 2 => w >= 1 /\ ~(n < n) BY <1>9, <1>13
    <3>2. w >= 2 /\ n >= 1 => d.count = IF n < n THEN n ELSE 0 BY <1>12 DEF Numbered
    <3> QED BY <1>12, <2>1, <3>1, <3>2
  <2>3. ~(0 >= 1) OBVIOUS
  <2> HIDE DEF id
  <2>4. IdBefore(r) = id BY <1>7 DEF id
  <2> QED BY <1>11, <2>1, <2>2, <2>3, <2>4 DEF Numbered
<1>15. Filled(v, 0, m, r, d.toCommit.trackers, psnShown)
  <2>1. 0 # m /\ 1..0 = {} BY <1>4
  <2> QED BY <2>1 DEF Filled
<1>16. PsnState' = PsnState BY <1>2 DEF PsnState
<1>17. WholeFrame(v, r, PsnState)
  <2>1. PsnState.shown = psnShown BY DEF PsnState
  <2>2. Len(r.split) >= 1 /\ r.frame >= 1 /\ Len(r.split) = m BY <1>4, <1>5, <1>6
  <2> QED BY <1>7, <1>12, <1>14, <1>15, <2>1, <2>2 DEF WholeFrame
<1>18. psnHistory'.whole = v BY <1>10 DEF v, w
<1>19. Amid(psnDecoder)' BY <1>1, <1>2 DEF Amid, d
<1> QED BY <1>1, <1>2, <1>8, <1>10, <1>16, <1>17, <1>18, <1>19 DEF PsnInv

LEMMA DeliverStays == ASSUME NEW times \in 0..2 PROVE PsnInv /\ Deliver(times) => PsnInv'
<1> SUFFICES ASSUME PsnInv, Deliver(times) PROVE PsnInv' OBVIOUS
<1>0. /\ MaxPsnFrames \in Nat /\ MaxPsnFaults \in Nat /\ <<>> \notin PsnSplits /\ PsnSplits \subseteq Split
      /\ PsnIds \in Nat \ {0, 1}
  BY PsnAssumption
<1> DEFINE s == psnSent
           h == psnHistory
           st == PsnState
           p == NextPacket
           u == ReceiveTimes(st, p, times)
           r == [s EXCEPT !.left = Tail(s.left)]
<1>1. /\ st \in Reception /\ Amid(psnDecoder) /\ SentRight(s) /\ h \in [faults: 0..MaxPsnFaults, whole: 0..3]
      /\ WholeFrame(h.whole, s, st)
  BY DEF PsnInv
<1>2. /\ s.left # <<>> /\ psnSent' = r /\ PsnBecomes(u)
      /\ h.faults + (IF times = 1 THEN 0 ELSE 1) <= MaxPsnFaults
      /\ psnHistory' = IF times = 1 THEN h ELSE [faults |-> h.faults + 1, whole |-> 0]
  BY DEF Deliver
<1>3. s \in [frame: 0..MaxPsnFrames, split: PsnSplits \cup {<<>>}, left: Split] BY <1>1 DEF SentRight
<1>4. s.left \in Seq(SUBSET Tracker) /\ s.split \in Seq(SUBSET Tracker) /\ Len(s.left) <= Len(s.split)
  BY <1>0, <1>1, <1>3 DEF Split, SentRight
<1>5. Len(s.left) \in Nat /\ Len(s.left) >= 1 /\ Len(s.split) \in Nat /\ Len(s.split) >= 1
  BY <1>2, <1>4
<1>6. /\ p \in PsnPacket /\ p.id = FrameId(s) /\ p.packets = Len(s.split) /\ p.trackers = Head(s.left)
      /\ p.value = s.frame
  <2>1. s.frame \in 0..MaxPsnFrames /\ s.frame \in Nat BY <1>0, <1>3
  <2>2. s.frame % PsnIds \in 0..(PsnIds - 1) BY <1>0, <2>1
  <2>3. Head(s.left) \in SUBSET Tracker BY <1>2, <1>4
  <2>4. Len(s.split) \in Nat \ {0} BY <1>5
  <2> QED BY <2>1, <2>2, <2>3, <2>4 DEF NextPacket, PsnPacket, FrameId
<1> HIDE DEF p
<1>7. r \in [frame: 0..MaxPsnFrames, split: PsnSplits \cup {<<>>}, left: Split] /\ SentRight(r)
  <2> DEFINE l == s.left
             t == Tail(l)
  <2>1. t \in Seq(SUBSET Tracker) /\ Len(t) = Len(l) - 1 /\ \A i \in 1..Len(l) - 1 : t[i] = l[i + 1]
    BY <1>2, <1>4
  <2>2. /\ r \in [frame: 0..MaxPsnFrames, split: PsnSplits \cup {<<>>}, left: Split]
        /\ r.left = t /\ r.split = s.split
    BY <1>3, <2>1 DEF Split
  <2>3. Gone(r) = Gone(s) + 1 /\ Len(t) <= Len(s.split) BY <1>4, <1>5, <2>1, <2>2 DEF Gone
  <2>4. Gone(s) \in Nat BY <1>4, <1>5 DEF Gone
  <2>5. \A i \in 1..Len(l) : l[i] = s.split[Gone(s) + i] BY <1>1 DEF SentRight
  <2> HIDE DEF l, t, r
  <2>6. ASSUME NEW i \in 1..Len(t) PROVE t[i] = s.split[Gone(r) + i]
    <3> DEFINE L == Len(l)
    <3>1. L \in Nat /\ L >= 1 /\ Len(t) = L - 1 BY <1>5, <2>1 DEF l
    <3> HIDE DEF L
    <3>2. i \in 1..L - 1 /\ i \in Nat BY <3>1
    <3>3. i + 1 \in 1..L BY <3>1, <3>2
    <3>4. Gone(s) + (i + 1) = Gone(r) + i BY <2>3, <2>4, <3>2
    <3> QED BY <2>1, <2>5, <3>2, <3>3, <3>4 DEF L
  <2> QED BY <2>2, <2>3, <2>6 DEF SentRight
<1>8. u \in Reception /\ Amid(u.decoder)
  <2> DEFINE a == PsnReceived(st, p)
             b == PsnReceived(a, p)
  <2>1. a \in Reception /\ Amid(a.decoder) BY <1>1, <1>6, ReceivedFits
  <2> HIDE DEF a
  <2>2. b \in Reception /\ Amid(b.decoder) BY <1>6, <2>1, ReceivedFits
  <2>3. st.decoder = psnDecoder BY DEF PsnState
  <2> HIDE DEF st, b
  <2>4. u = IF times = 0 THEN st ELSE IF times = 1 THEN a ELSE b BY DEF ReceiveTimes, a, b
  <2> QED BY <1>1, <2>1, <2>2, <2>3, <2>4
<1> HIDE DEF u
<1>9. PsnState' = u
  <2>1. PsnState' = [decoder |-> u.decoder, frame |-> u.frame, shown |-> u.shown]
    BY <1>2 DEF PsnBecomes, PsnState
  <2> QED BY <1>8, <2>1 DEF Reception
<1>10. psnHistory' \in [faults: 0..MaxPsnFaults, whole: 0..3]
       /\ psnHistory'.whole = IF times = 1 THEN h.whole ELSE 0
  BY <1>0, <1>1, <1>2
<1>11. WholeFrame(psnHistory'.whole, r, u)
  <2>1. CASE times = 1 /\ h.whole >= 1
    <3>1. u = PsnReceived(st, p) BY <2>1 DEF ReceiveTimes, u
    <3>2. h.whole \in 1..3 BY <1>1, <2>1
    <3>3. WholeFrame(h.whole, r, PsnReceived(st, p))
      <4> HIDE DEF st, s
      <4> QED BY <1>1, <1>2, <1>6, <3>2, WholeGoesOn
    <3> QED BY <1>10, <2>1, <3>1, <3>3
  <2>2. CASE ~(times = 1 /\ h.whole >= 1)
    <3>1. psnHistory'.whole = 0 BY <1>1, <1>10, <2>2
    <3>2. WholeFrame(0, r, u) BY DEF WholeFrame, Numbered, Filled
    <3> QED BY <3>1, <3>2
  <2> QED BY <2>1, <2>2
<1>12. Amid(psnDecoder)'
  <2>1. psnDecoder' = u.decoder BY <1>2 DEF PsnBecomes
  <2> QED BY <1>8, <2>1 DEF Amid
<1> QED BY <1>2, <1>7, <1>8, <1>9, <1>10, <1>11, <1>12 DEF PsnInv

LEMMA DeliverInfoStays == PsnInv /\ DeliverInfo => PsnInv'
<1> SUFFICES ASSUME PsnInv, DeliverInfo PROVE PsnInv' OBVIOUS
<1> DEFINE st == PsnState
           u == Receive(st, psnDecoder)
           w == psnHistory.whole
           d == psnDecoder
           n == Len(psnSent.split)
           k == Gone(psnSent)
<1>1. /\ st \in Reception /\ Amid(psnDecoder) /\ SentRight(psnSent)
      /\ psnHistory \in [faults: 0..MaxPsnFaults, whole: 0..3] /\ WholeFrame(w, psnSent, st)
  BY DEF PsnInv
<1>2. PsnBecomes(u) /\ UNCHANGED <<psnSent, psnHistory>> BY DEF DeliverInfo
<1>3. st.decoder = d /\ d \in Decoder /\ st.frame = psnFrame /\ st.shown = psnShown
  <2>1. st.decoder = d /\ st.frame = psnFrame /\ st.shown = psnShown BY DEF PsnState
  <2> QED BY <1>1, <2>1 DEF Reception
<1>4. /\ u \in Reception /\ u.decoder = d /\ u.frame = d.data.id
      /\ psnFrame = d.data.id => u.shown = psnShown
  <2> HIDE DEF st
  <2> QED BY <1>1, <1>3, ReceiveIs
<1> HIDE DEF u, st
<1>5. PsnState' = u /\ psnDecoder' = d
  <2>1. PsnState' = [decoder |-> u.decoder, frame |-> u.frame, shown |-> u.shown] /\ psnDecoder' = u.decoder
    BY <1>2 DEF PsnBecomes, PsnState
  <2> QED BY <1>4, <2>1 DEF Reception
<1>6. k \in Nat
  <2>1. psnSent.split \in Split /\ psnSent.left \in Split /\ Len(psnSent.left) <= Len(psnSent.split)
    <3>1. psnSent \in [frame: 0..MaxPsnFrames, split: PsnSplits \cup {<<>>}, left: Split]
          /\ Len(psnSent.left) <= Len(psnSent.split)
      BY <1>1 DEF SentRight
    <3>2. PsnSplits \subseteq Split /\ <<>> \in Split BY PsnAssumption DEF Split
    <3> QED BY <3>1, <3>2
  <2>2. Len(psnSent.left) \in Nat /\ Len(psnSent.split) \in Nat BY <2>1 DEF Split
  <2> QED BY <2>1, <2>2 DEF Gone
<1>7. /\ w >= 1 => Len(psnSent.split) >= 1 /\ psnSent.frame >= 1
      /\ Numbered(w, k, n, FrameId(psnSent), IdBefore(psnSent), d, psnFrame)
      /\ Filled(w, k, n, psnSent, d.toCommit.trackers, psnShown)
  BY <1>1, <1>3 DEF WholeFrame
<1> HIDE DEF k, n, d, w
<1>8. w = 3 => psnFrame = d.data.id
  <2>1. k = 0 \/ k >= 1 BY <1>6
  <2> QED BY <1>7, <2>1 DEF Numbered
<1>9. Numbered(w, k, n, FrameId(psnSent), IdBefore(psnSent), d, u.frame) BY <1>4, <1>7 DEF Numbered
<1>10. Filled(w, k, n, psnSent, d.toCommit.trackers, u.shown) BY <1>4, <1>7, <1>8 DEF Filled
<1>11. WholeFrame(w, psnSent, u) BY <1>4, <1>7, <1>9, <1>10 DEF WholeFrame, k, n
<1>12. psnSent' = psnSent /\ psnHistory' = psnHistory BY <1>2
<1>13. WholeFrame(psnHistory'.whole, psnSent', PsnState') BY <1>5, <1>11, <1>12 DEF w
<1>14. Amid(psnDecoder') BY <1>1, <1>5 DEF d
<1> QED BY <1>1, <1>4, <1>5, <1>12, <1>13, <1>14 DEF PsnInv

LEMMA PsnStays == PsnInv /\ [PsnNext]_psnVars => PsnInv'
<1> SUFFICES ASSUME PsnInv, [PsnNext]_psnVars PROVE PsnInv' OBVIOUS
<1>1. ASSUME NEW split \in PsnSplits, EncodeData(split) PROVE PsnInv' BY <1>1, EncodeStays
<1>2. ASSUME NEW times \in 0..2, Deliver(times) PROVE PsnInv' BY <1>2, DeliverStays
<1>3. CASE DeliverInfo BY <1>3, DeliverInfoStays
<1>4. CASE UNCHANGED psnVars
  <2>1. UNCHANGED <<psnSent, psnHistory, psnDecoder, PsnState>> BY <1>4 DEF psnVars, PsnState
  <2> QED BY <2>1 DEF PsnInv, Amid
<1> QED BY <1>1, <1>2, <1>3, <1>4 DEF PsnNext

LEMMA PsnKept == PsnSpec => []PsnInv
  BY PsnStarts, PsnStays, PTL DEF PsnSpec

\* The variables of PSN keep their types, and the decoder never has all packets of a frame in
\* hand (psn_decoder, EosUdpInThread).
THEOREM PsnTypes == PsnSpec => []PsnTypeOK
<1>1. PsnInv => PsnTypeOK
  <2> SUFFICES ASSUME PsnInv PROVE PsnTypeOK OBVIOUS
  <2>1. PsnState.decoder = psnDecoder /\ PsnState.frame = psnFrame /\ PsnState.shown = psnShown BY DEF PsnState
  <2>2. psnDecoder \in Decoder /\ psnFrame \in 0..PsnIds /\ psnShown \in Shown BY <2>1 DEF PsnInv, Reception
  <2> QED BY <2>2 DEF PsnInv, PsnTypeOK, Decoder, NoFrame, SentRight, Amid
<1> QED BY <1>1, PsnKept, PTL

\* A lost or doubled packet costs two whole frames at most: of the third in a row every tracker
\* is shown, however the frames are split, wherever the fault was, and whatever the range of the
\* frame ids (decode_data_header, decode_data, RecvPacketPSN).
THEOREM ThirdFrameIsShown == PsnSpec => []ThirdFrameShown
<1>1. PsnInv => ThirdFrameShown
  <2> SUFFICES ASSUME PsnInv, psnHistory.whole = 3, psnSent.left = <<>>,
                      NEW i \in DOMAIN psnSent.split, NEW t \in psnSent.split[i]
               PROVE  psnShown[t] = psnSent.frame
    BY DEF ThirdFrameShown
  <2> DEFINE n == Len(psnSent.split)
  <2>1. n \in Nat /\ i \in 1..n
    <3>1. psnSent.split \in Split
      <4>1. psnSent.split \in PsnSplits \cup {<<>>} BY DEF PsnInv, SentRight
      <4>2. PsnSplits \subseteq Split /\ <<>> \in Split BY PsnAssumption DEF Split
      <4> QED BY <4>1, <4>2
    <3> QED BY <3>1 DEF Split
  <2>2. Gone(psnSent) = n
    <3>1. Len(psnSent.left) = 0 OBVIOUS
    <3> HIDE DEF n
    <3> QED BY <2>1, <3>1 DEF Gone, n
  <2>3. Filled(3, n, n, psnSent, psnDecoder.toCommit.trackers, psnShown)
    <3>1. PsnState.decoder = psnDecoder /\ PsnState.shown = psnShown BY DEF PsnState
    <3> QED BY <2>2, <3>1 DEF PsnInv, WholeFrame
  <2> QED BY <2>1, <2>3 DEF Filled
<1> QED BY <1>1, PsnKept, PTL

-----------------------------------------------------------------------------
(* MIDI output: the pieces of a message on their way to the system.        *)

OutPiece == [n: 1..MaxOut, from: Nat, to: Nat]

\* Pieces of a message of number n, the last of them all, up to byte k.
EndsWith(s, n, k) == ReachesIn(n, k, s) /\ s[Len(s)].n = n
Without(s, n) == \A i \in DOMAIN s : s[i].n # n

\* In order, of messages up to n, and of that no byte behind k.
Sequential(s) ==
  \A i, j \in DOMAIN s :
    i < j => s[i].n < s[j].n \/ (s[i].n = s[j].n /\ s[i].to <= s[j].from)
NoneBehind(s, n, k) == \A i \in DOMAIN s : s[i].n < n \/ (s[i].n = n /\ s[i].to <= k)

\* Another piece.
LEMMA PieceAdded ==
  ASSUME NEW s \in Seq(OutPiece), NEW p \in OutPiece
  PROVE  /\ Append(s, p) \in Seq(OutPiece) /\ Len(Append(s, p)) = Len(s) + 1 /\ Len(s) \in Nat
         /\ DOMAIN Append(s, p) = 1..Len(s) + 1 /\ DOMAIN s = 1..Len(s)
         /\ Append(s, p)[Len(s) + 1] = p
         /\ \A i \in 1..Len(s) : Append(s, p)[i] = s[i] /\ s[i] \in OutPiece
  OBVIOUS

LEMMA OthersReachStill ==
  ASSUME NEW s \in Seq(OutPiece), NEW p \in OutPiece, NEW n, NEW k, n # p.n, ReachesIn(n, k, s)
  PROVE  ReachesIn(n, k, Append(s, p))
<1> DEFINE t == Append(s, p)
<1>1. PICK first, last \in DOMAIN s :
        /\ first <= last /\ s[first].from = 0 /\ s[last].to = k
        /\ \A i \in DOMAIN s : s[i].n = n <=> i \in first..last
        /\ \A i \in first..(last - 1) : s[i].to = s[i + 1].from
  BY DEF ReachesIn
<1>2. first \in DOMAIN t /\ last \in DOMAIN t /\ t[first] = s[first] /\ t[last] = s[last] BY <1>1, PieceAdded
<1>3. ASSUME NEW i \in DOMAIN t PROVE t[i].n = n <=> i \in first..last
  <2>1. CASE i \in DOMAIN s BY <1>1, <2>1, PieceAdded
  <2>2. CASE i \notin DOMAIN s
    <3>1. i = Len(s) + 1 /\ i \notin first..last BY <1>1, <2>2, PieceAdded
    <3> QED BY <3>1, PieceAdded
  <2> QED BY <2>1, <2>2
<1>4. ASSUME NEW i \in first..(last - 1) PROVE t[i].to = t[i + 1].from
  <2>1. i \in 1..Len(s) /\ i + 1 \in 1..Len(s) BY <1>1, PieceAdded
  <2> QED BY <1>1, <2>1, PieceAdded
<1> HIDE DEF t
<1>5. ReachesIn(n, k, t) BY <1>1, <1>2, <1>3, <1>4 DEF ReachesIn
<1> QED BY <1>5 DEF t

\* The first piece of a message, and one that goes on from where the last has ended.
LEMMA FirstReaches ==
  ASSUME NEW s \in Seq(OutPiece), NEW p \in OutPiece, Without(s, p.n), p.from = 0
  PROVE  EndsWith(Append(s, p), p.n, p.to)
<1> DEFINE t == Append(s, p)
           e == Len(s) + 1
<1>1. /\ e \in DOMAIN t /\ t[e] = p /\ Len(t) = e /\ e \in Nat BY PieceAdded
<1>2. ASSUME NEW i \in DOMAIN t PROVE t[i].n = p.n <=> i \in e..e
  <2>1. CASE i \in DOMAIN s
    <3>1. s[i].n # p.n /\ t[i] = s[i] /\ i \in 1..Len(s) BY <2>1, PieceAdded DEF Without
    <3> QED BY <3>1, <1>1
  <2>2. CASE i \notin DOMAIN s
    <3>1. i = e BY <2>2, PieceAdded
    <3> QED BY <3>1, <1>1
  <2> QED BY <2>1, <2>2
<1>3. \A i \in e..(e - 1) : FALSE BY <1>1
<1> HIDE DEF t, e
<1>4. e <= e BY <1>1
<1>5. ReachesIn(p.n, p.to, t) BY <1>1, <1>2, <1>3, <1>4 DEF ReachesIn
<1> QED BY <1>1, <1>5 DEF EndsWith, t

LEMMA NextReaches ==
  ASSUME NEW s \in Seq(OutPiece), NEW p \in OutPiece, EndsWith(s, p.n, p.from)
  PROVE  EndsWith(Append(s, p), p.n, p.to)
<1> DEFINE t == Append(s, p)
           e == Len(s) + 1
<1>0. /\ e \in DOMAIN t /\ t[e] = p /\ Len(t) = e /\ e \in Nat BY PieceAdded
<1>1. PICK first, last \in DOMAIN s :
        /\ first <= last /\ s[first].from = 0 /\ s[last].to = p.from
        /\ \A i \in DOMAIN s : s[i].n = p.n <=> i \in first..last
        /\ \A i \in first..(last - 1) : s[i].to = s[i + 1].from
  BY DEF EndsWith, ReachesIn
<1>2. last = Len(s) /\ first \in 1..Len(s) /\ Len(s) \in Nat
  <2>1. s[Len(s)].n = p.n BY DEF EndsWith
  <2>2. Len(s) \in DOMAIN s BY <1>1, PieceAdded
  <2>3. Len(s) \in first..last BY <1>1, <2>1, <2>2
  <2> QED BY <1>1, <2>3, PieceAdded
<1>3. first \in DOMAIN t /\ t[first] = s[first] /\ first <= e BY <1>2, PieceAdded
<1>4. ASSUME NEW i \in DOMAIN t PROVE t[i].n = p.n <=> i \in first..e
  <2>1. CASE i \in DOMAIN s
    <3>1. t[i] = s[i] /\ i \in 1..Len(s) BY <2>1, PieceAdded
    <3>2. i \in first..last <=> i \in first..e BY <3>1, <1>2
    <3> QED BY <3>1, <3>2, <1>1, <2>1
  <2>2. CASE i \notin DOMAIN s
    <3>1. i = e BY <2>2, PieceAdded
    <3> QED BY <3>1, <1>0, <1>2
  <2> QED BY <2>1, <2>2
<1>5. ASSUME NEW i \in first..(e - 1) PROVE t[i].to = t[i + 1].from
  <2>1. CASE i = Len(s) BY <2>1, <1>0, <1>1, <1>2, PieceAdded
  <2>2. CASE i # Len(s)
    <3>1. i \in first..(last - 1) /\ i \in 1..Len(s) /\ i + 1 \in 1..Len(s) BY <2>2, <1>2
    <3> QED BY <3>1, <1>1, PieceAdded
  <2> QED BY <2>1, <2>2
<1> HIDE DEF t, e
<1>6. ReachesIn(p.n, p.to, t) BY <1>0, <1>1, <1>3, <1>4, <1>5 DEF ReachesIn
<1> QED BY <1>0, <1>6 DEF EndsWith, t

LEMMA StaysSequential ==
  ASSUME NEW s \in Seq(OutPiece), NEW p \in OutPiece, Sequential(s), NoneBehind(s, p.n, p.from), NEW k \in Nat,
         p.to <= k, p.from <= k
  PROVE  Sequential(Append(s, p)) /\ NoneBehind(Append(s, p), p.n, k)
<1> DEFINE t == Append(s, p)
<1>1. ASSUME NEW i \in DOMAIN t, NEW j \in DOMAIN t, i < j
      PROVE  t[i].n < t[j].n \/ (t[i].n = t[j].n /\ t[i].to <= t[j].from)
  <2>1. i \in 1..Len(s) /\ t[i] = s[i] BY <1>1, PieceAdded
  <2>2. CASE j \in 1..Len(s)
    <3>1. t[j] = s[j] BY <2>2, PieceAdded
    <3> QED BY <2>1, <2>2, <3>1, <1>1, PieceAdded DEF Sequential
  <2>3. CASE j \notin 1..Len(s)
    <3>1. t[j] = p BY <2>3, PieceAdded
    <3> QED BY <2>1, <3>1, PieceAdded DEF NoneBehind
  <2> QED BY <2>2, <2>3
<1>2. ASSUME NEW i \in DOMAIN t PROVE t[i].n < p.n \/ (t[i].n = p.n /\ t[i].to <= k)
  <2>1. CASE i \in 1..Len(s)
    <3>1. t[i] = s[i] /\ s[i] \in OutPiece /\ i \in DOMAIN s BY <2>1, PieceAdded
    <3>2. s[i].n < p.n \/ (s[i].n = p.n /\ s[i].to <= p.from) BY <3>1 DEF NoneBehind
    <3> QED BY <3>1, <3>2 DEF OutPiece
  <2>2. CASE i \notin 1..Len(s)
    <3>1. t[i] = p BY <2>2, PieceAdded
    <3> QED BY <3>1
  <2> QED BY <2>1, <2>2
<1> HIDE DEF t
<1>3. Sequential(t) /\ NoneBehind(t, p.n, k) BY <1>1, <1>2 DEF Sequential, NoneBehind
<1> QED BY <1>3 DEF t

-----------------------------------------------------------------------------
\* One piece is taken out, behind the first m.
LEMMA PieceTaken ==
  ASSUME NEW a \in Seq(OutPiece), NEW b \in Seq(OutPiece), b # <<>>
  PROVE  LET s == a \o b  t == a \o Tail(b)
         IN  /\ Head(b) \in OutPiece /\ Tail(b) \in Seq(OutPiece)
             /\ s \in Seq(OutPiece) /\ t \in Seq(OutPiece) /\ Len(s) = Len(t) + 1 /\ Len(a) <= Len(t)
             /\ Len(a) \in Nat /\ Len(t) \in Nat
             /\ DOMAIN s = 1..Len(t) + 1 /\ DOMAIN t = 1..Len(t)
             /\ s[Len(a) + 1] = Head(b)
             /\ \A i \in 1..Len(t) : t[i] = IF i <= Len(a) THEN s[i] ELSE s[i + 1]
             /\ Append(a, Head(b)) \o Tail(b) = s
<1> DEFINE s == a \o b
           t == a \o Tail(b)
<1>1. Head(b) \in OutPiece /\ Tail(b) \in Seq(OutPiece) /\ Len(Tail(b)) = Len(b) - 1 /\ Head(b) = b[1]
      /\ Len(b) \in Nat \ {0} /\ Len(a) \in Nat
  OBVIOUS
<1>2. s \in Seq(OutPiece) /\ t \in Seq(OutPiece) /\ Len(s) = Len(a) + Len(b) /\ Len(t) = Len(a) + Len(b) - 1
  BY <1>1
<1>3. s[Len(a) + 1] = Head(b) BY <1>1
<1>4. ASSUME NEW i \in 1..Len(t) PROVE t[i] = IF i <= Len(a) THEN s[i] ELSE s[i + 1]
  <2>1. CASE i <= Len(a) BY <1>1, <1>2, <2>1
  <2>2. CASE i > Len(a)
    <3>1. i - Len(a) \in 1..Len(Tail(b)) /\ i + 1 - Len(a) \in 1..Len(b) /\ (i - Len(a)) + 1 = i + 1 - Len(a)
      BY <1>1, <1>2, <2>2
    <3>2. t[i] = Tail(b)[i - Len(a)] BY <1>1, <1>2, <2>2, <3>1
    <3>3. s[i + 1] = b[i + 1 - Len(a)] BY <1>1, <1>2, <2>2, <3>1
    <3>4. Tail(b)[i - Len(a)] = b[(i - Len(a)) + 1] BY <1>1, <3>1
    <3> QED BY <2>2, <3>1, <3>2, <3>3, <3>4, <1>1
  <2> QED BY <2>1, <2>2, <1>1
<1>5. Append(a, Head(b)) \o Tail(b) = s
  <2> DEFINE u == Append(a, Head(b)) \o Tail(b)
  <2>1. Append(a, Head(b)) \in Seq(OutPiece) /\ Len(Append(a, Head(b))) = Len(a) + 1 BY <1>1
  <2>2. u \in Seq(OutPiece) /\ Len(u) = Len(s) BY <1>1, <1>2, <2>1
  <2>3. ASSUME NEW i \in 1..Len(s) PROVE u[i] = s[i]
    <3>1. CASE i <= Len(a) BY <1>1, <1>2, <2>1, <3>1
    <3>2. CASE i = Len(a) + 1 BY <1>1, <1>2, <1>3, <2>1, <3>2
    <3>3. CASE i > Len(a) + 1
      <4>1. i - 1 - Len(a) \in 1..Len(Tail(b)) /\ i - Len(a) \in 1..Len(b) /\ (i - 1 - Len(a)) + 1 = i - Len(a)
        BY <1>1, <1>2, <3>3
      <4>2. u[i] = Tail(b)[i - (Len(a) + 1)] BY <1>1, <1>2, <2>1, <3>3
      <4>3. s[i] = b[i - Len(a)] BY <1>1, <1>2, <3>3
      <4>4. Tail(b)[i - 1 - Len(a)] = b[(i - 1 - Len(a)) + 1] BY <1>1, <4>1
      <4>5. i - (Len(a) + 1) = i - 1 - Len(a) BY <1>1
      <4> QED BY <4>1, <4>2, <4>3, <4>4, <4>5
    <3> QED BY <1>1, <3>1, <3>2, <3>3
  <2> HIDE DEF u, s
  <2>4. u = s BY <1>2, <2>2, <2>3, SeqEqual
  <2> QED BY <2>4 DEF u
<1>6. /\ Len(s) = Len(t) + 1 /\ Len(a) <= Len(t) /\ Len(t) \in Nat
      /\ DOMAIN s = 1..Len(t) + 1 /\ DOMAIN t = 1..Len(t)
  BY <1>1, <1>2
<1>7. /\ Head(b) \in OutPiece /\ Tail(b) \in Seq(OutPiece) /\ Len(a) \in Nat BY <1>1
<1> HIDE DEF s, t
<1>8. /\ Head(b) \in OutPiece /\ Tail(b) \in Seq(OutPiece)
      /\ s \in Seq(OutPiece) /\ t \in Seq(OutPiece) /\ Len(s) = Len(t) + 1 /\ Len(a) <= Len(t)
      /\ Len(a) \in Nat /\ Len(t) \in Nat
      /\ DOMAIN s = 1..Len(t) + 1 /\ DOMAIN t = 1..Len(t)
      /\ s[Len(a) + 1] = Head(b)
      /\ \A i \in 1..Len(t) : t[i] = IF i <= Len(a) THEN s[i] ELSE s[i + 1]
      /\ Append(a, Head(b)) \o Tail(b) = s
  BY <1>2, <1>3, <1>4, <1>5, <1>6, <1>7
<1> QED BY <1>8 DEF s, t

LEMMA OthersReachWithout ==
  ASSUME NEW a \in Seq(OutPiece), NEW b \in Seq(OutPiece), b # <<>>, NEW n, NEW k, n # Head(b).n,
         ReachesIn(n, k, a \o b)
  PROVE  ReachesIn(n, k, a \o Tail(b))
<1> DEFINE s == a \o b
           t == a \o Tail(b)
           m == Len(a) + 1
           At(i) == IF i < m THEN i ELSE i - 1
<1>0. /\ m \in Nat \ {0} /\ Len(t) \in Nat /\ m <= Len(t) + 1 /\ s[m] = Head(b)
      /\ DOMAIN s = 1..Len(t) + 1 /\ DOMAIN t = 1..Len(t)
      /\ \A i \in 1..Len(t) : t[i] = IF i < m THEN s[i] ELSE s[i + 1]
  <2>1. \A i \in 1..Len(t) : i <= Len(a) <=> i < m BY PieceTaken
  <2> QED BY <2>1, PieceTaken
<1>1. PICK first, last \in DOMAIN s :
        /\ first <= last /\ s[first].from = 0 /\ s[last].to = k
        /\ \A i \in DOMAIN s : s[i].n = n <=> i \in first..last
        /\ \A i \in first..(last - 1) : s[i].to = s[i + 1].from
  BY DEF ReachesIn
<1> HIDE DEF s, t, m
<1>2. m \notin first..last /\ m \in DOMAIN s BY <1>0, <1>1
<1>3. first < m <=> last < m BY <1>0, <1>1, <1>2
<1>4. \A i \in 1..Len(t) + 1 : i # m => At(i) \in 1..Len(t) /\ t[At(i)] = s[i]
  <2> SUFFICES ASSUME NEW i \in 1..Len(t) + 1, i # m PROVE At(i) \in 1..Len(t) /\ t[At(i)] = s[i] OBVIOUS
  <2>1. CASE i < m BY <1>0, <2>1
  <2>2. CASE i > m
    <3>1. i - 1 \in 1..Len(t) /\ ~(i - 1 < m) /\ (i - 1) + 1 = i BY <1>0, <2>2
    <3> QED BY <1>0, <2>2, <3>1
  <2> QED BY <1>0, <2>1, <2>2
<1>5. /\ At(first) \in DOMAIN t /\ At(last) \in DOMAIN t /\ At(first) <= At(last)
      /\ t[At(first)].from = 0 /\ t[At(last)].to = k
  BY <1>0, <1>1, <1>2, <1>3, <1>4
<1>6. ASSUME NEW i \in DOMAIN t PROVE t[i].n = n <=> i \in At(first)..At(last)
  <2>1. CASE i < m
    <3>1. t[i] = s[i] /\ i \in DOMAIN s BY <1>0, <2>1
    <3>2. i \in first..last <=> i \in At(first)..At(last) BY <1>0, <1>1, <1>2, <1>3, <2>1
    <3> QED BY <1>1, <3>1, <3>2
  <2>2. CASE i >= m
    <3>1. t[i] = s[i + 1] /\ i + 1 \in DOMAIN s BY <1>0, <2>2
    <3>2. i + 1 \in first..last <=> i \in At(first)..At(last) BY <1>0, <1>1, <1>2, <1>3, <2>2
    <3> QED BY <1>1, <3>1, <3>2
  <2> QED BY <1>0, <2>1, <2>2
<1>7. ASSUME NEW i \in At(first)..(At(last) - 1) PROVE t[i].to = t[i + 1].from
  <2>1. CASE last < m
    <3>1. i \in first..(last - 1) /\ i < m /\ i + 1 < m /\ i \in 1..Len(t) /\ i + 1 \in 1..Len(t) BY <1>0, <1>1, <1>3, <2>1
    <3> QED BY <1>0, <1>1, <3>1
  <2>2. CASE ~(last < m)
    <3>1. /\ i + 1 \in first..(last - 1) /\ ~(i < m) /\ ~(i + 1 < m) /\ i \in 1..Len(t) /\ i + 1 \in 1..Len(t)
      BY <1>0, <1>1, <1>2, <1>3, <2>2
    <3>2. t[i] = s[i + 1] /\ t[i + 1] = s[(i + 1) + 1] BY <1>0, <3>1
    <3> QED BY <1>1, <3>1, <3>2
  <2> QED BY <2>1, <2>2
<1>8. ReachesIn(n, k, t)
  <2> DEFINE f == At(first)
             l == At(last)
  <2>1. /\ f \in DOMAIN t /\ l \in DOMAIN t /\ f <= l /\ t[f].from = 0 /\ t[l].to = k
        /\ (\A i \in DOMAIN t : t[i].n = n <=> i \in f..l) /\ \A i \in f..(l - 1) : t[i].to = t[i + 1].from
    BY <1>5, <1>6, <1>7
  <2> HIDE DEF f, l
  <2> QED BY <2>1 DEF ReachesIn
<1> QED BY <1>8 DEF t

LEMMA SequentialWithout ==
  ASSUME NEW a \in Seq(OutPiece), NEW b \in Seq(OutPiece), b # <<>>, NEW n, NEW k,
         Sequential(a \o b), NoneBehind(a \o b, n, k)
  PROVE  /\ Sequential(a \o Tail(b)) /\ NoneBehind(a \o Tail(b), n, k)
         /\ \A j : Without(a \o b, j) => Without(a \o Tail(b), j)
         /\ Head(b).n <= n \/ Head(b).n < n
<1> DEFINE s == a \o b
           t == a \o Tail(b)
           At(i) == IF i <= Len(a) THEN i ELSE i + 1
<1>1. /\ DOMAIN t = 1..Len(t) /\ DOMAIN s = 1..Len(t) + 1 /\ Len(t) \in Nat /\ Len(a) \in Nat /\ Len(a) + 1 \in DOMAIN s
      /\ s[Len(a) + 1] = Head(b)
      /\ \A i \in DOMAIN t : At(i) \in DOMAIN s /\ t[i] = s[At(i)]
      /\ \A i, j \in DOMAIN t : i < j => At(i) < At(j)
  BY PieceTaken
<1> HIDE DEF s, t, At
<1>2. Sequential(s) /\ NoneBehind(s, n, k) BY DEF s
<1>3. Sequential(t) /\ NoneBehind(t, n, k) BY <1>1, <1>2 DEF Sequential, NoneBehind
<1>4. ASSUME NEW j, Without(s, j) PROVE Without(t, j) BY <1>1, <1>4 DEF Without
<1>5. Head(b).n < n \/ Head(b).n = n BY <1>1, <1>2 DEF NoneBehind
<1>6. Head(b).n \in 1..MaxOut BY PieceTaken DEF OutPiece
<1> QED BY <1>3, <1>4, <1>5, <1>6 DEF s, t

-----------------------------------------------------------------------------
(* The invariant.                                                          *)

Pieces == outWire \o outPending
Known(n) == n \in outSaid \cup outSilent

OutTypes ==
  /\ outApi \in OutApis /\ outSent \in Seq(OutMessages) /\ OutNumber <= MaxOut
  /\ outJob \in Nat \cup {OutIdle} /\ outFaults \in Nat
  /\ outCoder \in [bufferSize: Nat, size: Nat]
  /\ outWire \in Seq(OutPiece) /\ outPending \in Seq(OutPiece)
  /\ outSaid \subseteq 1..OutNumber /\ outSilent \subseteq 1..OutNumber /\ outShown \subseteq 1..OutNumber
  /\ outApi \notin {"alsa", "jack"} => outPending = <<>>

\* How far a message under way can be.
Reached ==
  Running => /\ outSent # <<>> /\ outJob \in 0..OutMessage.size
             /\ outApi # "alsa" => outJob < OutMessage.size
             /\ outApi \notin {"core", "alsa"} => outJob = 0

\* The pieces of the message under way are the last ones.
LastOnes ==
  /\ \A i \in DOMAIN Pieces : Pieces[i].n <= OutNumber
  /\ Running => /\ NoneBehind(Pieces, OutNumber, outJob)
                /\ outJob = 0 => Without(Pieces, OutNumber)
                /\ outJob > 0 /\ ~Known(OutNumber) => EndsWith(Pieces, OutNumber, outJob)

OutInv ==
  /\ OutTypes /\ Reached /\ Sequential(Pieces) /\ LastOnes
  /\ SentWholeOrSaid /\ BuiltOnesSpeak /\ AlsaDrained /\ BufferHolds

LEMMA OutInvSuffices == OutInv => OutTypeOK /\ MidiOutSound
<1> SUFFICES ASSUME OutInv PROVE OutTypeOK /\ MidiOutSound OBVIOUS
<1>1. PiecesInOrder BY DEF OutInv, PiecesInOrder, Sequential, Pieces
<1>2. OutTypeOK
  <2>1. Range(outSent) \subseteq OutMessages BY DEF OutInv, OutTypes, Range
  <2>2. Range(outWire) \subseteq OutPiece /\ Range(outPending) \subseteq OutPiece BY DEF OutInv, OutTypes, Range
  <2> QED BY <2>1, <2>2 DEF OutInv, OutTypes, OutTypeOK, Reached, Running, OutPiece
<1> QED BY <1>1, <1>2 DEF OutInv, MidiOutSound

LEMMA MessageFits ==
  ASSUME OutTypes, outSent # <<>>
  PROVE  /\ OutNumber \in 1..MaxOut /\ OutNumber \in DOMAIN outSent /\ OutMessage = outSent[OutNumber]
         /\ OutMessage.size \in Nat \ {0} /\ OutMessage.first \in Nat \ {0}
<1>1. MaxOut \in Nat /\ OutMessages \subseteq [size: Nat \ {0}, first: Nat \ {0}] BY OutAssumption
<1>2. OutNumber \in 1..MaxOut /\ OutNumber \in DOMAIN outSent /\ OutMessage = outSent[OutNumber]
  BY <1>1 DEF OutTypes, OutNumber, OutMessage, Last
<1>3. OutMessage \in OutMessages BY <1>2 DEF OutTypes
<1> QED BY <1>1, <1>2, <1>3

LEMMA PiecesFit ==
  ASSUME OutTypes
  PROVE  Pieces \in Seq(OutPiece) /\ (outPending = <<>> => Pieces = outWire)
  BY DEF OutTypes, Pieces

LEMMA PieceNumbers ==
  ASSUME OutTypes PROVE \A i \in DOMAIN Pieces : Pieces[i].n \in Nat /\ Pieces[i] \in OutPiece
<1>1. Pieces \in Seq(OutPiece) /\ MaxOut \in Nat BY PiecesFit, OutAssumption
<1> SUFFICES ASSUME NEW i \in DOMAIN Pieces PROVE Pieces[i].n \in Nat /\ Pieces[i] \in OutPiece OBVIOUS
<1>2. Pieces[i] \in OutPiece BY <1>1
<1>3. Pieces[i].n \in 1..MaxOut BY <1>2 DEF OutPiece
<1> QED BY <1>1, <1>2, <1>3

\* A piece more of the message under way.
LEMMA WithPiece ==
  ASSUME OutInv, Running, NEW p \in OutPiece, p.n = OutNumber, p.from = outJob, p.from <= p.to,
         NEW t, t = Append(Pieces, p)
  PROVE  /\ t \in Seq(OutPiece) /\ Sequential(t) /\ NoneBehind(t, OutNumber, p.to)
         /\ \A i \in DOMAIN t : t[i].n <= OutNumber
         /\ outJob = 0 \/ ~Known(OutNumber) => EndsWith(t, OutNumber, p.to)
         /\ \A n \in DOMAIN outSent :
              n # OutNumber /\ ~Known(n) /\ outSent[n].first <= outSent[n].size => ReachesIn(n, outSent[n].size, t)
<1>0. OutTypes /\ Pieces \in Seq(OutPiece) BY PiecesFit DEF OutInv
<1>1. t \in Seq(OutPiece) BY <1>0, PieceAdded
<1>2. Sequential(Pieces) /\ NoneBehind(Pieces, p.n, p.from) BY DEF OutInv, LastOnes
<1>3. p.from \in Nat /\ p.to \in Nat BY DEF OutPiece
<1>4. Sequential(t) /\ NoneBehind(t, OutNumber, p.to) BY <1>0, <1>2, <1>3, StaysSequential
<1>5. \A i \in DOMAIN t : t[i].n <= OutNumber
  <2>1. \A i \in DOMAIN Pieces : Pieces[i].n <= OutNumber BY DEF OutInv, LastOnes
  <2>2. OutNumber <= OutNumber BY <1>0 DEF OutTypes, OutNumber
  <2> QED BY <1>0, <2>1, <2>2, PieceAdded
<1>6. ASSUME outJob = 0 PROVE EndsWith(t, OutNumber, p.to)
  <2>1. Without(Pieces, OutNumber) BY <1>6 DEF OutInv, LastOnes
  <2>2. EndsWith(t, OutNumber, p.to) BY <1>0, <1>6, <2>1, FirstReaches
  <2> QED BY <2>2
<1>7. ASSUME outJob # 0 PROVE ~Known(OutNumber) => EndsWith(t, OutNumber, p.to)
  <2>1. ~Known(OutNumber) => EndsWith(Pieces, OutNumber, outJob) BY <1>7, <1>3 DEF OutInv, LastOnes
  <2>2. ~Known(OutNumber) => EndsWith(t, OutNumber, p.to) BY <1>0, <2>1, NextReaches
  <2> QED BY <1>7, <2>2
<1>8. ASSUME NEW n \in DOMAIN outSent, n # OutNumber, ~Known(n), outSent[n].first <= outSent[n].size
      PROVE  ReachesIn(n, outSent[n].size, t)
  <2>1. ReachesIn(n, outSent[n].size, Pieces) BY <1>8 DEF OutInv, SentWholeOrSaid, WholeIn, Pieces, Known
  <2> QED BY <1>0, <1>8, <2>1, OthersReachStill
<1>9. outJob = 0 \/ ~Known(OutNumber) => EndsWith(t, OutNumber, p.to) BY <1>6, <1>7
<1> QED BY <1>1, <1>4, <1>5, <1>8, <1>9

\* It returns or throws: all is said that there is to say.
LEMMA Ended ==
  ASSUME OutInv, Running, UNCHANGED <<outApi, outSent, outCoder>>, outJob' = OutIdle, OutTypes',
         Sequential(Pieces'), \A i \in DOMAIN Pieces' : Pieces'[i].n <= OutNumber,
         BuiltOnesSpeak', AlsaDrained', \A n : Known(n) => Known(n)',
         \A n \in DOMAIN outSent :
           n # OutNumber /\ ~Known(n) /\ outSent[n].first <= outSent[n].size => ReachesIn(n, outSent[n].size, Pieces'),
         ~Known(OutNumber)' /\ OutMessage.first <= OutMessage.size => ReachesIn(OutNumber, OutMessage.size, Pieces')
  PROVE  OutInv'
<1>1. ~Running' BY DEF Running
<1>2. Reached' /\ LastOnes' BY <1>1 DEF Reached, LastOnes, OutNumber
<1>3. SentWholeOrSaid'
  <2> SUFFICES ASSUME NEW n \in DOMAIN outSent, ~Known(n)', outSent[n].first <= outSent[n].size
               PROVE  ReachesIn(n, outSent[n].size, Pieces')
    BY DEF SentWholeOrSaid, WholeIn, Pieces, Known
  <2>1. CASE n = OutNumber
    <3>1. OutMessage = outSent[n] BY <2>1 DEF OutMessage, OutNumber, Last
    <3>2. ~Known(OutNumber)' BY <2>1 DEF Known, OutNumber
    <3>3. ReachesIn(OutNumber, OutMessage.size, Pieces') BY <2>1, <3>1, <3>2
    <3> QED BY <2>1, <3>1, <3>3
  <2>2. CASE n # OutNumber BY <2>2
  <2> QED BY <2>1, <2>2
<1>4. BufferHolds' BY <1>1 DEF BufferHolds
<1> QED BY <1>2, <1>3, <1>4 DEF OutInv

\* It goes on with the next piece.
LEMMA GoneOn ==
  ASSUME OutInv, Running, UNCHANGED <<outApi, outSent, outCoder>>, OutTypes', Reached', Running', outJob' > 0,
         Sequential(Pieces'), \A i \in DOMAIN Pieces' : Pieces'[i].n <= OutNumber,
         NoneBehind(Pieces', OutNumber, outJob'),
         BuiltOnesSpeak', \A n : Known(n) => Known(n)',
         \A n \in DOMAIN outSent :
           n # OutNumber /\ ~Known(n) /\ outSent[n].first <= outSent[n].size => ReachesIn(n, outSent[n].size, Pieces'),
         ~Known(OutNumber)' => EndsWith(Pieces', OutNumber, outJob')
  PROVE  OutInv'
<1>1. OutNumber' = OutNumber /\ OutMessage' = OutMessage BY DEF OutNumber, OutMessage
<1>2. LastOnes' BY <1>1 DEF LastOnes, OutTypes, OutIdle
<1>3. SentWholeOrSaid' BY <1>1 DEF SentWholeOrSaid, WholeIn, Pieces, Known
<1>4. BufferHolds' /\ AlsaDrained' BY <1>1 DEF BufferHolds, AlsaDrained, OutInv
<1> QED BY <1>2, <1>3, <1>4 DEF OutInv

-----------------------------------------------------------------------------
(* Init and the actions.                                                   *)

LEMMA OutStarts == OutInit => OutInv
<1> SUFFICES ASSUME OutInit PROVE OutInv OBVIOUS
<1>1. OutTypes
  <2>1. <<>> \in Seq(OutPiece) /\ <<>> \in Seq(OutMessages) /\ Len(<<>>) = 0 OBVIOUS
  <2> QED BY <2>1, OutAssumption DEF OutTypes, OutInit, OutNumber, OutIdle
<1>2. ~Running BY DEF OutInit, Running
<1>3. Pieces = <<>> BY <1>1, PiecesFit DEF OutInit
<1>4. Sequential(Pieces) /\ \A i \in DOMAIN Pieces : FALSE BY <1>3 DEF Sequential
<1>5. SentWholeOrSaid BY DEF OutInit, SentWholeOrSaid
<1> QED BY <1>1, <1>2, <1>4, <1>5 DEF OutInv, Reached, LastOnes, OutInit, BuiltOnesSpeak, AlsaDrained, BufferHolds

\* A message more: what was said and sent of the others stays.
LEMMA MessageAdded ==
  ASSUME OutInv, ~Running, OutNumber < MaxOut, NEW m \in OutMessages, outSent' = Append(outSent, m),
         UNCHANGED <<outApi, outPending, outWire, outSilent, outShown>>
  PROVE  /\ outSent' \in Seq(OutMessages) /\ OutNumber' = OutNumber + 1 /\ OutMessage' = m /\ outSent' # <<>>
         /\ OutNumber \in Nat /\ OutNumber' <= MaxOut /\ Pieces' = Pieces
         /\ DOMAIN outSent' = 1..OutNumber' /\ DOMAIN outSent = 1..OutNumber
         /\ \A n \in 1..OutNumber : outSent'[n] = outSent[n]
         /\ \A i \in DOMAIN Pieces : Pieces[i].n < OutNumber'
<1>1. outSent \in Seq(OutMessages) /\ MaxOut \in Nat BY OutAssumption DEF OutInv, OutTypes
<1>2. /\ outSent' \in Seq(OutMessages) /\ Len(outSent') = Len(outSent) + 1 /\ outSent'[Len(outSent) + 1] = m
      /\ Len(outSent) \in Nat /\ outSent' # <<>>
      /\ \A n \in 1..Len(outSent) : outSent'[n] = outSent[n]
  BY <1>1
<1>3. OutNumber' = OutNumber + 1 /\ OutMessage' = m /\ OutNumber \in Nat
  BY <1>2 DEF OutNumber, OutMessage, Last
<1>4. Pieces' = Pieces BY DEF Pieces
<1>5. \A i \in DOMAIN Pieces : Pieces[i].n < OutNumber'
  <2>1. \A i \in DOMAIN Pieces : Pieces[i].n <= OutNumber /\ Pieces[i].n \in Nat
    BY PieceNumbers DEF OutInv, LastOnes
  <2> QED BY <1>3, <2>1
<1>6. OutNumber' <= MaxOut BY <1>1, <1>3
<1>7. DOMAIN outSent' = 1..OutNumber' /\ DOMAIN outSent = 1..OutNumber BY <1>1, <1>2 DEF OutNumber
<1> QED BY <1>2, <1>3, <1>4, <1>5, <1>6, <1>7 DEF OutNumber

LEMMA SendMessageStays == ASSUME NEW m \in OutMessages PROVE OutInv /\ SendMessage(m) => OutInv'
<1> SUFFICES ASSUME OutInv, SendMessage(m) PROVE OutInv' OBVIOUS
<1>1. /\ ~Running /\ OutNumber < MaxOut /\ outSent' = Append(outSent, m) /\ outJob' = 0
      /\ outCoder' = IF outApi = "alsa" /\ m.size > outCoder.bufferSize THEN Resized(m) ELSE outCoder
      /\ UNCHANGED <<outApi, outPending, outWire, outSaid, outSilent, outShown, outFaults>>
  BY DEF SendMessage, Called
<1>2. m.size \in Nat \ {0} BY OutAssumption
<1>3. /\ outSent' \in Seq(OutMessages) /\ OutNumber' = OutNumber + 1 /\ OutMessage' = m /\ outSent' # <<>>
      /\ OutNumber \in Nat /\ OutNumber' <= MaxOut /\ Pieces' = Pieces
      /\ DOMAIN outSent' = 1..OutNumber' /\ DOMAIN outSent = 1..OutNumber
      /\ \A n \in 1..OutNumber : outSent'[n] = outSent[n]
      /\ \A i \in DOMAIN Pieces : Pieces[i].n < OutNumber'
  BY <1>1, MessageAdded
<1>4. OutTypes'
  <2>1. outCoder' \in [bufferSize: Nat, size: Nat] BY <1>1, <1>2 DEF OutInv, OutTypes, Resized
  <2>2. 1..OutNumber \subseteq 1..OutNumber' BY <1>3
  <2> QED BY <1>1, <1>3, <2>1, <2>2 DEF OutInv, OutTypes
<1>5. Reached' BY <1>1, <1>2, <1>3 DEF Reached
<1>6. Sequential(Pieces') BY <1>3 DEF OutInv
<1>7. LastOnes'
  <2>1. \A i \in DOMAIN Pieces : Pieces[i].n <= OutNumber' /\ Pieces[i].n # OutNumber'
    <3>1. \A i \in DOMAIN Pieces : Pieces[i].n \in Nat BY PieceNumbers DEF OutInv
    <3> QED BY <1>3, <3>1
  <2> QED BY <1>1, <1>3, <2>1 DEF LastOnes, NoneBehind, Without
<1>8. SentWholeOrSaid'
  <2> SUFFICES ASSUME NEW n \in DOMAIN outSent', n # OutNumber', ~Known(n), outSent'[n].first <= outSent'[n].size
               PROVE  ReachesIn(n, outSent'[n].size, Pieces')
    <3>1. Running' BY <1>1 DEF Running, OutIdle
    <3> QED BY <1>1, <3>1 DEF SentWholeOrSaid, WholeIn, Pieces, Known
  <2>1. n \in DOMAIN outSent /\ outSent'[n] = outSent[n] BY <1>3
  <2> QED BY <1>1, <1>3, <2>1 DEF OutInv, SentWholeOrSaid, WholeIn, Pieces, Known
<1>9. BuiltOnesSpeak' /\ AlsaDrained'
  <2>1. Running' BY <1>1 DEF Running, OutIdle
  <2>2. \A n \in outSilent : outSent'[n] = outSent[n] BY <1>3 DEF OutInv, OutTypes
  <2> QED BY <1>1, <2>1, <2>2 DEF OutInv, BuiltOnesSpeak, AlsaDrained
<1>10. BufferHolds'
  <2>1. outCoder.bufferSize \in Nat /\ outCoder.size \in Nat BY DEF OutInv, OutTypes
  <2>2. CASE outApi = "alsa" /\ m.size > outCoder.bufferSize
    <3>1. outCoder'.size = m.size BY <1>1, <2>2 DEF Resized
    <3> QED BY <1>2, <1>3, <3>1 DEF BufferHolds
  <2>3. CASE ~(outApi = "alsa" /\ m.size > outCoder.bufferSize)
    BY <1>1, <1>2, <1>3, <2>1, <2>3 DEF BufferHolds
  <2> QED BY <2>2, <2>3
<1> QED BY <1>4, <1>5, <1>6, <1>7, <1>8, <1>9, <1>10 DEF OutInv

LEMMA ResizeFailsStays == ASSUME NEW m \in OutMessages PROVE OutInv /\ ResizeFails(m) => OutInv'
<1> SUFFICES ASSUME OutInv, ResizeFails(m) PROVE OutInv' OBVIOUS
<1>1. /\ ~Running /\ OutNumber < MaxOut /\ outSent' = Append(outSent, m)
      /\ outCoder' = [outCoder EXCEPT !.bufferSize = m.size] /\ outFaults' = outFaults + 1
      /\ outSaid' = outSaid \cup {OutNumber + 1}
      /\ UNCHANGED <<outApi, outJob, outPending, outWire, outSilent, outShown>>
  BY DEF ResizeFails, Fault
<1>2. m.size \in Nat \ {0} BY OutAssumption
<1>3. /\ outSent' \in Seq(OutMessages) /\ OutNumber' = OutNumber + 1 /\ OutMessage' = m /\ outSent' # <<>>
      /\ OutNumber \in Nat /\ OutNumber' <= MaxOut /\ Pieces' = Pieces
      /\ DOMAIN outSent' = 1..OutNumber' /\ DOMAIN outSent = 1..OutNumber
      /\ \A n \in 1..OutNumber : outSent'[n] = outSent[n]
      /\ \A i \in DOMAIN Pieces : Pieces[i].n < OutNumber'
  BY <1>1, MessageAdded
<1>4. OutTypes'
  <2>1. outCoder' \in [bufferSize: Nat, size: Nat] BY <1>1, <1>2 DEF OutInv, OutTypes
  <2>2. 1..OutNumber \subseteq 1..OutNumber' /\ OutNumber + 1 \in 1..OutNumber' BY <1>3
  <2>3. outFaults' \in Nat BY <1>1 DEF OutInv, OutTypes
  <2>4. outSaid' \subseteq 1..OutNumber' BY <1>1, <2>2 DEF OutInv, OutTypes
  <2>5. outSilent' \subseteq 1..OutNumber' /\ outShown' \subseteq 1..OutNumber' BY <1>1, <2>2 DEF OutInv, OutTypes
  <2> QED BY <1>1, <1>3, <2>1, <2>3, <2>4, <2>5 DEF OutInv, OutTypes
<1>5. ~Running' BY <1>1 DEF Running
<1>6. Reached' BY <1>5 DEF Reached
<1>7. Sequential(Pieces') BY <1>3 DEF OutInv
<1>8. LastOnes'
  <2>1. \A i \in DOMAIN Pieces : Pieces[i].n <= OutNumber'
    <3>1. \A i \in DOMAIN Pieces : Pieces[i].n \in Nat BY PieceNumbers DEF OutInv
    <3> QED BY <1>3, <3>1
  <2> QED BY <1>3, <1>5, <2>1 DEF LastOnes
<1>9. SentWholeOrSaid'
  <2> SUFFICES ASSUME NEW n \in DOMAIN outSent', ~Known(n)', outSent'[n].first <= outSent'[n].size
               PROVE  ReachesIn(n, outSent'[n].size, Pieces')
    BY DEF SentWholeOrSaid, WholeIn, Pieces, Known
  <2>1. n # OutNumber + 1 /\ ~Known(n) BY <1>1 DEF Known
  <2>2. n \in DOMAIN outSent /\ outSent'[n] = outSent[n] BY <1>3, <2>1
  <2> QED BY <1>1, <1>3, <2>1, <2>2 DEF OutInv, SentWholeOrSaid, WholeIn, Pieces, Known
<1>10. BuiltOnesSpeak' /\ AlsaDrained'
  <2>1. \A n \in outSilent : outSent'[n] = outSent[n] BY <1>3 DEF OutInv, OutTypes
  <2> QED BY <1>1, <2>1 DEF OutInv, BuiltOnesSpeak, AlsaDrained
<1>11. BufferHolds' BY <1>5 DEF BufferHolds
<1> QED BY <1>4, <1>6, <1>7, <1>8, <1>9, <1>10, <1>11 DEF OutInv

\* A piece reaches the system, or what is ahead of it, and the call ends or goes on.
LEMMA PieceStays ==
  ASSUME OutInv, Running, NEW p \in OutPiece, p.n = OutNumber, p.from = outJob, p.from <= p.to,
         Pieces' = Append(Pieces, p),
         outApi \notin {"alsa", "jack"} => outPending' = <<>>,
         outWire' \in Seq(OutPiece), outPending' \in Seq(OutPiece),
         UNCHANGED <<outApi, outSent, outCoder, outSaid, outSilent, outFaults>>,
         \/ outApi # "alsa" /\ Returns /\ (OutMessage.first <= OutMessage.size => p.to = OutMessage.size)
         \/ /\ outJob' = p.to /\ UNCHANGED outShown
            /\ p.to > 0 /\ outApi \in {"core", "alsa"} /\ p.to <= OutMessage.size
            /\ outApi = "core" => p.to < OutMessage.size
  PROVE  OutInv'
<1>0. /\ Pieces' \in Seq(OutPiece) /\ Sequential(Pieces') /\ NoneBehind(Pieces', OutNumber, p.to)
      /\ \A i \in DOMAIN Pieces' : Pieces'[i].n <= OutNumber
      /\ outJob = 0 \/ ~Known(OutNumber) => EndsWith(Pieces', OutNumber, p.to)
      /\ \A n \in DOMAIN outSent :
           n # OutNumber /\ ~Known(n) /\ outSent[n].first <= outSent[n].size => ReachesIn(n, outSent[n].size, Pieces')
  BY WithPiece
<1>1. p.to \in Nat BY DEF OutPiece
<1>2. outSent # <<>> BY DEF OutInv, Reached
<1>3. OutNumber \in 1..OutNumber /\ OutNumber' = OutNumber /\ OutMessage' = OutMessage
  <2>1. OutNumber \in 1..MaxOut BY <1>2, MessageFits DEF OutInv
  <2>2. MaxOut \in Nat BY OutAssumption
  <2> QED BY <2>1, <2>2 DEF OutNumber, OutMessage
<1>4. BuiltOnesSpeak' /\ \A n : Known(n)' <=> Known(n) BY DEF OutInv, BuiltOnesSpeak, Known
<1>5. CASE outApi # "alsa" /\ Returns /\ (OutMessage.first <= OutMessage.size => p.to = OutMessage.size)
  <2>1. outJob' = OutIdle /\ outShown' = outShown \cup {OutNumber} BY <1>5 DEF Returns
  <2>2. OutTypes' BY <1>3, <2>1 DEF OutInv, OutTypes
  <2>3. ~Known(OutNumber)' /\ OutMessage.first <= OutMessage.size => ReachesIn(OutNumber, OutMessage.size, Pieces')
    <3>1. Known(OutNumber)' <=> Known(OutNumber) BY <1>3, <1>4
    <3> QED BY <1>0, <1>5, <3>1 DEF EndsWith
  <2>4. \A n : Known(n) => Known(n)' BY <1>4
  <2>5. AlsaDrained' BY <1>5 DEF AlsaDrained
  <2> QED BY <1>0, <1>4, <2>1, <2>2, <2>3, <2>4, <2>5, Ended
<1>6. CASE /\ outJob' = p.to /\ UNCHANGED outShown
           /\ p.to > 0 /\ outApi \in {"core", "alsa"} /\ p.to <= OutMessage.size
           /\ outApi = "core" => p.to < OutMessage.size
  <2>1. OutTypes' BY <1>1, <1>3, <1>6 DEF OutInv, OutTypes
  <2>2. OutMessage.size \in Nat BY <1>2, MessageFits DEF OutInv
  <2>3. Reached' BY <1>1, <1>2, <1>3, <1>6, <2>2 DEF Reached
  <2>4. Running' BY <1>1, <1>6 DEF Running, OutIdle
  <2>5. ~Known(OutNumber)' => EndsWith(Pieces', OutNumber, outJob')
    <3>1. Known(OutNumber)' <=> Known(OutNumber) BY <1>3, <1>4
    <3> QED BY <1>0, <1>6, <3>1
  <2>6. \A n : Known(n) => Known(n)' BY <1>4
  <2>7. outJob' > 0 /\ NoneBehind(Pieces', OutNumber, outJob') BY <1>0, <1>6
  <2> QED BY <1>0, <1>4, <2>1, <2>3, <2>4, <2>5, <2>6, <2>7, GoneOn
<1> QED BY <1>5, <1>6

\* Nothing is added, and somebody is told or the backend is one that does not look.
LEMMA NoPieceStays ==
  ASSUME OutInv, Running, Pieces' = Pieces, outWire' \in Seq(OutPiece), outPending' \in Seq(OutPiece),
         outApi \notin {"alsa", "jack"} => outPending' = <<>>,
         UNCHANGED <<outApi, outSent, outCoder>>, outFaults' \in Nat, outJob' = OutIdle,
         outShown' \subseteq outShown \cup {OutNumber},
         \A n : Known(n)' <=> Known(n) \/ n = OutNumber,
         outSaid' \subseteq outSaid \cup {OutNumber}, outSilent' \subseteq outSilent \cup {OutNumber},
         outSilent' = outSilent \/ outApi \in {"jack", "android", "web"}
  PROVE  OutInv'
<1>1. outSent # <<>> BY DEF OutInv, Reached
<1>2. OutNumber \in 1..OutNumber /\ OutNumber' = OutNumber
  <2>1. OutNumber \in 1..MaxOut BY <1>1, MessageFits DEF OutInv
  <2>2. MaxOut \in Nat BY OutAssumption
  <2> QED BY <2>1, <2>2 DEF OutNumber
<1>3. OutTypes' BY <1>2 DEF OutInv, OutTypes
<1>4. BuiltOnesSpeak' BY DEF OutInv, BuiltOnesSpeak
<1>5. Sequential(Pieces') /\ \A i \in DOMAIN Pieces' : Pieces'[i].n <= OutNumber BY DEF OutInv, LastOnes
<1>6. Known(OutNumber)' BY <1>2
<1>9. AlsaDrained'
  <2>1. outApi' = "alsa" => outSilent' = {} BY <1>4 DEF BuiltOnesSpeak
  <2> QED BY <1>6, <2>1 DEF AlsaDrained, Known
<1>7. \A n \in DOMAIN outSent :
        n # OutNumber /\ ~Known(n) /\ outSent[n].first <= outSent[n].size => ReachesIn(n, outSent[n].size, Pieces')
  BY DEF OutInv, SentWholeOrSaid, WholeIn, Pieces, Known
<1>8. \A n : Known(n) => Known(n)' OBVIOUS
<1> QED BY <1>3, <1>4, <1>5, <1>6, <1>7, <1>8, <1>9, Ended

\* While a message is under way it has a number, and pieces of it can be made.
LEMMA UnderWay ==
  ASSUME OutInv, Running
  PROVE  /\ outSent # <<>> /\ OutNumber \in 1..MaxOut /\ MaxOut \in Nat
         /\ OutMessage.size \in Nat \ {0} /\ OutMessage.first \in Nat \ {0}
         /\ outJob \in Nat /\ outJob <= OutMessage.size
         /\ outApi # "alsa" => outJob < OutMessage.size
         /\ outApi \notin {"core", "alsa"} => outJob = 0
         /\ outFaults \in Nat /\ outWire \in Seq(OutPiece) /\ outPending \in Seq(OutPiece)
         /\ outApi \notin {"alsa", "jack"} => outPending = <<>>
         /\ \A from, to \in Nat :
              LET p == Piece(OutNumber, from, to) IN p \in OutPiece /\ p.n = OutNumber /\ p.from = from /\ p.to = to
<1>1. outSent # <<>> BY DEF OutInv, Reached
<1>2. OutNumber \in 1..MaxOut /\ OutMessage.size \in Nat \ {0} /\ OutMessage.first \in Nat \ {0}
  BY <1>1, MessageFits DEF OutInv
<1>3. \A from, to \in Nat :
        LET p == Piece(OutNumber, from, to) IN p \in OutPiece /\ p.n = OutNumber /\ p.from = from /\ p.to = to
  BY <1>2 DEF Piece, OutPiece
<1>4. MaxOut \in Nat BY OutAssumption
<1>5. outJob \in 0..OutMessage.size BY DEF OutInv, Reached
<1> QED BY <1>1, <1>2, <1>3, <1>4, <1>5 DEF OutInv, Reached, OutTypes

LEMMA PacketIsPiece ==
  ASSUME OutInv, Running, outApi = "core"
  PROVE  /\ Packet \in OutPiece /\ Packet.n = OutNumber /\ Packet.from = outJob /\ Packet.to = PacketEnd
         /\ PacketEnd \in Nat /\ outJob < PacketEnd /\ PacketEnd <= OutMessage.size
<1>1. PacketSize \in Nat \ {0} BY OutAssumption
<1>2. outJob \in Nat /\ OutMessage.size \in Nat /\ outJob < OutMessage.size BY UnderWay
<1>3. PacketEnd \in Nat /\ outJob < PacketEnd /\ PacketEnd <= OutMessage.size BY <1>1, <1>2 DEF PacketEnd
<1> QED BY <1>2, <1>3, UnderWay DEF Packet

LEMMA CorePacketStays == OutInv /\ CorePacket => OutInv'
<1> SUFFICES ASSUME OutInv, CorePacket PROVE OutInv' OBVIOUS
<1>1. /\ Running /\ outApi = "core" /\ UNCHANGED <<outApi, outSent, outCoder, outPending, outSilent>>
      /\ \/ outWire' = Append(outWire, Packet) /\ UNCHANGED <<outSaid, outFaults>>
         \/ Fault /\ Warns /\ UNCHANGED outWire
      /\ IF PacketEnd = OutMessage.size THEN Returns ELSE outJob' = PacketEnd /\ UNCHANGED outShown
  BY DEF CorePacket
<1>2. /\ Packet \in OutPiece /\ Packet.n = OutNumber /\ Packet.from = outJob /\ Packet.to = PacketEnd
      /\ PacketEnd \in Nat /\ outJob < PacketEnd /\ PacketEnd <= OutMessage.size
  BY <1>1, PacketIsPiece
<1>3. outPending = <<>> /\ outWire \in Seq(OutPiece) /\ outPending \in Seq(OutPiece) /\ outFaults \in Nat
      /\ outJob \in Nat /\ OutNumber \in 1..MaxOut /\ MaxOut \in Nat /\ outSent # <<>> /\ OutMessage.size \in Nat
  BY <1>1, UnderWay
<1>4. CASE outWire' = Append(outWire, Packet) /\ UNCHANGED <<outSaid, outFaults>>
  <2>1. outWire' \in Seq(OutPiece) /\ Pieces' = Append(Pieces, Packet)
    <3>1. outWire' \in Seq(OutPiece) BY <1>2, <1>3, <1>4
    <3>2. Pieces' = outWire' /\ Pieces = outWire BY <1>1, <1>3, <3>1 DEF Pieces
    <3> QED BY <1>4, <3>1, <3>2
  <2>2. \/ outApi # "alsa" /\ Returns /\ (OutMessage.first <= OutMessage.size => Packet.to = OutMessage.size)
        \/ /\ outJob' = Packet.to /\ UNCHANGED outShown
           /\ Packet.to > 0 /\ outApi \in {"core", "alsa"} /\ Packet.to <= OutMessage.size
           /\ outApi = "core" => Packet.to < OutMessage.size
    <3>1. CASE PacketEnd = OutMessage.size BY <1>1, <1>2, <3>1
    <3>2. CASE PacketEnd # OutMessage.size BY <1>1, <1>2, <1>3, <3>2
    <3> QED BY <3>1, <3>2
  <2>3. Packet.from <= Packet.to BY <1>2, <1>3
  <2> QED BY <1>1, <1>2, <1>3, <1>4, <2>1, <2>2, <2>3, PieceStays
<1>5. CASE Fault /\ Warns /\ UNCHANGED outWire
  <2>1. /\ Pieces' = Pieces /\ outFaults' \in Nat /\ outSaid' = outSaid \cup {OutNumber}
        /\ \A n : Known(n)' <=> Known(n) \/ n = OutNumber
    BY <1>1, <1>3, <1>5 DEF Pieces, Fault, Warns, Known
  <2>2. CASE PacketEnd = OutMessage.size
    <3>1. outJob' = OutIdle /\ outShown' = outShown \cup {OutNumber} BY <1>1, <2>2 DEF Returns
    <3> QED BY <1>1, <1>3, <1>5, <2>1, <3>1, NoPieceStays
  <2>3. CASE PacketEnd # OutMessage.size
    <3>1. outJob' = PacketEnd /\ UNCHANGED outShown /\ PacketEnd < OutMessage.size BY <1>1, <1>2, <1>3, <2>3
    <3>2. OutNumber' = OutNumber /\ OutMessage' = OutMessage /\ OutNumber \in 1..OutNumber
      BY <1>1, <1>3 DEF OutNumber, OutMessage
    <3>3. OutTypes' BY <1>1, <1>2, <1>3, <1>5, <2>1, <3>1, <3>2 DEF OutInv, OutTypes
    <3>4. Reached' /\ Running' /\ outJob' > 0
      BY <1>1, <1>2, <1>3, <3>1, <3>2 DEF Reached, Running, OutIdle
    <3>5. Sequential(Pieces') /\ \A i \in DOMAIN Pieces' : Pieces'[i].n <= OutNumber BY <2>1 DEF OutInv, LastOnes
    <3>6. NoneBehind(Pieces', OutNumber, outJob')
      <4>1. \A i \in DOMAIN Pieces : Pieces[i].to \in Nat BY PieceNumbers DEF OutInv, OutPiece
      <4>2. NoneBehind(Pieces, OutNumber, outJob) BY <1>1 DEF OutInv, LastOnes
      <4> QED BY <1>2, <1>3, <2>1, <3>1, <4>1, <4>2 DEF NoneBehind
    <3>7. BuiltOnesSpeak' BY <1>1 DEF OutInv, BuiltOnesSpeak
    <3>8. /\ Known(OutNumber)' /\ \A n : Known(n) => Known(n)'
      BY <2>1, <3>2
    <3>9. \A n \in DOMAIN outSent :
            n # OutNumber /\ ~Known(n) /\ outSent[n].first <= outSent[n].size => ReachesIn(n, outSent[n].size, Pieces')
      BY <2>1 DEF OutInv, SentWholeOrSaid, WholeIn, Pieces, Known
    <3> QED BY <1>1, <3>3, <3>4, <3>5, <3>6, <3>7, <3>8, <3>9, GoneOn
  <2> QED BY <2>2, <2>3
<1> QED BY <1>1, <1>4, <1>5

\* An error.
LEMMA ThrownStays ==
  ASSUME OutInv, Running, Fault, Throws, UNCHANGED <<outApi, outSent, outCoder, outPending, outWire, outSilent>>
  PROVE  OutInv'
<1>1. outJob' = OutIdle /\ outSaid' = outSaid \cup {OutNumber} /\ UNCHANGED outShown BY DEF Throws
<1>2. outFaults' \in Nat BY UnderWay DEF Fault
<1>3. Pieces' = Pieces /\ \A n : Known(n)' <=> Known(n) \/ n = OutNumber BY <1>1 DEF Pieces, Known
<1> QED BY <1>1, <1>2, <1>3, UnderWay, NoPieceStays

LEMMA CoreThrowsStays == OutInv /\ CoreThrows => OutInv'
  BY ThrownStays DEF CoreThrows

LEMMA AlsaEventStays == OutInv /\ AlsaEvent => OutInv'
<1> SUFFICES ASSUME OutInv, AlsaEvent PROVE OutInv' OBVIOUS
<1> DEFINE p == Piece(OutNumber, outJob, EventEnd)
<1>1. /\ Running /\ outApi = "alsa" /\ outJob < OutMessage.size /\ EventEnd <= OutMessage.size
      /\ outPending' = Append(outPending, p) /\ outJob' = EventEnd
      /\ UNCHANGED <<outApi, outSent, outCoder, outWire, outSaid, outSilent, outShown, outFaults>>
  BY DEF AlsaEvent
<1>2. /\ outWire \in Seq(OutPiece) /\ outPending \in Seq(OutPiece)
      /\ outJob \in Nat /\ OutMessage.size \in Nat \ {0} /\ OutMessage.first \in Nat \ {0}
  BY <1>1, UnderWay
<1>3. EventEnd \in Nat /\ EventEnd > 0 /\ outJob <= EventEnd BY <1>1, <1>2 DEF EventEnd
<1>4. p \in OutPiece /\ p.n = OutNumber /\ p.from = outJob /\ p.to = EventEnd BY <1>1, <1>2, <1>3, UnderWay
<1> HIDE DEF p
<1>5. outPending' \in Seq(OutPiece) /\ outWire' \in Seq(OutPiece) BY <1>1, <1>2, <1>4
<1>6. Pieces' = Append(Pieces, p) BY <1>1, <1>2, <1>4 DEF Pieces
<1> QED BY <1>1, <1>3, <1>4, <1>5, <1>6, PieceStays

LEMMA AlsaWarnsStays == OutInv /\ AlsaWarns => OutInv'
<1> SUFFICES ASSUME OutInv, AlsaWarns PROVE OutInv' OBVIOUS
<1>1. /\ Running /\ outApi = "alsa" /\ outSaid' = outSaid \cup {OutNumber} /\ outJob' = OutIdle
      /\ outShown' = outShown \cup {OutNumber}
      /\ UNCHANGED <<outApi, outSent, outCoder, outPending, outWire, outSilent>>
  BY DEF AlsaWarns, Warns, Returns
<1>2. outFaults' \in Nat
  <2>1. outFaults \in Nat BY <1>1, UnderWay
  <2> QED BY <2>1 DEF AlsaWarns, Fault
<1>3. Pieces' = Pieces /\ \A n : Known(n)' <=> Known(n) \/ n = OutNumber BY <1>1 DEF Pieces, Known
<1> QED BY <1>1, <1>2, <1>3, UnderWay, NoPieceStays

\* A sequence is what is before a place of it and what is behind.
LEMMA SplitAt ==
  ASSUME NEW S, NEW s \in Seq(S), NEW k \in 0..Len(s)
  PROVE  /\ SubSeq(s, 1, k) \in Seq(S) /\ SubSeq(s, k + 1, Len(s)) \in Seq(S)
         /\ SubSeq(s, 1, k) \o SubSeq(s, k + 1, Len(s)) = s
<1>1. k \in Int /\ Len(s) \in Nat /\ k <= Len(s) OBVIOUS
<1>2. SubSeq(s, 1, k) \in Seq(S)
  <2>1. \A i \in 1..k : s[i] \in S BY <1>1
  <2> QED BY <1>1, <2>1, SubSeqProperties
<1>3. SubSeq(s, k + 1, Len(s)) \in Seq(S)
  <2>1. \A i \in k + 1..Len(s) : s[i] \in S BY <1>1
  <2>2. k + 1 \in Int BY <1>1
  <2> QED BY <1>1, <2>1, <2>2, SubSeqProperties
<1>4. SubSeq(s, 1, k) \o SubSeq(s, k + 1, Len(s)) = SubSeq(s, 1, Len(s))
  <2>1. 1 \in 1..Len(s) + 1 /\ k \in 1 - 1..Len(s) /\ Len(s) \in k..Len(s) BY <1>1
  <2> QED BY <2>1, ConcatAdjacentSubSeq
<1>5. SubSeq(s, 1, Len(s)) = s BY SubSeqFull
<1> QED BY <1>2, <1>3, <1>4, <1>5

LEMMA AlsaDrainStays == OutInv /\ AlsaDrain => OutInv'
<1> SUFFICES ASSUME OutInv, AlsaDrain PROVE OutInv' OBVIOUS
<1>1. /\ Running /\ outApi = "alsa" /\ outJob = OutMessage.size
      /\ outJob' = OutIdle /\ outShown' = outShown \cup {OutNumber}
      /\ UNCHANGED <<outApi, outSent, outCoder, outSaid, outSilent>>
      /\ \/ outWire' = outWire \o outPending /\ outPending' = <<>> /\ UNCHANGED outFaults
         \/ /\ outFaults' = outFaults + 1
            /\ \E written \in 0..Len(outPending) :
                 /\ outWire' = outWire \o SubSeq(outPending, 1, written)
                 /\ outPending' = SubSeq(outPending, written + 1, Len(outPending))
  BY DEF AlsaDrain, Returns, Fault
<1>2. /\ outWire \in Seq(OutPiece) /\ outPending \in Seq(OutPiece) /\ OutNumber \in 1..MaxOut /\ MaxOut \in Nat
      /\ outJob \in Nat /\ OutMessage.size \in Nat \ {0} /\ outFaults \in Nat
  BY <1>1, UnderWay
<1>3. /\ outWire' \in Seq(OutPiece) /\ outPending' \in Seq(OutPiece) /\ Pieces' = Pieces
      /\ outFaults' \in Nat /\ (outPending' # <<>> => outFaults' > 0)
  <2>1. CASE outWire' = outWire \o outPending /\ outPending' = <<>> /\ UNCHANGED outFaults
    BY <1>2, <2>1 DEF Pieces
  <2>2. CASE /\ outFaults' = outFaults + 1
             /\ \E written \in 0..Len(outPending) :
                  /\ outWire' = outWire \o SubSeq(outPending, 1, written)
                  /\ outPending' = SubSeq(outPending, written + 1, Len(outPending))
    <3> PICK written \in 0..Len(outPending) :
                  /\ outWire' = outWire \o SubSeq(outPending, 1, written)
                  /\ outPending' = SubSeq(outPending, written + 1, Len(outPending))
      BY <2>2
    <3> DEFINE early == SubSeq(outPending, 1, written)
               rest  == SubSeq(outPending, written + 1, Len(outPending))
    <3>1. /\ early \in Seq(OutPiece) /\ rest \in Seq(OutPiece) /\ early \o rest = outPending
      BY <1>2, SplitAt
    <3> HIDE DEF early, rest
    <3>2. (outWire \o early) \o rest = outWire \o (early \o rest)
      <4>1. outWire \in Seq(OutPiece) BY <1>2
      <4>2. early \in Seq(OutPiece) /\ rest \in Seq(OutPiece) BY <3>1
      <4> QED BY ONLY <4>1, <4>2, ConcatAssociative
    <3>3. outWire' = outWire \o early /\ outPending' = rest BY DEF early, rest
    <3>4. outWire \o early \in Seq(OutPiece) BY <1>2, <3>1
    <3>5. Pieces' = Pieces BY <3>1, <3>2, <3>3 DEF Pieces
    <3>6. outFaults' \in Nat /\ outFaults' > 0 BY <1>2, <2>2
    <3> QED BY <3>1, <3>3, <3>4, <3>5, <3>6
  <2> QED BY <1>1, <2>1, <2>2
<1>4. OutTypes'
  <2>1. OutNumber' = OutNumber /\ OutNumber \in 1..OutNumber BY <1>1, <1>2 DEF OutNumber
  <2> QED BY <1>1, <1>3, <2>1 DEF OutInv, OutTypes
<1>5. Sequential(Pieces') /\ \A i \in DOMAIN Pieces' : Pieces'[i].n <= OutNumber BY <1>3 DEF OutInv, LastOnes
<1>6. BuiltOnesSpeak' /\ \A n : Known(n)' <=> Known(n) BY <1>1 DEF OutInv, BuiltOnesSpeak, Known
<1>9. AlsaDrained' BY <1>3 DEF AlsaDrained
<1>7. \A n \in DOMAIN outSent :
        n # OutNumber /\ ~Known(n) /\ outSent[n].first <= outSent[n].size => ReachesIn(n, outSent[n].size, Pieces')
  BY <1>3 DEF OutInv, SentWholeOrSaid, WholeIn, Pieces, Known
<1>8. ~Known(OutNumber)' /\ OutMessage.first <= OutMessage.size => ReachesIn(OutNumber, OutMessage.size, Pieces')
  <2>1. ~Known(OutNumber)' => ~Known(OutNumber) BY <1>1 DEF Known, OutNumber
  <2>2. ~Known(OutNumber) => EndsWith(Pieces, OutNumber, outJob) BY <1>1, <1>2 DEF OutInv, LastOnes
  <2> QED BY <1>1, <1>3, <2>1, <2>2 DEF EndsWith
<1> QED BY <1>1, <1>4, <1>5, <1>6, <1>7, <1>8, <1>9, Ended

\* The backends that send a message at once.
LEMMA SentAtOnceStays ==
  ASSUME OutInv, Running, outApi \in {"winmm", "uwp", "android", "web"}, NEW to \in Nat,
         OutMessage.first <= OutMessage.size => to = OutMessage.size,
         outWire' = Append(outWire, Piece(OutNumber, 0, to)), Returns,
         UNCHANGED <<outApi, outSent, outCoder, outPending, outSaid, outSilent, outFaults>>
  PROVE  OutInv'
<1> DEFINE p == Piece(OutNumber, 0, to)
<1>1. /\ p \in OutPiece /\ p.n = OutNumber /\ p.from = 0 /\ p.to = to /\ outJob = 0 /\ outPending = <<>>
      /\ outWire \in Seq(OutPiece) /\ outPending \in Seq(OutPiece)
  BY UnderWay
<1> HIDE DEF p
<1>2. outWire' = Append(outWire, p) BY DEF p
<1>3. outWire' \in Seq(OutPiece) BY <1>1, <1>2
<1>4. Pieces' = outWire' /\ Pieces = outWire BY <1>1, <1>3 DEF Pieces
<1>5. Pieces' = Append(Pieces, p) BY <1>2, <1>4
<1> QED BY <1>1, <1>3, <1>5, PieceStays

\* A short message is cut behind its first event.
LEMMA CutStays ==
  ASSUME OutInv, Running, outApi = "winmm", OutMessage.size <= ShortSize, OutMessage.first < OutMessage.size,
         outWire' = Append(outWire, Piece(OutNumber, 0, OutMessage.first)), Returns,
         outSilent' = outSilent \cup {OutNumber},
         UNCHANGED <<outApi, outSent, outCoder, outPending, outSaid, outFaults>>
  PROVE  OutInv'
<1> DEFINE p == Piece(OutNumber, 0, OutMessage.first)
<1>1. /\ p \in OutPiece /\ p.n = OutNumber /\ p.from = 0 /\ p.from <= p.to /\ outJob = 0 /\ outPending = <<>>
      /\ outWire \in Seq(OutPiece) /\ outPending \in Seq(OutPiece) /\ outSent # <<>>
      /\ OutNumber \in 1..MaxOut /\ MaxOut \in Nat
  BY UnderWay
<1> HIDE DEF p
<1>2. outWire' = Append(outWire, p) BY DEF p
<1>3. outWire' \in Seq(OutPiece) BY <1>1, <1>2
<1>4. Pieces' = outWire' /\ Pieces = outWire BY <1>1, <1>3 DEF Pieces
<1>5. Pieces' = Append(Pieces, p) BY <1>2, <1>4
<1>6. outJob' = OutIdle /\ outShown' = outShown \cup {OutNumber} BY DEF Returns
<1>7. OutNumber \in 1..OutNumber /\ OutNumber' = OutNumber BY <1>1 DEF OutNumber
<1>8. OutTypes' BY <1>1, <1>3, <1>6, <1>7 DEF OutInv, OutTypes
<1>9. /\ Sequential(Pieces') /\ \A i \in DOMAIN Pieces' : Pieces'[i].n <= OutNumber
      /\ \A n \in DOMAIN outSent :
           n # OutNumber /\ ~Known(n) /\ outSent[n].first <= outSent[n].size => ReachesIn(n, outSent[n].size, Pieces')
  BY <1>1, <1>5, WithPiece
<1>10. BuiltOnesSpeak'
  <2>1. OutMessage = outSent[OutNumber] BY <1>1, MessageFits DEF OutInv
  <2> QED BY <2>1 DEF OutInv, BuiltOnesSpeak
<1>11. AlsaDrained' BY DEF AlsaDrained
<1>12. Known(OutNumber)' /\ \A n : Known(n) => Known(n)' BY <1>7 DEF Known
<1> QED BY <1>6, <1>8, <1>9, <1>10, <1>11, <1>12, Ended

LEMMA WinMMSendsStays == OutInv /\ WinMMSends => OutInv'
<1> SUFFICES ASSUME OutInv, WinMMSends PROVE OutInv' OBVIOUS
<1>0. /\ Running /\ outApi = "winmm" /\ UNCHANGED <<outApi, outSent, outCoder, outPending>>
      /\ \/ /\ outWire' = Append(outWire, WinMMPiece) /\ Returns /\ UNCHANGED <<outSaid, outFaults>>
            /\ outSilent' = outSilent \cup (IF WinMMEnd < OutMessage.size THEN {OutNumber} ELSE {})
         \/ Fault /\ Throws /\ UNCHANGED <<outWire, outSilent>>
  BY DEF WinMMSends
<1>1. CASE /\ outWire' = Append(outWire, WinMMPiece) /\ Returns /\ UNCHANGED <<outSaid, outFaults>>
           /\ outSilent' = outSilent \cup (IF WinMMEnd < OutMessage.size THEN {OutNumber} ELSE {})
  <2>1. OutMessage.size \in Nat /\ OutMessage.first \in Nat /\ ShortSize \in Nat
    BY <1>0, UnderWay, OutAssumption
  <2>2. outWire' = Append(outWire, Piece(OutNumber, 0, WinMMEnd)) BY <1>1 DEF WinMMPiece
  <2>3. CASE WinMMEnd < OutMessage.size
    <3>1. OutMessage.size <= ShortSize /\ WinMMEnd = OutMessage.first BY <2>1, <2>3 DEF WinMMEnd
    <3>2. outSilent' = outSilent \cup {OutNumber} BY <1>1, <2>3
    <3> QED BY <1>0, <1>1, <2>2, <2>3, <3>1, <3>2, CutStays
  <2>4. CASE ~(WinMMEnd < OutMessage.size)
    <3>1. WinMMEnd \in Nat /\ (OutMessage.first <= OutMessage.size => WinMMEnd = OutMessage.size)
      BY <2>1, <2>4 DEF WinMMEnd
    <3>2. UNCHANGED outSilent BY <1>1, <2>4
    <3> QED BY <1>0, <1>1, <2>2, <3>1, <3>2, SentAtOnceStays
  <2> QED BY <2>3, <2>4
<1>2. CASE Fault /\ Throws /\ UNCHANGED <<outWire, outSilent>> BY <1>0, <1>2, ThrownStays
<1> QED BY <1>0, <1>1, <1>2

LEMMA UwpSendsStays == OutInv /\ UwpSends => OutInv'
<1> SUFFICES ASSUME OutInv, UwpSends PROVE OutInv' OBVIOUS
<1>1. CASE outWire' = Append(outWire, Piece(OutNumber, 0, OutMessage.size)) /\ Returns /\ UNCHANGED <<outSaid, outFaults>>
  <2>1. OutMessage.size \in Nat BY UnderWay DEF UwpSends
  <2> QED BY <1>1, <2>1, SentAtOnceStays DEF UwpSends
<1>2. CASE Fault /\ Throws /\ UNCHANGED outWire BY <1>2, ThrownStays DEF UwpSends
<1> QED BY <1>1, <1>2 DEF UwpSends

\* It is dropped without a word.
LEMMA DroppedStays ==
  ASSUME OutInv, Running, outApi \in {"jack", "android", "web"}, outSilent' = outSilent \cup {OutNumber},
         outFaults' \in Nat, Returns, UNCHANGED <<outApi, outSent, outCoder, outPending, outWire, outSaid>>
  PROVE  OutInv'
<1>1. outJob' = OutIdle /\ outShown' = outShown \cup {OutNumber} BY DEF Returns
<1>2. Pieces' = Pieces /\ \A n : Known(n)' <=> Known(n) \/ n = OutNumber BY DEF Pieces, Known
<1> QED BY <1>1, <1>2, UnderWay, NoPieceStays

LEMMA UncheckedSendsStays == OutInv /\ UncheckedSends => OutInv'
<1> SUFFICES ASSUME OutInv, UncheckedSends PROVE OutInv' OBVIOUS
<1>1. Running /\ outApi \in {"android", "web"} /\ Returns /\ UNCHANGED <<outApi, outSent, outCoder, outPending, outSaid>>
  BY DEF UncheckedSends
<1>2. OutMessage.size \in Nat /\ outFaults \in Nat BY <1>1, UnderWay
<1>3. CASE outWire' = Append(outWire, Piece(OutNumber, 0, OutMessage.size)) /\ UNCHANGED <<outSilent, outFaults>>
  BY <1>1, <1>2, <1>3, SentAtOnceStays
<1>4. CASE Fault /\ outSilent' = outSilent \cup {OutNumber} /\ UNCHANGED outWire
  <2>1. outFaults' \in Nat BY <1>2, <1>4 DEF Fault
  <2> QED BY <1>1, <1>4, <2>1, DroppedStays
<1> QED BY <1>3, <1>4 DEF UncheckedSends

LEMMA JackDropsStays == OutInv /\ JackDrops => OutInv'
<1> SUFFICES ASSUME OutInv, JackDrops PROVE OutInv' OBVIOUS
<1>1. outFaults' \in Nat BY UnderWay DEF JackDrops
<1> QED BY <1>1, DroppedStays DEF JackDrops

LEMMA JackWritesStays == OutInv /\ JackWrites => OutInv'
<1> SUFFICES ASSUME OutInv, JackWrites PROVE OutInv' OBVIOUS
<1> DEFINE p == Piece(OutNumber, 0, OutMessage.size)
<1>1. /\ Running /\ outApi = "jack" /\ outPending' = Append(outPending, p) /\ Returns
      /\ UNCHANGED <<outApi, outSent, outCoder, outWire, outSaid, outSilent, outFaults>>
  BY DEF JackWrites
<1>2. /\ p \in OutPiece /\ p.n = OutNumber /\ p.from = 0 /\ p.to = OutMessage.size /\ outJob = 0
      /\ outWire \in Seq(OutPiece) /\ outPending \in Seq(OutPiece) /\ OutMessage.size \in Nat
  BY <1>1, UnderWay
<1> HIDE DEF p
<1>3. outPending' \in Seq(OutPiece) /\ outWire' \in Seq(OutPiece) BY <1>1, <1>2
<1>4. Pieces' = Append(Pieces, p) BY <1>1, <1>2 DEF Pieces
<1> QED BY <1>1, <1>2, <1>3, <1>4, PieceStays

LEMMA JackProcessStays == OutInv /\ JackProcess => OutInv'
<1> SUFFICES ASSUME OutInv, JackProcess PROVE OutInv' OBVIOUS
<1>1. /\ outApi = "jack" /\ outPending # <<>> /\ outPending' = Tail(outPending)
      /\ UNCHANGED <<outApi, outSent, outJob, outCoder, outSaid, outShown>>
  BY DEF JackProcess
<1>2. outWire \in Seq(OutPiece) /\ outPending \in Seq(OutPiece) /\ outFaults \in Nat /\ MaxOut \in Nat
      /\ OutNumber \in Nat
  BY OutAssumption DEF OutInv, OutTypes, OutNumber
<1>3. /\ Head(outPending) \in OutPiece /\ Tail(outPending) \in Seq(OutPiece)
      /\ Append(outWire, Head(outPending)) \o Tail(outPending) = Pieces
      /\ Len(outWire) + 1 \in DOMAIN Pieces /\ Pieces[Len(outWire) + 1] = Head(outPending)
  BY <1>1, <1>2, PieceTaken DEF Pieces
<1>4. OutNumber' = OutNumber /\ OutMessage' = OutMessage BY <1>1 DEF OutNumber, OutMessage
<1>5. Running' = Running BY <1>1 DEF Running
<1>6. Reached' BY <1>1, <1>4, <1>5 DEF OutInv, Reached
<1>7. BufferHolds' /\ AlsaDrained' BY <1>1 DEF BufferHolds, AlsaDrained
<1>8. CASE outWire' = Append(outWire, Head(outPending)) /\ UNCHANGED <<outSilent, outFaults>>
  <2>1. Pieces' = Pieces BY <1>1, <1>3, <1>8 DEF Pieces
  <2>2. OutTypes' BY <1>1, <1>2, <1>3, <1>4, <1>8 DEF OutInv, OutTypes
  <2>3. \A n : Known(n)' <=> Known(n) BY <1>1, <1>8 DEF Known
  <2>4. LastOnes' BY <1>1, <1>4, <1>5, <1>8, <2>1 DEF OutInv, LastOnes, Known
  <2>5. SentWholeOrSaid' BY <1>1, <1>4, <1>5, <1>8, <2>1 DEF OutInv, SentWholeOrSaid, WholeIn, Pieces
  <2>6. BuiltOnesSpeak' BY <1>1, <1>8 DEF OutInv, BuiltOnesSpeak
  <2>7. Sequential(Pieces') BY <2>1 DEF OutInv
  <2> QED BY <1>6, <1>7, <2>2, <2>4, <2>5, <2>6, <2>7 DEF OutInv
<1>9. CASE Fault /\ outSilent' = outSilent \cup {Head(outPending).n} /\ UNCHANGED outWire
  <2>1. Pieces' = outWire \o Tail(outPending) /\ Pieces = outWire \o outPending BY <1>1, <1>9 DEF Pieces
  <2>2. Head(outPending).n \in 1..OutNumber
    <3>1. Head(outPending).n <= OutNumber BY <1>3 DEF OutInv, LastOnes
    <3>2. Head(outPending).n \in 1..MaxOut BY <1>3 DEF OutPiece
    <3> QED BY <1>2, <3>1, <3>2
  <2>3. OutTypes'
    <3>1. outFaults' \in Nat BY <1>2, <1>9 DEF Fault
    <3>2. outSilent' \subseteq 1..OutNumber BY <1>9, <2>2 DEF OutInv, OutTypes
    <3>3. outWire' \in Seq(OutPiece) /\ outPending' \in Seq(OutPiece) BY <1>1, <1>2, <1>3, <1>9
    <3> QED BY <1>1, <1>4, <3>1, <3>2, <3>3 DEF OutInv, OutTypes
  <2>4. \A n : Known(n)' <=> Known(n) \/ n = Head(outPending).n BY <1>1, <1>9 DEF Known
  <2>5. Sequential(Pieces') /\ \A j : Without(Pieces, j) => Without(Pieces', j)
    <3>1. Sequential(Pieces) /\ NoneBehind(Pieces, OutNumber + 1, 0)
      <4>1. \A i \in DOMAIN Pieces : Pieces[i].n <= OutNumber /\ Pieces[i].n \in Nat
        BY PieceNumbers DEF OutInv, LastOnes
      <4> QED BY <1>2, <4>1 DEF OutInv, NoneBehind
    <3> QED BY <1>1, <1>2, <2>1, <3>1, SequentialWithout
  <2>6. \A i \in DOMAIN Pieces' : \E j \in DOMAIN Pieces : Pieces'[i] = Pieces[j]
    <3> DEFINE s == outWire \o outPending
               t == outWire \o Tail(outPending)
    <3>1. /\ DOMAIN s = 1..Len(t) + 1 /\ DOMAIN t = 1..Len(t) /\ Len(t) \in Nat
          /\ \A i \in 1..Len(t) : t[i] = IF i <= Len(outWire) THEN s[i] ELSE s[i + 1]
      BY <1>1, <1>2, PieceTaken
    <3> HIDE DEF s, t
    <3>2. ASSUME NEW i \in DOMAIN t PROVE \E j \in DOMAIN s : t[i] = s[j]
      <4>1. i \in DOMAIN s /\ i + 1 \in DOMAIN s BY <3>1
      <4> QED BY <3>1, <4>1
    <3>3. Pieces' = t /\ Pieces = s BY <2>1 DEF s, t
    <3> QED BY <3>2, <3>3
  <2>7. LastOnes'
    <3>1. \A i \in DOMAIN Pieces' : Pieces'[i].n <= OutNumber BY <2>6 DEF OutInv, LastOnes
    <3>2. Running => /\ NoneBehind(Pieces', OutNumber, outJob) /\ Without(Pieces', OutNumber) /\ outJob = 0
      <4> SUFFICES ASSUME Running PROVE NoneBehind(Pieces', OutNumber, outJob) /\ Without(Pieces', OutNumber) /\ outJob = 0
        OBVIOUS
      <4>1. outJob = 0 BY <1>1, UnderWay
      <4>2. Without(Pieces, OutNumber) /\ NoneBehind(Pieces, OutNumber, outJob) BY <4>1 DEF OutInv, LastOnes
      <4>3. NoneBehind(Pieces', OutNumber, outJob) BY <2>6, <4>2 DEF NoneBehind
      <4> QED BY <2>5, <4>1, <4>2, <4>3
    <3> QED BY <1>1, <1>4, <1>5, <3>1, <3>2 DEF LastOnes
  <2>8. SentWholeOrSaid'
    <3> SUFFICES ASSUME NEW n \in DOMAIN outSent, n # OutNumber \/ ~Running, ~Known(n)', outSent[n].first <= outSent[n].size
                 PROVE  ReachesIn(n, outSent[n].size, Pieces')
      BY <1>1, <1>4, <1>5 DEF SentWholeOrSaid, WholeIn, Pieces, Known
    <3>1. ~Known(n) /\ n # Head(outPending).n
      <4>1. Known(n)' <=> Known(n) \/ n = Head(outPending).n BY <1>1, <1>9 DEF Known
      <4> QED BY <4>1
    <3>2. ReachesIn(n, outSent[n].size, Pieces) BY <3>1 DEF OutInv, SentWholeOrSaid, WholeIn, Pieces, Known
    <3> QED BY <1>1, <1>2, <2>1, <3>1, <3>2, OthersReachWithout
  <2>9. BuiltOnesSpeak' BY <1>1 DEF BuiltOnesSpeak
  <2> QED BY <1>6, <1>7, <2>3, <2>5, <2>7, <2>8, <2>9 DEF OutInv
<1> QED BY <1>8, <1>9 DEF JackProcess

LEMMA OutStep == OutInv /\ [OutNext]_outVars => OutInv'
<1> SUFFICES ASSUME OutInv, [OutNext]_outVars PROVE OutInv' OBVIOUS
<1>1. CASE UNCHANGED outVars
  BY <1>1 DEF outVars, OutInv, OutTypes, Reached, LastOnes, Running, OutNumber, OutMessage, Pieces, Known,
              SentWholeOrSaid, WholeIn, BuiltOnesSpeak, AlsaDrained, BufferHolds
<1>2. CASE OutNext
  BY <1>2, SendMessageStays, ResizeFailsStays, CorePacketStays, CoreThrowsStays, AlsaEventStays, AlsaWarnsStays,
     AlsaDrainStays, WinMMSendsStays, UwpSendsStays, UncheckedSendsStays, JackDropsStays, JackWritesStays,
     JackProcessStays DEF OutNext
<1> QED BY <1>1, <1>2

\* The variables keep their types, with every backend (MidiOut).
THEOREM MidiOutTypes == OutSpec => []OutTypeOK
<1>1. OutInv => OutTypeOK BY OutInvSuffices
<1> QED BY <1>1, OutStarts, OutStep, PTL DEF OutSpec

\* For any messages, sizes of packets and buffers, and any number of failing calls: a message
\* of SendMIDI reaches the system whole, after those before it, or waits in the ring of JACK or
\* after a drain of ALSA that failed, or somebody was told; only Windows cuts a short message of
\* two events, and the backends that are not built drop one, without a word; and ALSA has room
\* for what it copies (sendMessage of all backends, jackProcessOut).
THEOREM MidiGoesOut == OutSpec => []MidiOutSound
<1>1. OutInv => MidiOutSound BY OutInvSuffices
<1> QED BY <1>1, OutStarts, OutStep, PTL DEF OutSpec

-----------------------------------------------------------------------------
(* OTP: what a resend repairs, whatever was lost before.                   *)

\* Functions of some keys.
Tables(K, V) == UNION {[D -> V] : D \in SUBSET K}

LEMMA TableIs ==
  ASSUME NEW K, NEW V, NEW t
  PROVE  t \in Tables(K, V) <=> t \in [DOMAIN t -> V] /\ DOMAIN t \subseteq K
  BY DEF Tables

LEMMA WithTable ==
  ASSUME NEW K, NEW V, NEW t \in Tables(K, V), NEW x \in K, NEW y \in V
  PROVE  With(t, x, y) \in Tables(K, V)
<1>1. t \in [DOMAIN t -> V] /\ DOMAIN t \subseteq K BY TableIs
<1>2. With(t, x, y) \in [DOMAIN t \cup {x} -> V] BY <1>1 DEF With
<1>3. DOMAIN With(t, x, y) = DOMAIN t \cup {x} BY DEF With
<1> QED BY <1>1, <1>2, <1>3, TableIs

LEMMA WithValues ==
  ASSUME NEW t, NEW x, NEW y
  PROVE  /\ DOMAIN With(t, x, y) = DOMAIN t \cup {x}
         /\ With(t, x, y)[x] = y
         /\ \A z \in DOMAIN t : z # x => With(t, x, y)[z] = t[z]
  BY DEF With

LEMMA RestrictTable ==
  ASSUME NEW K, NEW V, NEW t \in Tables(K, V), NEW D, D \subseteq DOMAIN t
  PROVE  Restrict(t, D) \in Tables(K, V) /\ DOMAIN Restrict(t, D) = D
<1>1. t \in [DOMAIN t -> V] /\ DOMAIN t \subseteq K BY TableIs
<1>2. Restrict(t, D) \in [D -> V] BY <1>1 DEF Restrict
<1> QED BY <1>1, <1>2, TableIs

LEMMA EmptyTable ==
  ASSUME NEW K, NEW V
  PROVE  <<>> \in Tables(K, V)
<1>1. <<>> \in [{} -> V] OBVIOUS
<1> QED BY <1>1 DEF Tables

LEMMA FilledTable ==
  ASSUME NEW K, NEW V, NEW t \in Tables(K, V), t # <<>>
  PROVE  DOMAIN t # {}
<1>1. t \in [DOMAIN t -> V] BY TableIs
<1> SUFFICES ASSUME DOMAIN t = {} PROVE FALSE OBVIOUS
<1>2. <<>> \in [{} -> V] OBVIOUS
<1>3. t \in [{} -> V] BY <1>1
<1>4. \A a, b \in [{} -> V] : a = b OBVIOUS
<1> QED BY <1>2, <1>3, <1>4

\* What is sent: points of one system, with values of modules.
OtpValue == UNION {Range(m) : m \in OtpModules}
SentModules == UNION {[types -> OtpValue] : types \in (SUBSET ModuleType) \ {{}}}
SentPoint == [priority: OtpPriority, modules: SentModules]
OtpDatagrams ==
  {d \in [cid: OtpProducer, system: Listening, points: Tables(OtpFrame, SentPoint)] :
     d.points # <<>> /\ \A f \in DOMAIN d.points : f[1] = d.system}
SetTables == Tables(OtpFrame, OtpPointOf)

LEMMA FilterSound ==
  ASSUME NEW point \in OtpPointOf, NEW mods
  PROVE  /\ Filtered(point, mods) = [priority |-> point.priority,
                                     modules  |-> Restrict(point.modules, DOMAIN point.modules \cap mods)]
         /\ Filtered(point, mods).modules # <<>> => Filtered(point, mods) \in SentPoint
<1> DEFINE m == point.modules
           r == Restrict(m, DOMAIN m \cap mods)
<1>1. Filtered(point, mods) = [priority |-> point.priority, modules |-> r] BY DEF Filtered, OtpPointOf
<1>2. ASSUME r # <<>> PROVE r \in SentModules
  <2>1. m \in OtpModules /\ DOMAIN m \subseteq ModuleType BY OtpAssumption DEF OtpPointOf
  <2>2. \A t \in DOMAIN m : m[t] \in OtpValue BY <2>1 DEF OtpValue, Range
  <2>3. r \in [DOMAIN m \cap mods -> OtpValue] BY <2>2 DEF Restrict
  <2>4. DOMAIN m \cap mods # {}
    <3>1. <<>> \in [{} -> OtpValue] OBVIOUS
    <3> HIDE DEF r, m
    <3> QED BY <1>2, <2>3, <3>1
  <2> HIDE DEF r
  <2> QED BY <2>1, <2>3, <2>4 DEF SentModules
<1>3. point.priority \in OtpPriority BY DEF OtpPointOf
<1>4. Filtered(point, mods).modules = r BY <1>1
<1>5. Filtered(point, mods).modules # <<>> => Filtered(point, mods) \in SentPoint
  <2> HIDE DEF r
  <2> QED BY <1>1, <1>2, <1>3, <1>4 DEF SentPoint
<1> QED BY <1>1, <1>5

LEMMA DatagramFields ==
  ASSUME NEW p, NEW s, NEW points, NEW mods
  PROVE  Datagram(p, s, points, mods).cid = p /\ Datagram(p, s, points, mods).system = s
  BY DEF Datagram

LEMMA DatagramSound ==
  ASSUME NEW p \in OtpProducer, NEW s \in Listening, NEW points \in SetTables, NEW mods,
         Datagram(p, s, points, mods).points # <<>>
  PROVE  /\ Datagram(p, s, points, mods) \in OtpDatagrams
         /\ DOMAIN Datagram(p, s, points, mods).points \subseteq DOMAIN points
<1> DEFINE sent == [f \in {f \in DOMAIN points : f[1] = s} |-> Filtered(points[f], mods)]
           left == {f \in DOMAIN sent : sent[f].modules # <<>>}
           got  == Restrict(sent, left)
<1>1. Datagram(p, s, points, mods) = [cid |-> p, system |-> s, points |-> got] BY DEF Datagram
<1>2. points \in [DOMAIN points -> OtpPointOf] /\ DOMAIN points \subseteq OtpFrame BY TableIs DEF SetTables
<1>3. left \subseteq {f \in DOMAIN points : f[1] = s} OBVIOUS
<1>4. \A f \in left : sent[f] \in SentPoint BY <1>2, FilterSound
<1>5. got \in [left -> SentPoint]
  <2> HIDE DEF sent, left
  <2> QED BY <1>4 DEF Restrict
<1> HIDE DEF left, got
<1>6. got \in Tables(OtpFrame, SentPoint) /\ DOMAIN got = left BY <1>2, <1>3, <1>5, TableIs
<1> QED BY <1>1, <1>3, <1>6 DEF OtpDatagrams

\* Points of other systems make no difference.
LEMMA DatagramSame ==
  ASSUME NEW p, NEW s, NEW a, NEW b, NEW mods,
         {f \in DOMAIN a : f[1] = s} = {f \in DOMAIN b : f[1] = s},
         \A f \in DOMAIN a : f[1] = s => a[f] = b[f]
  PROVE  Datagram(p, s, a, mods) = Datagram(p, s, b, mods)
<1> DEFINE F == {f \in DOMAIN a : f[1] = s}
           S(t) == [f \in {f \in DOMAIN t : f[1] = s} |-> Filtered(t[f], mods)]
<1>1. S(a) = S(b) OBVIOUS
<1>2. \A t : Datagram(p, s, t, mods) =
       [cid |-> p, system |-> s,
        points |-> Restrict(S(t), {f \in DOMAIN S(t) : S(t)[f].modules # <<>>})]
  BY DEF Datagram
<1> HIDE DEF S
<1> QED BY <1>1, <1>2

LEMMA FirstIsOne ==
  ASSUME NEW d \in OtpDatagrams
  PROVE  FirstFrame(d.points) \in DOMAIN d.points
<1> DEFINE t == d.points
           numbers == {f[2] : f \in DOMAIN t}
<1>1. t \in Tables(OtpFrame, SentPoint) /\ t # <<>> BY DEF OtpDatagrams
<1>2. DOMAIN t # {} /\ DOMAIN t \subseteq OtpFrame BY <1>1, FilledTable, TableIs
<1>3. numbers \subseteq Nat /\ numbers # {} BY <1>2, OtpAssumption DEF OtpFrame
<1>4. PICK n \in numbers : TRUE BY <1>3
<1> DEFINE T == {m \in numbers : m <= n}
<1>5. T \subseteq 0..n /\ T # {} /\ n \in Nat BY <1>3, <1>4
<1>6. PICK m \in T : \A k \in T : m <= k
  <2> HIDE DEF T
  <2> QED BY <1>5, LeastNumber
<1>7. \A k \in numbers : m <= k BY <1>3, <1>5, <1>6
<1>8. PICK f \in DOMAIN t : f[2] = m BY <1>6
<1>9. \A g \in DOMAIN t : f[2] <= g[2] BY <1>7, <1>8
<1> HIDE DEF t
<1> QED BY <1>9 DEF FirstFrame, t

-----------------------------------------------------------------------------
(* What a turn of the consumer keeps: for each frame that it read first    *)
(* the last it read.                                                       *)
ReadTables == Tables(Listening \X OtpPoint, OtpStored)
ReadStates == [systems: ReadTables, recv: ReadTables]

PointRead(d) == [cid |-> d.cid, priority |-> d.points[FirstFrame(d.points)].priority,
                 modules |-> d.points[FirstFrame(d.points)].modules, expired |-> FALSE]

LEMMA StoredModules == OtpStored = [cid: OtpProducer, priority: OtpPriority, expired: BOOLEAN, modules: SentModules]
  BY DEF OtpStored, SentModules, OtpValue

LEMMA PointSound ==
  ASSUME NEW d \in OtpDatagrams
  PROVE  /\ FirstFrame(d.points) \in Listening \X OtpPoint
         /\ FirstFrame(d.points) \in DOMAIN d.points
         /\ PointRead(d) \in OtpStored
<1> DEFINE f == FirstFrame(d.points)
<1>1. f \in DOMAIN d.points BY FirstIsOne
<1>2. /\ d.points \in Tables(OtpFrame, SentPoint) /\ d.cid \in OtpProducer /\ d.system \in Listening
      /\ \A g \in DOMAIN d.points : g[1] = d.system
  BY DEF OtpDatagrams
<1>3. d.points \in [DOMAIN d.points -> SentPoint] /\ DOMAIN d.points \subseteq OtpFrame BY <1>2, TableIs
<1>4. f \in OtpFrame /\ d.points[f] \in SentPoint /\ f[1] \in Listening BY <1>1, <1>2, <1>3
<1> HIDE DEF f
<1>5. f \in Listening \X OtpPoint BY <1>4 DEF OtpFrame
<1>6. PointRead(d) \in OtpStored
  <2>1. PointRead(d) = [cid |-> d.cid, priority |-> d.points[f].priority,
                        modules |-> d.points[f].modules, expired |-> FALSE]
    BY DEF PointRead, f
  <2>2. d.points[f].priority \in OtpPriority /\ d.points[f].modules \in SentModules BY <1>4 DEF SentPoint
  <2> QED BY <1>2, <2>1, <2>2, StoredModules
<1> QED BY <1>1, <1>5, <1>6 DEF f

LEMMA ReadSound ==
  ASSUME NEW st \in ReadStates, NEW d \in OtpDatagrams
  PROVE  /\ Read(st, d) \in ReadStates
         /\ Read(st, d).recv = With(st.recv, FirstFrame(d.points), PointRead(d))
<1> DEFINE f == FirstFrame(d.points)
           new == PointRead(d)
<1>1. Read(st, d) = Merged(st, f, new) BY DEF Read, FromDatagram, PointRead
<1>2. f \in Listening \X OtpPoint /\ new \in OtpStored BY PointSound
<1>3. st.systems \in ReadTables /\ st.recv \in ReadTables BY DEF ReadStates
<1> HIDE DEF f, new
<1>4. With(st.systems, f, new) \in ReadTables /\ With(st.recv, f, new) \in ReadTables
  BY <1>2, <1>3, WithTable DEF ReadTables
<1>5. /\ Merged(st, f, new).systems \in {st.systems, With(st.systems, f, new)}
      /\ Merged(st, f, new).recv = With(st.recv, f, new)
      /\ Merged(st, f, new) = [systems |-> Merged(st, f, new).systems, recv |-> Merged(st, f, new).recv]
  BY DEF Merged
<1>6. Merged(st, f, new) \in ReadStates BY <1>3, <1>4, <1>5 DEF ReadStates
<1> QED BY <1>1, <1>5, <1>6 DEF f, new

LEMMA TickSteps ==
  ASSUME NEW systems \in ReadTables, NEW q \in Seq(OtpDatagrams)
  PROVE  \E g : /\ g \in [0..Len(q) -> ReadStates] /\ g[0] = [systems |-> systems, recv |-> <<>>]
                /\ \A n \in 1..Len(q) : g[n] = Read(g[n - 1], q[n])
                /\ TickTransform(systems, q) = g[Len(q)]
<1> DEFINE N == Len(q)
           o == [systems |-> systems, recv |-> <<>>]
           Goes(g) == g = [n \in 0..N |-> IF n = 0 THEN o ELSE Read(g[n - 1], q[n])]
           step == [n \in 1..N |-> [w \in ReadStates |-> Read(w, q[n])]]
           acc == CHOOSE g : Goes(g)
<1>1. N \in Nat /\ \A n \in 1..N : q[n] \in OtpDatagrams OBVIOUS
<1>2. o \in ReadStates BY EmptyTable DEF ReadStates, ReadTables
<1>3. \A w \in ReadStates, d \in OtpDatagrams : Read(w, d) \in ReadStates BY ReadSound
<1>4. step \in Steps(N, ReadStates) BY <1>1, <1>3 DEF Steps
<1> HIDE DEF o
<1>5. PICK g : Runs(g, N, ReadStates, o, step)
  <2> HIDE DEF step, N
  <2> QED BY <1>1, <1>2, <1>4, IterationExists
<1>6. Goes(g)
  <2>1. \A n \in 0..N : n # 0 => n \in 1..N /\ n - 1 \in 0..N BY <1>1
  <2>2. \A n \in 1..N : g[n - 1] \in ReadStates BY <1>1, <1>5 DEF Runs
  <2>3. \A n \in 1..N : step[n][g[n - 1]] = Read(g[n - 1], q[n]) BY <2>2
  <2> HIDE DEF step, N
  <2>4. \A n \in 0..N : g[n] = IF n = 0 THEN o ELSE Read(g[n - 1], q[n])
    BY <1>5, <2>1, <2>3 DEF Runs
  <2>5. g = [n \in 0..N |-> g[n]] BY <1>5 DEF Runs
  <2> QED BY <2>4, <2>5
<1>7. Goes(acc)
  <2> HIDE DEF Goes
  <2> QED BY <1>6
<1>8. TickTransform(systems, q) = acc[N] BY DEF TickTransform, o
<1> HIDE DEF acc
<1>9. acc[0] = o /\ \A n \in 1..N : acc[n] = Read(acc[n - 1], q[n]) BY <1>1, <1>7
<1>10. \A n \in 0..N : acc[n] \in ReadStates
  <2>1. \A n \in 1..N : acc[n - 1] \in ReadStates => acc[n] \in ReadStates BY <1>1, <1>3, <1>9
  <2> HIDE DEF N
  <2> QED BY <1>1, <1>2, <1>9, <2>1, IterationStays
<1>11. acc \in [0..N -> ReadStates]
  <2>1. acc = [n \in 0..N |-> acc[n]] BY <1>7
  <2> QED BY <1>10, <2>1
<1> QED BY <1>8, <1>9, <1>11 DEF o

\* A frame was read from a datagram.
ReadFrom(q, f, point) ==
  \E i \in 1..Len(q) : f = FirstFrame(q[i].points) /\ point.modules = q[i].points[f].modules

LEMMA TickReads ==
  ASSUME NEW systems \in ReadTables, NEW q \in Seq(OtpDatagrams), q # <<>>
  PROVE  LET st == TickTransform(systems, q)
             f  == FirstFrame(q[Len(q)].points)
         IN  /\ st.systems \in ReadTables
             /\ \A h \in DOMAIN st.recv : ReadFrom(q, h, st.recv[h])
             /\ f \in DOMAIN st.recv /\ st.recv[f].modules = q[Len(q)].points[f].modules
<1> DEFINE N == Len(q)
           st == TickTransform(systems, q)
           f == FirstFrame(q[Len(q)].points)
<1>1. N \in Nat \ {0} /\ \A n \in 1..N : q[n] \in OtpDatagrams OBVIOUS
<1>2. PICK g : /\ g \in [0..N -> ReadStates] /\ g[0] = [systems |-> systems, recv |-> <<>>]
               /\ \A n \in 1..N : g[n] = Read(g[n - 1], q[n])
               /\ st = g[N]
  BY TickSteps
<1> HIDE DEF st
<1>3. \A n \in 1..N : /\ g[n - 1] \in ReadStates
                      /\ g[n].recv = With(g[n - 1].recv, FirstFrame(q[n].points), PointRead(q[n]))
  <2> SUFFICES ASSUME NEW n \in 1..N
               PROVE  /\ g[n - 1] \in ReadStates
                      /\ g[n].recv = With(g[n - 1].recv, FirstFrame(q[n].points), PointRead(q[n]))
    OBVIOUS
  <2>1. n - 1 \in 0..N BY <1>1
  <2>2. g[n - 1] \in ReadStates BY <1>2, <2>1
  <2> QED BY <1>1, <1>2, <2>2, ReadSound
<1> DEFINE From(n) == \A h \in DOMAIN g[n].recv : ReadFrom(q, h, g[n].recv[h])
           T == {n \in 0..N : From(n)}
<1>4. 0 \in T
  <2>1. g[0].recv = <<>> BY <1>2
  <2>2. DOMAIN g[0].recv = {} BY <2>1
  <2> QED BY <2>2
<1>5. ASSUME NEW n \in 0..N, n # N, n \in T PROVE n + 1 \in T
  <2>1. n + 1 \in 1..N /\ n + 1 \in 0..N /\ (n + 1) - 1 = n BY <1>1, <1>5
  <2> DEFINE k == n + 1
             x == FirstFrame(q[k].points)
  <2>2. g[k].recv = With(g[n].recv, x, PointRead(q[k])) BY <1>3, <2>1
  <2>3. ASSUME NEW h \in DOMAIN g[k].recv PROVE ReadFrom(q, h, g[k].recv[h])
    <3>1. CASE h = x
      <4>1. g[k].recv[h] = PointRead(q[k]) BY <2>2, <3>1 DEF With
      <4>2. g[k].recv[h].modules = q[k].points[x].modules BY <4>1 DEF PointRead
      <4> QED BY <2>1, <3>1, <4>2 DEF ReadFrom
    <3>2. CASE h # x
      <4>1. h \in DOMAIN g[n].recv /\ g[k].recv[h] = g[n].recv[h] BY <2>2, <3>2 DEF With
      <4> QED BY <1>5, <4>1
    <3> QED BY <3>1, <3>2
  <2>4. From(n + 1) BY <2>3
  <2> HIDE DEF From
  <2> QED BY <2>1, <2>4
<1>6. From(N)
  <2>1. 0..N \subseteq T
    <3> HIDE DEF T, N
    <3> QED BY <1>1, <1>4, <1>5, InductionUpTo
  <2>2. N \in 0..N BY <1>1
  <2> QED BY <2>1, <2>2
<1>7. N \in 1..N BY <1>1
<1>8. st.recv = With(g[N - 1].recv, f, PointRead(q[N])) BY <1>2, <1>3, <1>7
<1>9. f \in DOMAIN st.recv /\ st.recv[f] = PointRead(q[N]) BY <1>8 DEF With
<1>10. st.recv[f].modules = q[N].points[f].modules BY <1>9 DEF PointRead
<1>11. st.systems \in ReadTables
  <2>1. N \in 0..N BY <1>1
  <2>2. st \in ReadStates BY <1>2, <2>1
  <2> QED BY <2>2 DEF ReadStates
<1> QED BY <1>2, <1>6, <1>9, <1>10, <1>11 DEF st

-----------------------------------------------------------------------------
(* The invariant: a producer's points of a system that are repaired are    *)
(* what all datagrams of it say that still wait.                           *)
OtpTyped ==
  /\ otpConsumers \in [OtpProducer -> Tables(OtpConsumer, OtpTypes)]
  /\ otpMods \in [OtpProducer -> SUBSET ModuleType]
  /\ otpPoints \in [OtpProducer -> SetTables]
  /\ otpSocket \in Seq(OtpDatagrams)
  /\ otpSystems \in ReadTables
  /\ otpHistory \in [sets: 0..MaxSets, repaired: SUBSET (OtpProducer \X OtpSystem)]

KnownPoints ==
  \A i \in 1..Len(otpSocket) : DOMAIN otpSocket[i].points \subseteq DOMAIN otpPoints[otpSocket[i].cid]

RepairedKept ==
  \A p \in OtpProducer, s \in Listening : <<p, s>> \in otpHistory.repaired =>
    /\ Resent(p, s).points # <<>>
    /\ \A i \in 1..Len(otpSocket) : otpSocket[i].cid = p /\ otpSocket[i].system = s => otpSocket[i] = Resent(p, s)

OtpInv == OtpTyped /\ KnownPoints /\ ModsFollow /\ RepairedKept /\ FirstRepaired

\* The point of the first frame was routed last.
FirstRouted(routed, points) ==
  LET f == FirstFrame(points)
  IN  \A t \in DOMAIN points[f].modules : t \in DOMAIN routed[f] /\ routed[f][t] = points[f].modules[t]

LEMMA RoutedFirst ==
  FirstRepaired <=>
    \A p \in OtpProducer, s \in Listening : Repaired(p, s) => FirstRouted(otpRouted, Resent(p, s).points)
  BY DEF FirstRepaired, FirstRouted, IsRouted

LEMMA OtpStarts == OtpInit => OtpInv
<1> SUFFICES ASSUME OtpInit PROVE OtpInv OBVIOUS
<1> USE DEF OtpInit
<1>1. OtpTyped
  <2>1. <<>> \in Tables(OtpConsumer, OtpTypes) /\ <<>> \in SetTables /\ <<>> \in ReadTables
    BY EmptyTable DEF SetTables, ReadTables
  <2>2. 0 \in 0..MaxSets /\ <<>> \in Seq(OtpDatagrams) BY OtpAssumption
  <2> QED BY <2>1, <2>2 DEF OtpTyped
<1>2. KnownPoints BY DEF KnownPoints
<1>3. ModsFollow BY DEF ModsFollow, Range
<1>4. RepairedKept /\ FirstRepaired BY DEF RepairedKept, FirstRepaired, Repaired
<1> QED BY <1>1, <1>2, <1>3, <1>4 DEF OtpInv

\* A step that routes nothing.
LEMMA NothingRouted ==
  ASSUME RepairedKept, FirstRepaired, otpRouted' = otpRouted,
         \A p \in OtpProducer, s \in Listening :
           <<p, s>> \in otpHistory'.repaired => <<p, s>> \in otpHistory.repaired /\ Resent(p, s)' = Resent(p, s),
         \A q \in OtpProducer : DOMAIN otpPoints[q] \subseteq DOMAIN otpPoints'[q],
         \A i \in 1..Len(otpSocket') :
           \/ i \in 1..Len(otpSocket) /\ otpSocket'[i] = otpSocket[i]
           \/ \A p \in OtpProducer, s \in Listening :
                <<p, s>> \in otpHistory'.repaired /\ otpSocket'[i].cid = p /\ otpSocket'[i].system = s
                  => otpSocket'[i] = Resent(p, s)'
  PROVE  RepairedKept' /\ FirstRepaired'
<1>1. RepairedKept'
  <2> SUFFICES ASSUME NEW p \in OtpProducer, NEW s \in Listening, <<p, s>> \in otpHistory'.repaired
               PROVE  /\ Resent(p, s)'.points # <<>>
                      /\ \A i \in 1..Len(otpSocket') :
                           otpSocket'[i].cid = p /\ otpSocket'[i].system = s => otpSocket'[i] = Resent(p, s)'
    BY DEF RepairedKept
  <2>1. <<p, s>> \in otpHistory.repaired /\ Resent(p, s)' = Resent(p, s) OBVIOUS
  <2>2. Resent(p, s).points # <<>> BY <2>1 DEF RepairedKept
  <2>3. ASSUME NEW i \in 1..Len(otpSocket'), otpSocket'[i].cid = p, otpSocket'[i].system = s
        PROVE  otpSocket'[i] = Resent(p, s)'
    <3>1. CASE i \in 1..Len(otpSocket) /\ otpSocket'[i] = otpSocket[i]
      BY <2>1, <2>3, <3>1 DEF RepairedKept
    <3>2. CASE ~(i \in 1..Len(otpSocket) /\ otpSocket'[i] = otpSocket[i])
      BY <2>3, <3>2
    <3> QED BY <3>1, <3>2
  <2> QED BY <2>1, <2>2, <2>3
<1>2. FirstRepaired'
  <2> SUFFICES ASSUME NEW p \in OtpProducer, NEW s \in Listening, Repaired(p, s)'
               PROVE  FirstRouted(otpRouted', Resent(p, s)'.points)
    BY DEF FirstRepaired, FirstRouted, IsRouted
  <2>1. Resent(p, s)' = Resent(p, s) /\ Repaired(p, s) BY DEF Repaired
  <2>2. FirstRouted(otpRouted, Resent(p, s).points) BY <2>1, RoutedFirst
  <2>3. otpRouted' = otpRouted OBVIOUS
  <2> QED BY <2>1, <2>2, <2>3
<1> QED BY <1>1, <1>2

LEMMA TypesTogether ==
  ASSUME NEW t \in Tables(OtpConsumer, OtpTypes)
  PROVE  UNION Range(t) \in SUBSET ModuleType
<1>1. t \in [DOMAIN t -> OtpTypes] BY TableIs
<1> QED BY <1>1, OtpAssumption DEF Range

\* The producer's steps on its consumers: nothing of it counts as repaired after them.
LEMMA AdvertStep ==
  ASSUME OtpInv, NEW p \in OtpProducer, OtpTyped',
         \A q \in OtpProducer : q # p => otpMods'[q] = otpMods[q] /\ otpConsumers'[q] = otpConsumers[q],
         otpMods'[p] = UNION Range(otpConsumers'[p]),
         otpHistory' = [otpHistory EXCEPT !.repaired = @ \ ({p} \X OtpSystem)],
         UNCHANGED <<otpPoints, otpSocket, otpSystems, otpRouted>>
  PROVE  OtpInv'
<1> USE DEF OtpInv
<1>1. KnownPoints' BY DEF KnownPoints
<1>2. ModsFollow' BY DEF ModsFollow
<1>3. otpHistory'.repaired = otpHistory.repaired \ ({p} \X OtpSystem) BY DEF OtpTyped
<1>4. ASSUME NEW q \in OtpProducer, NEW s \in Listening, <<q, s>> \in otpHistory'.repaired
      PROVE  <<q, s>> \in otpHistory.repaired /\ Resent(q, s)' = Resent(q, s)
  <2>1. s \in OtpSystem BY OtpAssumption
  <2>2. q # p BY <1>3, <1>4, <2>1
  <2> QED BY <1>3, <1>4, <2>2 DEF Resent
<1>5. RepairedKept' /\ FirstRepaired' BY <1>4, NothingRouted
<1> QED BY <1>1, <1>2, <1>5

LEMMA HandleAdvertKeeps ==
  ASSUME OtpInv, NEW p \in OtpProducer, NEW c \in OtpConsumer, NEW types \in OtpTypes,
         HandleAdvert(p, c, types)
  PROVE  OtpInv'
<1> DEFINE t == otpConsumers[p]
           old == IF c \in DOMAIN t THEN t[c] ELSE {}
<1>1. /\ c \notin DOMAIN t \/ old # types
      /\ otpConsumers' = [otpConsumers EXCEPT ![p] = With(@, c, types)]
      /\ otpMods' = IF old # types
                    THEN [otpMods EXCEPT ![p] = ModuleTypes(@, otpConsumers'[p])] ELSE otpMods
      /\ otpHistory' = [otpHistory EXCEPT !.repaired = @ \ ({p} \X OtpSystem)]
      /\ UNCHANGED <<otpPoints, otpSocket, otpSystems, otpRouted>>
  BY DEF HandleAdvert
<1>2. OtpTyped /\ ModsFollow BY DEF OtpInv
<1>3. t \in Tables(OtpConsumer, OtpTypes) BY <1>2 DEF OtpTyped
<1>4. otpConsumers'[p] = With(t, c, types) /\ With(t, c, types) \in Tables(OtpConsumer, OtpTypes)
  BY <1>1, <1>2, <1>3, WithTable DEF OtpTyped
<1>5. otpMods'[p] = UNION Range(otpConsumers'[p])
  <2>1. CASE old # types BY <1>1, <1>2, <2>1 DEF OtpTyped, ModuleTypes
  <2>2. CASE old = types
    <3>1. c \notin DOMAIN t /\ types = {} BY <1>1, <2>2
    <3>2. Range(With(t, c, types)) = Range(t) \cup {{}} BY <3>1 DEF Range, With
    <3>3. UNION Range(With(t, c, types)) = UNION Range(t) BY <3>2
    <3> QED BY <1>1, <1>2, <1>4, <2>2, <3>3 DEF ModsFollow
  <2> QED BY <2>1, <2>2
<1>6. otpMods'[p] \in SUBSET ModuleType BY <1>4, <1>5, TypesTogether
<1>7. \A q \in OtpProducer : q # p => otpMods'[q] = otpMods[q] /\ otpConsumers'[q] = otpConsumers[q]
  BY <1>1, <1>2 DEF OtpTyped
<1>8. OtpTyped'
  <2>1. otpMods' \in [OtpProducer -> SUBSET ModuleType] BY <1>1, <1>2, <1>6, <1>7 DEF OtpTyped
  <2>2. otpConsumers' \in [OtpProducer -> Tables(OtpConsumer, OtpTypes)] BY <1>1, <1>2, <1>4 DEF OtpTyped
  <2> QED BY <1>1, <1>2, <2>1, <2>2 DEF OtpTyped
<1> QED BY <1>1, <1>5, <1>7, <1>8, AdvertStep

LEMMA ExpireConsumerKeeps ==
  ASSUME OtpInv, NEW p \in OtpProducer, NEW c \in OtpConsumer, ExpireConsumer(p, c)
  PROVE  OtpInv'
<1> DEFINE t == otpConsumers[p]
           rest == Restrict(t, DOMAIN t \ {c})
<1>1. /\ c \in DOMAIN t
      /\ otpConsumers' = [otpConsumers EXCEPT ![p] = Restrict(@, DOMAIN @ \ {c})]
      /\ otpMods' = IF t[c] # {}
                    THEN [otpMods EXCEPT ![p] = ModuleTypes(@, otpConsumers'[p])] ELSE otpMods
      /\ otpHistory' = [otpHistory EXCEPT !.repaired = @ \ ({p} \X OtpSystem)]
      /\ UNCHANGED <<otpPoints, otpSocket, otpSystems, otpRouted>>
  BY DEF ExpireConsumer
<1>2. OtpTyped /\ ModsFollow BY DEF OtpInv
<1>3. t \in Tables(OtpConsumer, OtpTypes) BY <1>2 DEF OtpTyped
<1>4. otpConsumers'[p] = rest /\ rest \in Tables(OtpConsumer, OtpTypes)
  BY <1>1, <1>2, <1>3, RestrictTable DEF OtpTyped
<1>5. otpMods'[p] = UNION Range(otpConsumers'[p])
  <2>1. CASE t[c] # {} BY <1>1, <1>2, <2>1 DEF OtpTyped, ModuleTypes
  <2>2. CASE t[c] = {}
    <3>1. Range(t) = Range(rest) \cup {{}} BY <1>1, <2>2 DEF Range, Restrict
    <3>2. UNION Range(rest) = UNION Range(t) BY <3>1
    <3> QED BY <1>1, <1>2, <1>4, <2>2, <3>2 DEF ModsFollow
  <2> QED BY <2>1, <2>2
<1>6. otpMods'[p] \in SUBSET ModuleType BY <1>4, <1>5, TypesTogether
<1>7. \A q \in OtpProducer : q # p => otpMods'[q] = otpMods[q] /\ otpConsumers'[q] = otpConsumers[q]
  BY <1>1, <1>2 DEF OtpTyped
<1>8. OtpTyped'
  <2>1. otpMods' \in [OtpProducer -> SUBSET ModuleType] BY <1>1, <1>2, <1>6, <1>7 DEF OtpTyped
  <2>2. otpConsumers' \in [OtpProducer -> Tables(OtpConsumer, OtpTypes)] BY <1>1, <1>2, <1>4 DEF OtpTyped
  <2> QED BY <1>1, <1>2, <2>1, <2>2 DEF OtpTyped
<1> QED BY <1>1, <1>5, <1>7, <1>8, AdvertStep

\* What is on the socket after a producer has sent.
LEMMA SentSound ==
  ASSUME OtpTyped, NEW p \in OtpProducer, NEW points \in SetTables, Sent(Datagrams(p, points))
  PROVE  /\ otpSocket' \in Seq(OtpDatagrams)
         /\ \A i \in 1..Len(otpSocket') :
              \/ i \in 1..Len(otpSocket) /\ otpSocket'[i] = otpSocket[i]
              \/ \E s \in Listening : /\ otpSocket'[i] = Datagram(p, s, points, otpMods[p])
                                      /\ otpSocket'[i].points # <<>>
<1> DEFINE sending == Datagrams(p, points)
<1>1. PICK got \in SUBSET {d \in sending : d.system \in Listening} :
        \E arrived \in [1..Cardinality(got) -> got] : otpSocket' = otpSocket \o arrived
  BY DEF Sent
<1>2. PICK arrived \in [1..Cardinality(got) -> got] : otpSocket' = otpSocket \o arrived BY <1>1
<1>3. \A d \in sending : \E s \in OtpSystem :
        d = Datagram(p, s, points, otpMods[p]) /\ d.system = s /\ d.points # <<>>
  BY DatagramFields DEF Datagrams
<1>4. \A d \in got : \E s \in Listening : d = Datagram(p, s, points, otpMods[p]) /\ d.points # <<>>
  BY <1>1, <1>3
<1>5. got \subseteq OtpDatagrams BY <1>4, DatagramSound
<1>6. Cardinality(got) \in Nat
  <2> DEFINE f == [s \in OtpSystem |-> Datagram(p, s, points, otpMods[p])]
             T == {f[s] : s \in OtpSystem}
  <2>1. f \in Surjection(OtpSystem, T) BY DEF Surjection
  <2>2. IsFiniteSet(T)
    <3> HIDE DEF f, T
    <3> QED BY <2>1, FS_Surjection, OtpAssumption
  <2>3. got \in SUBSET T BY <1>3
  <2> HIDE DEF T
  <2>4. IsFiniteSet(got) BY <2>2, <2>3, FS_Subset
  <2> QED BY <2>4, FS_CardinalityType
<1> HIDE DEF sending
<1>7. otpSocket \in Seq(OtpDatagrams) /\ arrived \in Seq(OtpDatagrams) BY <1>5, <1>6 DEF OtpTyped
<1>8. /\ otpSocket' \in Seq(OtpDatagrams) /\ Len(otpSocket') = Len(otpSocket) + Len(arrived)
      /\ Len(otpSocket) \in Nat /\ Len(arrived) \in Nat
  BY <1>2, <1>7
<1>9. ASSUME NEW i \in 1..Len(otpSocket')
      PROVE  \/ i \in 1..Len(otpSocket) /\ otpSocket'[i] = otpSocket[i]
             \/ \E k \in 1..Len(arrived) : otpSocket'[i] = arrived[k]
  <2>1. CASE i <= Len(otpSocket) BY <1>2, <1>7, <1>8, <2>1
  <2>2. CASE i > Len(otpSocket)
    <3>1. i - Len(otpSocket) \in 1..Len(arrived) BY <1>8, <2>2
    <3>2. otpSocket'[i] = arrived[i - Len(otpSocket)] BY <1>2, <1>7, <1>8, <2>2
    <3> QED BY <3>1, <3>2
  <2> QED BY <1>8, <2>1, <2>2
<1>10. \A k \in 1..Len(arrived) : arrived[k] \in got BY <1>6
<1> QED BY <1>4, <1>8, <1>9, <1>10

LEMMA SetPointKeeps ==
  ASSUME OtpInv, NEW p \in OtpProducer, NEW f \in OtpFrame, NEW point \in OtpPointOf, SetPoint(p, f, point)
  PROVE  OtpInv'
<1> DEFINE single == With(<<>>, f, point)
<1>1. /\ otpHistory.sets < MaxSets
      /\ otpPoints' = [otpPoints EXCEPT ![p] = With(@, f, point)]
      /\ Sent(Datagrams(p, single))
      /\ otpHistory' = [sets |-> otpHistory.sets + 1, repaired |-> otpHistory.repaired \ {<<p, f[1]>>}]
      /\ UNCHANGED <<otpConsumers, otpMods, otpSystems, otpRouted>>
  BY DEF SetPoint
<1>2. OtpTyped /\ KnownPoints /\ ModsFollow /\ RepairedKept /\ FirstRepaired BY DEF OtpInv
<1>3. single \in SetTables /\ DOMAIN single = {f}
  <2>1. <<>> \in SetTables /\ DOMAIN <<>> = {} BY EmptyTable DEF SetTables
  <2>2. DOMAIN single = {f} BY <2>1 DEF With
  <2>3. single \in SetTables BY <2>1, WithTable DEF SetTables
  <2> QED BY <2>2, <2>3
<1> HIDE DEF single
<1>4. /\ otpSocket' \in Seq(OtpDatagrams)
      /\ \A i \in 1..Len(otpSocket') :
           \/ i \in 1..Len(otpSocket) /\ otpSocket'[i] = otpSocket[i]
           \/ \E s \in Listening : /\ otpSocket'[i] = Datagram(p, s, single, otpMods[p])
                                   /\ otpSocket'[i].points # <<>>
  BY <1>1, <1>2, <1>3, SentSound
<1>5. otpPoints \in [OtpProducer -> SetTables] BY <1>2 DEF OtpTyped
<1>6. otpPoints'[p] = With(otpPoints[p], f, point) /\ \A q \in OtpProducer : q # p => otpPoints'[q] = otpPoints[q]
  BY <1>1, <1>5
<1>7. otpPoints' \in [OtpProducer -> SetTables]
  <2>1. With(otpPoints[p], f, point) \in SetTables BY <1>5, WithTable DEF SetTables
  <2> QED BY <1>1, <1>5, <2>1
<1>8. OtpTyped'
  <2>1. otpHistory' \in [sets: 0..MaxSets, repaired: SUBSET (OtpProducer \X OtpSystem)]
    BY <1>1, <1>2, OtpAssumption DEF OtpTyped
  <2> QED BY <1>1, <1>2, <1>4, <1>7, <2>1 DEF OtpTyped
<1>9. \A q \in OtpProducer : DOMAIN otpPoints[q] \subseteq DOMAIN otpPoints'[q]
  <2>1. DOMAIN With(otpPoints[p], f, point) = DOMAIN otpPoints[p] \cup {f} BY WithValues
  <2> QED BY <1>6, <2>1
<1>10. f \in DOMAIN otpPoints'[p] BY <1>6 DEF With
\* The datagrams of the step.
<1>11. ASSUME NEW i \in 1..Len(otpSocket'), NEW s \in Listening, otpSocket'[i] = Datagram(p, s, single, otpMods[p]),
              otpSocket'[i].points # <<>>
       PROVE  /\ otpSocket'[i].cid = p /\ otpSocket'[i].system = f[1]
              /\ DOMAIN otpSocket'[i].points \subseteq {f}
  <2> DEFINE d == otpSocket'[i]
  <2>1. d \in OtpDatagrams /\ DOMAIN d.points \subseteq {f} BY <1>3, <1>11, DatagramSound
  <2>2. FirstFrame(d.points) \in DOMAIN d.points BY <2>1, FirstIsOne
  <2>3. \A g \in DOMAIN d.points : g[1] = d.system BY <2>1 DEF OtpDatagrams
  <2>4. d.system = f[1]
    <3> HIDE DEF d
    <3> QED BY <2>1, <2>2, <2>3
  <2>5. d.cid = p BY <1>11, DatagramFields
  <2> QED BY <2>1, <2>4, <2>5
<1>12. KnownPoints'
  <2> SUFFICES ASSUME NEW i \in 1..Len(otpSocket')
               PROVE  DOMAIN otpSocket'[i].points \subseteq DOMAIN otpPoints'[otpSocket'[i].cid]
    BY DEF KnownPoints
  <2>1. CASE i \in 1..Len(otpSocket) /\ otpSocket'[i] = otpSocket[i]
    <3>1. otpSocket[i] \in OtpDatagrams BY <1>2, <2>1 DEF OtpTyped
    <3>2. otpSocket[i].cid \in OtpProducer BY <3>1 DEF OtpDatagrams
    <3>3. DOMAIN otpSocket[i].points \subseteq DOMAIN otpPoints[otpSocket[i].cid] BY <1>2, <2>1 DEF KnownPoints
    <3> QED BY <1>9, <2>1, <3>2, <3>3
  <2>2. CASE ~(i \in 1..Len(otpSocket) /\ otpSocket'[i] = otpSocket[i])
    <3>1. otpSocket'[i].cid = p /\ DOMAIN otpSocket'[i].points \subseteq {f} BY <1>4, <1>11, <2>2
    <3> QED BY <1>10, <3>1
  <2> QED BY <2>1, <2>2
<1>13. otpHistory'.repaired = otpHistory.repaired \ {<<p, f[1]>>} BY <1>1
<1>14. ASSUME NEW q \in OtpProducer, NEW s \in Listening, <<q, s>> \in otpHistory'.repaired
       PROVE  <<q, s>> \in otpHistory.repaired /\ Resent(q, s)' = Resent(q, s)
  <2>1. <<q, s>> \in otpHistory.repaired /\ <<q, s>> # <<p, f[1]>> BY <1>13, <1>14
  <2>2. CASE q # p BY <1>1, <1>6, <2>1, <2>2 DEF Resent
  <2>3. CASE q = p
    <3>1. f[1] # s BY <2>1, <2>3
    <3>2. {g \in DOMAIN otpPoints[p] : g[1] = s} = {g \in DOMAIN otpPoints'[p] : g[1] = s}
      BY <1>6, <3>1 DEF With
    <3>3. \A g \in DOMAIN otpPoints[p] : g[1] = s => otpPoints[p][g] = otpPoints'[p][g]
      BY <1>6, <3>1 DEF With
    <3>4. Datagram(p, s, otpPoints[p], otpMods[p]) = Datagram(p, s, otpPoints'[p], otpMods[p])
      BY <3>2, <3>3, DatagramSame
    <3> QED BY <1>1, <2>1, <2>3, <3>4 DEF Resent
  <2> QED BY <2>2, <2>3
<1>15. ASSUME NEW i \in 1..Len(otpSocket'), ~(i \in 1..Len(otpSocket) /\ otpSocket'[i] = otpSocket[i]),
              NEW q \in OtpProducer, NEW s \in Listening,
              <<q, s>> \in otpHistory'.repaired, otpSocket'[i].cid = q, otpSocket'[i].system = s
       PROVE  otpSocket'[i] = Resent(q, s)'
  <2>1. q = p /\ s = f[1] BY <1>4, <1>11, <1>15
  <2> QED BY <1>13, <1>15, <2>1
<1>16. RepairedKept' /\ FirstRepaired' BY <1>1, <1>2, <1>9, <1>14, <1>15, NothingRouted
<1>17. ModsFollow' BY <1>1, <1>2 DEF ModsFollow
<1> QED BY <1>8, <1>12, <1>16, <1>17 DEF OtpInv

LEMMA TickResendKeeps ==
  ASSUME OtpInv, NEW p \in OtpProducer, TickResend(p)
  PROVE  OtpInv'
<1>1. /\ Sent(Datagrams(p, otpPoints[p]))
      /\ UNCHANGED <<otpConsumers, otpMods, otpPoints, otpSystems, otpRouted, otpHistory>>
  BY DEF TickResend
<1>2. OtpTyped /\ KnownPoints /\ ModsFollow /\ RepairedKept /\ FirstRepaired BY DEF OtpInv
<1>3. otpPoints[p] \in SetTables BY <1>2 DEF OtpTyped
<1>4. /\ otpSocket' \in Seq(OtpDatagrams)
      /\ \A i \in 1..Len(otpSocket') :
           \/ i \in 1..Len(otpSocket) /\ otpSocket'[i] = otpSocket[i]
           \/ \E s \in Listening : /\ otpSocket'[i] = Datagram(p, s, otpPoints[p], otpMods[p])
                                   /\ otpSocket'[i].points # <<>>
  BY <1>1, <1>2, <1>3, SentSound
<1>5. OtpTyped' BY <1>1, <1>2, <1>4 DEF OtpTyped
<1>6. KnownPoints'
  <2> SUFFICES ASSUME NEW i \in 1..Len(otpSocket')
               PROVE  DOMAIN otpSocket'[i].points \subseteq DOMAIN otpPoints'[otpSocket'[i].cid]
    BY DEF KnownPoints
  <2>1. CASE i \in 1..Len(otpSocket) /\ otpSocket'[i] = otpSocket[i] BY <1>1, <1>2, <2>1 DEF KnownPoints
  <2>2. CASE ~(i \in 1..Len(otpSocket) /\ otpSocket'[i] = otpSocket[i])
    <3>1. PICK s \in Listening : otpSocket'[i] = Datagram(p, s, otpPoints[p], otpMods[p]) /\ otpSocket'[i].points # <<>>
      BY <1>4, <2>2
    <3>2. DOMAIN otpSocket'[i].points \subseteq DOMAIN otpPoints[p] /\ otpSocket'[i].cid = p
      BY <1>3, <3>1, DatagramSound, DatagramFields
    <3> QED BY <1>1, <3>2
  <2> QED BY <2>1, <2>2
<1>7. \A q \in OtpProducer, s \in Listening : Resent(q, s)' = Resent(q, s) BY <1>1 DEF Resent
<1>8. ASSUME NEW i \in 1..Len(otpSocket'), ~(i \in 1..Len(otpSocket) /\ otpSocket'[i] = otpSocket[i]),
             NEW q \in OtpProducer, NEW s \in Listening, otpSocket'[i].cid = q, otpSocket'[i].system = s
      PROVE  otpSocket'[i] = Resent(q, s)'
  <2>1. PICK u \in Listening : otpSocket'[i] = Datagram(p, u, otpPoints[p], otpMods[p]) BY <1>4, <1>8
  <2>2. q = p /\ s = u BY <1>8, <2>1, DatagramFields
  <2> QED BY <1>7, <2>1, <2>2 DEF Resent
<1>9. RepairedKept' /\ FirstRepaired' BY <1>1, <1>2, <1>7, <1>8, NothingRouted
<1>10. ModsFollow' BY <1>1, <1>2 DEF ModsFollow
<1> QED BY <1>5, <1>6, <1>9, <1>10 DEF OtpInv

LEMMA ExpirePointKeeps ==
  ASSUME OtpInv, NEW f \in OtpFrame, ExpirePoint(f)
  PROVE  OtpInv'
<1>1. /\ f \in DOMAIN otpSystems
      /\ otpSystems' = [otpSystems EXCEPT ![f].expired = TRUE]
      /\ UNCHANGED <<otpConsumers, otpMods, otpPoints, otpSocket, otpRouted, otpHistory>>
  BY DEF ExpirePoint
<1>2. OtpTyped /\ KnownPoints /\ ModsFollow /\ RepairedKept /\ FirstRepaired BY DEF OtpInv
<1>3. otpSystems' \in ReadTables
  <2>1. otpSystems \in [DOMAIN otpSystems -> OtpStored] /\ DOMAIN otpSystems \subseteq Listening \X OtpPoint
    BY <1>2, TableIs DEF OtpTyped, ReadTables
  <2>2. [otpSystems[f] EXCEPT !.expired = TRUE] \in OtpStored BY <1>1, <2>1, StoredModules
  <2>3. otpSystems' \in [DOMAIN otpSystems -> OtpStored] BY <1>1, <2>1, <2>2
  <2> QED BY <2>1, <2>3 DEF ReadTables, Tables
<1>4. OtpTyped' BY <1>1, <1>2, <1>3 DEF OtpTyped
<1>5. KnownPoints' /\ ModsFollow' BY <1>1, <1>2 DEF KnownPoints, ModsFollow
<1>6. \A q \in OtpProducer, s \in Listening : Resent(q, s)' = Resent(q, s) BY <1>1 DEF Resent
<1>7. RepairedKept' /\ FirstRepaired' BY <1>1, <1>2, <1>6, NothingRouted
<1> QED BY <1>4, <1>5, <1>7 DEF OtpInv

\* The turn of MainLoop: a whole resend that came last brings its first point up to date, and
\* what was up to date is only overwritten with itself.
LEMMA RecvOTPKeeps ==
  ASSUME OtpInv, NEW mute \in BOOLEAN, RecvOTP(mute)
  PROVE  OtpInv'
<1> DEFINE q == otpSocket
           st == TickTransform(otpSystems, q)
           whole == {ps \in OtpProducer \X OtpSystem : Last(q) = Resent(ps[1], ps[2]) /\ otpMods[ps[1]] # {}}
           f(p, s) == FirstFrame(Resent(p, s).points)
<1>1. /\ q # <<>>
      /\ otpSystems' = st.systems
      /\ otpRouted' = IF mute THEN otpRouted ELSE RoutedWith(otpRouted, st.recv)
      /\ otpHistory' = [otpHistory EXCEPT !.repaired = IF mute THEN @ ELSE @ \cup whole]
      /\ otpSocket' = <<>>
      /\ UNCHANGED <<otpConsumers, otpMods, otpPoints>>
  BY DEF RecvOTP
<1>2. OtpTyped /\ KnownPoints /\ ModsFollow /\ RepairedKept /\ FirstRepaired BY DEF OtpInv
<1>3. q \in Seq(OtpDatagrams) /\ otpSystems \in ReadTables /\ otpPoints \in [OtpProducer -> SetTables]
  BY <1>2 DEF OtpTyped
<1>4. /\ st.systems \in ReadTables
      /\ \A h \in DOMAIN st.recv : ReadFrom(q, h, st.recv[h])
      /\ FirstFrame(q[Len(q)].points) \in DOMAIN st.recv
      /\ st.recv[FirstFrame(q[Len(q)].points)].modules = q[Len(q)].points[FirstFrame(q[Len(q)].points)].modules
  BY <1>1, <1>3, TickReads
<1> HIDE DEF st
<1>5. /\ otpHistory'.repaired = IF mute THEN otpHistory.repaired ELSE otpHistory.repaired \cup whole
      /\ otpHistory' \in [sets: 0..MaxSets, repaired: SUBSET (OtpProducer \X OtpSystem)]
  <2>1. whole \subseteq OtpProducer \X OtpSystem OBVIOUS
  <2> HIDE DEF whole
  <2> QED BY <1>1, <1>2, <2>1 DEF OtpTyped
<1>6. OtpTyped'
  <2>1. <<>> \in Seq(OtpDatagrams) OBVIOUS
  <2> HIDE DEF whole
  <2> QED BY <1>1, <1>2, <1>4, <1>5, <2>1 DEF OtpTyped
<1>7. KnownPoints' /\ ModsFollow' BY <1>1, <1>2 DEF KnownPoints, ModsFollow
<1>8. \A p \in OtpProducer, s \in Listening : Resent(p, s)' = Resent(p, s) BY <1>1 DEF Resent
<1>9. Len(q) \in 1..Len(q) /\ Last(q) = q[Len(q)] /\ \A i \in 1..Len(q) : q[i] \in OtpDatagrams
  BY <1>1, <1>3 DEF Last
<1>10. ASSUME NEW p \in OtpProducer, NEW s \in Listening, <<p, s>> \in whole
       PROVE  Last(q) = Resent(p, s) /\ Resent(p, s).points # <<>>
  <2>1. Last(q) = Resent(p, s) BY <1>10
  <2> QED BY <1>9, <2>1 DEF OtpDatagrams
<1> HIDE DEF whole
<1>11. RepairedKept'
  <2>1. \A p \in OtpProducer, s \in Listening : <<p, s>> \in otpHistory'.repaired => Resent(p, s).points # <<>>
    BY <1>2, <1>5, <1>10 DEF RepairedKept
  <2>2. Len(otpSocket') = 0 BY <1>1
  <2> QED BY <1>8, <2>1, <2>2 DEF RepairedKept
<1>12. ASSUME mute PROVE FirstRepaired'
  <2>1. otpRouted' = otpRouted /\ otpHistory'.repaired = otpHistory.repaired BY <1>1, <1>5, <1>12
  <2>2. \A i \in 1..Len(otpSocket') : FALSE BY <1>1
  <2> QED BY <1>1, <1>2, <1>8, <2>1, <2>2, NothingRouted
<1>13. ASSUME ~mute, NEW p \in OtpProducer, NEW s \in Listening, Repaired(p, s)'
       PROVE  FirstRouted(otpRouted', Resent(p, s).points)
  <2> DEFINE points == Resent(p, s).points
             x == FirstFrame(points)
  <2>1. <<p, s>> \in otpHistory'.repaired /\ \A u \in OtpProducer \ {p} : \A g \in DOMAIN otpPoints[u] : g[1] # s
    BY <1>1, <1>13 DEF Repaired
  <2>2. points # <<>> BY <1>8, <1>11, <1>13, <2>1 DEF RepairedKept
  <2>3. Resent(p, s) \in OtpDatagrams BY <1>3, <2>2, DatagramSound DEF Resent
  <2>4. x \in DOMAIN points /\ x[1] = s /\ x \in OtpFrame
    <3>1. x \in DOMAIN points BY <2>3, FirstIsOne
    <3>2. Resent(p, s).system = s BY DatagramFields DEF Resent
    <3>3. points \in Tables(OtpFrame, SentPoint) /\ \A g \in DOMAIN points : g[1] = s BY <2>3, <3>2 DEF OtpDatagrams
    <3> HIDE DEF x, points
    <3> QED BY <3>1, <3>3, TableIs
  <2>5. otpRouted'[x] = IF x \in DOMAIN st.recv THEN Overlaid(st.recv[x].modules, otpRouted[x]) ELSE otpRouted[x]
    <3> HIDE DEF x
    <3> QED BY <1>1, <1>13, <2>4 DEF RoutedWith
  <2>6. ASSUME x \in DOMAIN st.recv, st.recv[x].modules = points[x].modules
        PROVE  FirstRouted(otpRouted', points)
    <3>1. otpRouted'[x] = Overlaid(points[x].modules, otpRouted[x]) BY <2>5, <2>6
    <3>2. \A t \in DOMAIN points[x].modules : t \in DOMAIN otpRouted'[x] /\ otpRouted'[x][t] = points[x].modules[t]
      <4> HIDE DEF x, points
      <4> QED BY <3>1 DEF Overlaid
    <3> HIDE DEF points
    <3> QED BY <3>2 DEF FirstRouted
  <2>7. CASE <<p, s>> \in whole
    <3>1. q[Len(q)] = Resent(p, s) BY <1>9, <1>10, <2>7
    <3> QED BY <1>4, <2>6, <3>1
  <2>8. CASE <<p, s>> \notin whole
    <3>1. <<p, s>> \in otpHistory.repaired /\ Repaired(p, s) BY <1>5, <2>1, <2>8 DEF Repaired
    <3>2. FirstRouted(otpRouted, points) BY <1>2, <3>1, RoutedFirst
    <3>3. CASE x \notin DOMAIN st.recv
      <4>1. otpRouted'[x] = otpRouted[x] BY <2>5, <3>3
      <4>2. \A t \in DOMAIN points[x].modules : t \in DOMAIN otpRouted[x] /\ otpRouted[x][t] = points[x].modules[t]
        <5> HIDE DEF points
        <5> QED BY <3>2 DEF FirstRouted
      <4>3. FirstRouted(otpRouted', points)
        <5> HIDE DEF points
        <5> QED BY <4>1, <4>2 DEF FirstRouted
      <4> QED BY <4>3
    <3>4. CASE x \in DOMAIN st.recv
      <4>1. PICK i \in 1..Len(q) : x = FirstFrame(q[i].points) /\ st.recv[x].modules = q[i].points[x].modules
        BY <1>4, <3>4 DEF ReadFrom
      <4>2. q[i] \in OtpDatagrams BY <1>9
      <4>3. x \in DOMAIN q[i].points BY <4>1, <4>2, FirstIsOne
      <4> HIDE DEF x, points
      <4>4. x[1] = q[i].system /\ q[i].cid \in OtpProducer BY <4>2, <4>3 DEF OtpDatagrams
      <4>5. x \in DOMAIN otpPoints[q[i].cid] BY <1>2, <4>3 DEF KnownPoints
      <4>6. q[i].system = s /\ q[i].cid = p BY <2>1, <2>4, <4>4, <4>5
      <4>7. q[i] = Resent(p, s) BY <1>2, <3>1, <4>6 DEF RepairedKept
      <4>8. st.recv[x].modules = points[x].modules BY <4>1, <4>7 DEF points
      <4> QED BY <2>6, <3>4, <4>8 DEF x, points
    <3> QED BY <3>3, <3>4
  <2> QED BY <2>7, <2>8
<1>14. FirstRepaired'
  <2>1. CASE mute BY <1>12, <2>1
  <2>2. CASE ~mute
    <3> SUFFICES ASSUME NEW p \in OtpProducer, NEW s \in Listening, Repaired(p, s)'
                 PROVE  FirstRouted(otpRouted', Resent(p, s)'.points)
      BY DEF FirstRepaired, FirstRouted, IsRouted
    <3>1. Resent(p, s)' = Resent(p, s) BY <1>8
    <3> QED BY <1>13, <2>2, <3>1
  <2> QED BY <2>1, <2>2
<1> QED BY <1>6, <1>7, <1>11, <1>14 DEF OtpInv

LEMMA OtpStep == OtpInv /\ [OtpNext]_otpVars => OtpInv'
<1> SUFFICES ASSUME OtpInv, [OtpNext]_otpVars PROVE OtpInv' OBVIOUS
<1>1. ASSUME NEW p \in OtpProducer, NEW c \in OtpConsumer, NEW types \in OtpTypes, HandleAdvert(p, c, types)
      PROVE  OtpInv'
  BY <1>1, HandleAdvertKeeps
<1>2. ASSUME NEW p \in OtpProducer, NEW c \in OtpConsumer, ExpireConsumer(p, c) PROVE OtpInv'
  BY <1>2, ExpireConsumerKeeps
<1>3. ASSUME NEW p \in OtpProducer, NEW f \in OtpFrame, NEW point \in OtpPointOf, SetPoint(p, f, point)
      PROVE  OtpInv'
  BY <1>3, SetPointKeeps
<1>4. ASSUME NEW p \in OtpProducer, TickResend(p) PROVE OtpInv' BY <1>4, TickResendKeeps
<1>5. ASSUME NEW mute \in BOOLEAN, RecvOTP(mute) PROVE OtpInv' BY <1>5, RecvOTPKeeps
<1>6. ASSUME NEW f \in OtpFrame, ExpirePoint(f) PROVE OtpInv' BY <1>6, ExpirePointKeeps
<1>7. CASE UNCHANGED otpVars
  <2> USE <1>7 DEF otpVars
  <2>1. OtpTyped' /\ KnownPoints' /\ ModsFollow' BY DEF OtpInv, OtpTyped, KnownPoints, ModsFollow
  <2>2. RepairedKept' BY DEF OtpInv, RepairedKept, Resent
  <2>3. FirstRepaired' BY DEF OtpInv, FirstRepaired, Repaired, IsRouted, Resent
  <2> QED BY <2>1, <2>2, <2>3 DEF OtpInv
<1> QED BY <1>1, <1>2, <1>3, <1>4, <1>5, <1>6, <1>7 DEF OtpNext

LEMMA OtpInvSuffices == OtpInv => OtpTypeOK /\ PointsFollow
<1> SUFFICES ASSUME OtpInv PROVE OtpTypeOK /\ PointsFollow OBVIOUS
<1>1. PointsFollow BY DEF OtpInv, PointsFollow
<1>2. OtpTyped BY DEF OtpInv
<1>3. ASSUME NEW p \in OtpProducer
      PROVE  /\ DOMAIN otpConsumers[p] \subseteq OtpConsumer /\ Range(otpConsumers[p]) \subseteq OtpTypes
             /\ otpMods[p] \subseteq ModuleType
             /\ DOMAIN otpPoints[p] \subseteq OtpFrame /\ Range(otpPoints[p]) \subseteq OtpPointOf
  <2>1. /\ otpConsumers[p] \in Tables(OtpConsumer, OtpTypes) /\ otpMods[p] \in SUBSET ModuleType
        /\ otpPoints[p] \in Tables(OtpFrame, OtpPointOf)
    BY <1>2 DEF OtpTyped, SetTables
  <2>2. \A K, V, t : t \in Tables(K, V) => DOMAIN t \subseteq K /\ Range(t) \subseteq V
    BY TableIs DEF Range
  <2> QED BY <2>1, <2>2
<1>4. DOMAIN otpSystems \subseteq Listening \X OtpPoint /\ Range(otpSystems) \subseteq OtpStored
  <2>1. otpSystems \in [DOMAIN otpSystems -> OtpStored] /\ DOMAIN otpSystems \subseteq Listening \X OtpPoint
    BY <1>2, TableIs DEF OtpTyped, ReadTables
  <2> QED BY <2>1 DEF Range
<1>5. otpHistory.sets \in 0..MaxSets /\ otpHistory.repaired \subseteq OtpProducer \X OtpSystem
  BY <1>2 DEF OtpTyped
<1>6. OtpTypeOK BY <1>3, <1>4, <1>5 DEF OtpTypeOK
<1> QED BY <1>1, <1>6

\* The variables keep their types (Otp).
THEOREM OtpTypesKept == OtpSpec => []OtpTypeOK
<1>1. OtpInv => OtpTypeOK BY OtpInvSuffices
<1> QED BY <1>1, OtpStarts, OtpStep, PTL DEF OtpSpec

\* For any producers, consumers, systems and points, and whatever datagrams are lost, expire or
\* are muted: a resend of a system brings its first point up to date, and the modules that a
\* producer sends are those that its consumers ask for (TickResend, FromDatagramTransform,
\* MergeTransform, RecvOTP, HandleAdvert, TickConsumers).
THEOREM PointsAreFollowed == OtpSpec => []PointsFollow
<1>1. OtpInv => PointsFollow BY OtpInvSuffices
<1> QED BY <1>1, OtpStarts, OtpStep, PTL DEF OtpSpec
===============================================================================
