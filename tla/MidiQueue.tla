------------------------------ MODULE MidiQueue -----------------------------
(***************************************************************************)
(* MidiInApi::MidiQueue: a ring that the system's MIDI thread pushes to and *)
(* the router's thread pops from, with no lock.  Each thread reads its own  *)
(* index and the other's, works on a slot, and moves its own index last.    *)
(* The steps are in the order of the program, as a processor with ordered   *)
(* stores has them.                                                         *)
(***************************************************************************)
EXTENDS Naturals, Sequences, FiniteSets

CONSTANTS
  RingMessage,
  NoRingMessage,
  Torn,       \* a slot while push copies a message to it
  RingSize    \* queueSizeLimit of RtMidiIn, 100 for the router

ASSUME RingAssumption ==
  /\ RingSize \in Nat \ {0}
  /\ NoRingMessage \notin RingMessage /\ Torn \notin RingMessage \cup {NoRingMessage}

VARIABLES
  ring, front, back,
  pusher,     \* [at, message]: what the MIDI thread does next
  popper,     \* [at, message]: what the router's thread does next
  pushed,     \* what push returned last
  popped      \* what pop brought last

ringVars == <<ring, front, back, pusher, popper, pushed, popped>>

RingInit ==
  /\ ring = [i \in 0..RingSize - 1 |-> NoRingMessage]
  /\ front = 0 /\ back = 0
  /\ pusher = [at |-> "idle", message |-> NoRingMessage]
  /\ popper = [at |-> "idle", message |-> NoRingMessage]
  /\ pushed = TRUE /\ popped = NoRingMessage

\* MidiQueue::size.
RingCount == IF back >= front THEN back - front ELSE RingSize - front + back

\* Mutant: the last slot is used as well.
HasRoomForAll(size) == size < RingSize
HasRoom(size) == size < RingSize - 1

\* push looks at the indexes, and either refuses or goes on.
PushStart(m) ==
  /\ pusher.at = "idle"
  /\ IF HasRoom(RingCount)
     THEN /\ pusher' = [at |-> "copy", message |-> m]
          /\ UNCHANGED pushed
     ELSE /\ pushed' = FALSE
          /\ UNCHANGED pusher
  /\ UNCHANGED <<ring, front, back, popper, popped>>

\* The vector of bytes is assigned in more than one step.
PushCopy ==
  /\ pusher.at = "copy"
  /\ ring' = [ring EXCEPT ![back] = Torn]
  /\ pusher' = [pusher EXCEPT !.at = "copied"]
  /\ UNCHANGED <<front, back, popper, pushed, popped>>

PushCopied ==
  /\ pusher.at = "copied"
  /\ ring' = [ring EXCEPT ![back] = pusher.message]
  /\ pusher' = [pusher EXCEPT !.at = "index"]
  /\ UNCHANGED <<front, back, popper, pushed, popped>>

PushIndex ==
  /\ pusher.at = "index"
  /\ back' = (back + 1) % RingSize
  /\ pushed' = TRUE
  /\ pusher' = [at |-> "idle", message |-> NoRingMessage]
  /\ UNCHANGED <<ring, front, popper, popped>>

PopStart ==
  /\ popper.at = "idle"
  /\ IF RingCount = 0
     THEN /\ popped' = NoRingMessage
          /\ UNCHANGED popper
     ELSE /\ popper' = [popper EXCEPT !.at = "copy"]
          /\ UNCHANGED popped
  /\ UNCHANGED <<ring, front, back, pusher, pushed>>

PopCopy ==
  /\ popper.at = "copy"
  /\ popper' = [at |-> "index", message |-> ring[front]]
  /\ UNCHANGED <<ring, front, back, pusher, pushed, popped>>

PopIndex ==
  /\ popper.at = "index"
  /\ front' = (front + 1) % RingSize
  /\ popped' = popper.message
  /\ popper' = [at |-> "idle", message |-> NoRingMessage]
  /\ UNCHANGED <<ring, back, pusher, pushed>>

RingNext ==
  \/ \E m \in RingMessage : PushStart(m)
  \/ PushCopy
  \/ PushCopied
  \/ PushIndex
  \/ PopStart
  \/ PopCopy
  \/ PopIndex

RingSpec == RingInit /\ [][RingNext]_ringVars

-----------------------------------------------------------------------------
(* Properties.                                                             *)
RingTypeOK ==
  /\ ring \in [0..RingSize - 1 -> RingMessage \cup {NoRingMessage, Torn}]
  /\ front \in 0..RingSize - 1 /\ back \in 0..RingSize - 1
  /\ pusher \in [at: {"idle", "copy", "copied", "index"}, message: RingMessage \cup {NoRingMessage}]
  /\ popper \in [at: {"idle", "copy", "index"}, message: RingMessage \cup {NoRingMessage}]
  /\ pushed \in BOOLEAN /\ popped \in RingMessage \cup {NoRingMessage}

\* What is in the ring, from front to back.
RingContents == [i \in 1..RingCount |-> ring[(front + i - 1) % RingSize]]

\* The ring is the queue of MidiFifo, whatever the two threads do at the same time: no
\* message is lost, repeated, reordered or half copied, and none is refused while there is
\* room (MidiQueue::push, pop, size).
Fifo == INSTANCE MidiFifo WITH fifo <- RingContents, FifoSize <- RingSize - 1,
                               pushed <- pushed, popped <- popped
RingIsFifo == Fifo!FifoSpec
=============================================================================
