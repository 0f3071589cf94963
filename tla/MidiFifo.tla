------------------------------ MODULE MidiFifo ------------------------------
(***************************************************************************)
(* What the queue between the thread that brings MIDI messages and the     *)
(* router's thread promises: messages come out once, whole and in order,   *)
(* and one is refused only while the queue is full.                        *)
(***************************************************************************)
EXTENDS Naturals, Sequences

CONSTANTS RingMessage, NoRingMessage, FifoSize

VARIABLES
  fifo,
  pushed,   \* whether the last message was accepted
  popped    \* the message that was taken last, or NoRingMessage

fifoVars == <<fifo, pushed, popped>>

FifoInit == fifo = <<>> /\ pushed = TRUE /\ popped = NoRingMessage

FifoPush(m) ==
  /\ Len(fifo) < FifoSize
  /\ fifo' = Append(fifo, m)
  /\ pushed' = TRUE
  /\ UNCHANGED popped

FifoRefuse ==
  /\ Len(fifo) = FifoSize
  /\ pushed' = FALSE
  /\ UNCHANGED <<fifo, popped>>

FifoPop ==
  /\ fifo # <<>>
  /\ popped' = Head(fifo)
  /\ fifo' = Tail(fifo)
  /\ UNCHANGED pushed

FifoEmpty ==
  /\ fifo = <<>>
  /\ popped' = NoRingMessage
  /\ UNCHANGED <<fifo, pushed>>

FifoNext == \/ \E m \in RingMessage : FifoPush(m)
            \/ FifoRefuse
            \/ FifoPop
            \/ FifoEmpty

FifoSpec == FifoInit /\ [][FifoNext]_fifoVars
=============================================================================
