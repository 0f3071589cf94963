------------------------------- MODULE MidiOut -------------------------------
(***************************************************************************)
(* MIDI output: how each backend of the rtmidi library brings the messages *)
(* of SendMIDI to the system, in one piece or in several, with every call  *)
(* that may fail.  A warning is printed and the caller goes on, an error   *)
(* throws.                                                                 *)
(*                                                                         *)
(* A message is its size and the size that its first status byte calls     *)
(* for; a piece of it is the bytes from one offset to another.             *)
(***************************************************************************)
EXTENDS Integers, Sequences, SequencesExt

CONSTANTS
  OutApis,       \* the backends: of "core", "alsa", "winmm", "uwp", "jack", "android", "web"
  OutMessages,   \* [size, first]: a first event of `first` bytes, and a second one if there are more
  PacketSize,    \* bytes of a packet of CoreMIDI, 65535 in the code
  ShortSize,     \* bytes of a short message of Windows, 3 in the code
  CoderSize,     \* bytes the buffer of ALSA starts with, 32 in the code
  JackSize,      \* buffMaxWrite
  JackHeader,    \* sizeof(nBytes)
  MaxOut,        \* bound on the messages
  MaxOutFaults   \* bound on the calls that fail

ASSUME OutAssumption ==
  /\ OutMessages \subseteq [size: Nat \ {0}, first: Nat \ {0}]
  /\ {PacketSize, ShortSize, CoderSize, JackSize, JackHeader} \subseteq Nat \ {0}
  /\ MaxOut \in Nat /\ MaxOutFaults \in Nat

VARIABLES
  outApi,
  outSent,     \* the messages that sendMessage was called with
  outJob,      \* "idle", or the offset that the running sendMessage has reached
  outCoder,    \* AlsaMidiData: [bufferSize, size]: what it says, and what the buffer has
  outPending,  \* pieces that ALSA has not drained, or that are in the ring of JACK
  outWire,     \* pieces that the system got, [n, from, to]
  outSaid,     \* numbers of the messages with a warning or an error
  outSilent,   \* numbers of the messages that were dropped or cut without one
  outShown,    \* numbers of the messages that are shown as activity
  outFaults

outVars == <<outApi, outSent, outJob, outCoder, outPending, outWire, outSaid, outSilent, outShown,
             outFaults>>

OutIdle == -1
Piece(n, from, to) == [n |-> n, from |-> from, to |-> to]

OutInit ==
  /\ outApi \in OutApis
  /\ outSent = <<>> /\ outJob = OutIdle
  /\ outCoder = [bufferSize |-> CoderSize, size |-> CoderSize]
  /\ outPending = <<>> /\ outWire = <<>>
  /\ outSaid = {} /\ outSilent = {} /\ outShown = {} /\ outFaults = 0

-----------------------------------------------------------------------------
Running == outJob # OutIdle
OutNumber == Len(outSent)
OutMessage == Last(outSent)
Fault == outFaults < MaxOutFaults /\ outFaults' = outFaults + 1

\* sendMessage returns, and SendMIDI shows the activity.
Returns == outJob' = OutIdle /\ outShown' = outShown \cup {OutNumber}

\* It throws an error, which SendMIDI logs.
Throws == outJob' = OutIdle /\ outSaid' = outSaid \cup {OutNumber} /\ UNCHANGED outShown

\* Mutant: what fails is given up without a word.
WarnsNot == UNCHANGED outSaid

Warns == outSaid' = outSaid \cup {OutNumber}

\* SendMIDI calls sendMessage.  ALSA needs a buffer for the message, and says that it has one
\* before it knows.
Resized(m) == [bufferSize |-> m.size, size |-> m.size]
Called(m) ==
  /\ outSent' = Append(outSent, m) /\ outJob' = 0
  /\ outCoder' = IF outApi = "alsa" /\ m.size > outCoder.bufferSize THEN Resized(m) ELSE outCoder
  /\ UNCHANGED <<outApi, outPending, outWire, outSaid, outSilent, outShown, outFaults>>

SendMessage(m) == ~Running /\ OutNumber < MaxOut /\ Called(m)

ResizeFails(m) ==
  /\ ~Running /\ OutNumber < MaxOut /\ outApi = "alsa" /\ m.size > outCoder.bufferSize
  /\ Fault
  /\ outSent' = Append(outSent, m)
  /\ outCoder' = [outCoder EXCEPT !.bufferSize = m.size]
  /\ outSaid' = outSaid \cup {OutNumber + 1}
  /\ UNCHANGED <<outApi, outJob, outPending, outWire, outSilent, outShown>>

-----------------------------------------------------------------------------
(* CoreMIDI: packets of at most PacketSize bytes, one after another.        *)
PacketEnd == IF OutMessage.size - outJob > PacketSize THEN outJob + PacketSize ELSE OutMessage.size

Packet == Piece(OutNumber, outJob, PacketEnd)

\* A packet that does not reach the port is left out, and the next one is sent.
CorePacket ==
  /\ Running /\ outApi = "core"
  /\ \/ outWire' = Append(outWire, Packet) /\ UNCHANGED <<outSaid, outFaults>>
     \/ Fault /\ Warns /\ UNCHANGED outWire
  /\ IF PacketEnd = OutMessage.size THEN Returns ELSE outJob' = PacketEnd /\ UNCHANGED outShown
  /\ UNCHANGED <<outApi, outSent, outCoder, outPending, outSilent>>

\* There is no room for the packet in the list.
CoreThrows ==
  /\ Running /\ outApi = "core" /\ Fault /\ Throws
  /\ UNCHANGED <<outApi, outSent, outCoder, outPending, outWire, outSilent>>

-----------------------------------------------------------------------------
(* ALSA: the encoder makes events, which wait to be drained.                *)
EventEnd == IF outJob = 0 THEN OutMessage.first ELSE OutMessage.size

\* The next event goes to the output buffer.
AlsaEvent ==
  /\ Running /\ outApi = "alsa" /\ outJob < OutMessage.size /\ EventEnd <= OutMessage.size
  /\ outPending' = Append(outPending, Piece(OutNumber, outJob, EventEnd))
  /\ outJob' = EventEnd
  /\ UNCHANGED <<outApi, outSent, outCoder, outWire, outSaid, outSilent, outShown, outFaults>>

\* It is no complete event, or cannot be put out: the events before it stay where they are.
AlsaWarns ==
  /\ Running /\ outApi = "alsa" /\ outJob < OutMessage.size
  /\ IF EventEnd > OutMessage.size THEN UNCHANGED outFaults ELSE Fault
  /\ Warns /\ Returns
  /\ UNCHANGED <<outApi, outSent, outCoder, outPending, outWire, outSilent>>

\* Nobody looks at what becomes of the drain: what it has not written waits for the next one.
AlsaDrain ==
  /\ Running /\ outApi = "alsa" /\ outJob = OutMessage.size
  /\ \/ outWire' = outWire \o outPending /\ outPending' = <<>> /\ UNCHANGED outFaults
     \/ /\ Fault
        /\ \E written \in 0..Len(outPending) :
             /\ outWire' = outWire \o SubSeq(outPending, 1, written)
             /\ outPending' = SubSeq(outPending, written + 1, Len(outPending))
  /\ Returns
  /\ UNCHANGED <<outApi, outSent, outCoder, outSaid, outSilent>>

-----------------------------------------------------------------------------
(* The others send a message at once.                                       *)

\* A short message of Windows is one event, of as many bytes as its status calls for: those
\* that the message does not have are left over from before, what is behind it is not sent.
WinMMEnd == IF OutMessage.size <= ShortSize THEN OutMessage.first ELSE OutMessage.size
WinMMPiece == Piece(OutNumber, 0, WinMMEnd)

WinMMSends ==
  /\ Running /\ outApi = "winmm"
  /\ \/ /\ outWire' = Append(outWire, WinMMPiece) /\ Returns /\ UNCHANGED <<outSaid, outFaults>>
        /\ outSilent' = outSilent \cup (IF WinMMEnd < OutMessage.size THEN {OutNumber} ELSE {})
     \/ Fault /\ Throws /\ UNCHANGED <<outWire, outSilent>>
  /\ UNCHANGED <<outApi, outSent, outCoder, outPending>>

UwpSends ==
  /\ Running /\ outApi = "uwp"
  /\ \/ outWire' = Append(outWire, Piece(OutNumber, 0, OutMessage.size)) /\ Returns
        /\ UNCHANGED <<outSaid, outFaults>>
     \/ Fault /\ Throws /\ UNCHANGED outWire
  /\ UNCHANGED <<outApi, outSent, outCoder, outPending, outSilent>>

\* Android and the browser: nobody looks at what became of it.
UncheckedSends ==
  /\ Running /\ outApi \in {"android", "web"}
  /\ \/ outWire' = Append(outWire, Piece(OutNumber, 0, OutMessage.size)) /\ UNCHANGED <<outSilent, outFaults>>
     \/ Fault /\ outSilent' = outSilent \cup {OutNumber} /\ UNCHANGED outWire
  /\ Returns
  /\ UNCHANGED <<outApi, outSent, outCoder, outPending, outSaid>>

-----------------------------------------------------------------------------
(* JACK: a ring that the process callback of the server empties.            *)
RingUse == FoldLeft(LAMBDA used, p : used + JackHeader + p.to, 0, outPending)

JackDrops ==
  /\ Running /\ outApi = "jack" /\ OutMessage.size + JackHeader > JackSize
  /\ outSilent' = outSilent \cup {OutNumber}
  /\ Returns
  /\ UNCHANGED <<outApi, outSent, outCoder, outPending, outWire, outSaid, outFaults>>

\* It waits until there is room.
JackWrites ==
  /\ Running /\ outApi = "jack" /\ OutMessage.size + JackHeader <= JackSize
  /\ JackSize - RingUse >= JackHeader + OutMessage.size
  /\ outPending' = Append(outPending, Piece(OutNumber, 0, OutMessage.size))
  /\ Returns
  /\ UNCHANGED <<outApi, outSent, outCoder, outWire, outSaid, outSilent, outFaults>>

\* jackProcessOut for one message of the ring; one that the port has no room for is skipped.
JackProcess ==
  /\ outApi = "jack" /\ outPending # <<>>
  /\ \/ outWire' = Append(outWire, Head(outPending)) /\ UNCHANGED <<outSilent, outFaults>>
     \/ Fault /\ outSilent' = outSilent \cup {Head(outPending).n} /\ UNCHANGED outWire
  /\ outPending' = Tail(outPending)
  /\ UNCHANGED <<outApi, outSent, outJob, outCoder, outSaid, outShown>>

-----------------------------------------------------------------------------
OutNext ==
  \/ \E m \in OutMessages : SendMessage(m)
  \/ \E m \in OutMessages : ResizeFails(m)
  \/ CorePacket
  \/ CoreThrows
  \/ AlsaEvent
  \/ AlsaWarns
  \/ AlsaDrain
  \/ WinMMSends
  \/ UwpSends
  \/ UncheckedSends
  \/ JackDrops
  \/ JackWrites
  \/ JackProcess

OutSpec == OutInit /\ [][OutNext]_outVars

-----------------------------------------------------------------------------
(* Properties.                                                             *)
OutTypeOK ==
  /\ outApi \in OutApis /\ Range(outSent) \subseteq OutMessages
  /\ outJob = OutIdle \/ outJob \in 0..OutMessage.size
  /\ Range(outWire) \cup Range(outPending) \subseteq [n: 1..MaxOut, from: Nat, to: Nat]
  /\ outSaid \cup outSilent \cup outShown \subseteq 1..OutNumber

\* Among the pieces, those of message n lie side by side, and are its bytes 0 to `to` in their
\* order.
ReachesIn(n, to, pieces) ==
  \E first, last \in DOMAIN pieces :
    /\ first <= last /\ pieces[first].from = 0 /\ pieces[last].to = to
    /\ \A i \in DOMAIN pieces : pieces[i].n = n <=> i \in first..last
    /\ \A i \in first..(last - 1) : pieces[i].to = pieces[i + 1].from

WholeIn(n, pieces) == ReachesIn(n, outSent[n].size, pieces)

\* A message that is no more than complete events reaches the system whole, or waits in the
\* ring of JACK or at ALSA, unless somebody was told that it did not: with a warning or an
\* error of sendMessage, or with none at all where the backend does not look (the sendMessage
\* of all backends, jackProcessOut).
SentWholeOrSaid ==
  \A n \in DOMAIN outSent :
    (n # OutNumber \/ ~Running) /\ n \notin outSaid \cup outSilent /\ outSent[n].first <= outSent[n].size
      => WholeIn(n, outWire \o outPending)

\* Dropping without a word is left to the backends that CMake does not build, but for what is
\* behind the first event of a short message of Windows (MidiOutWinMM::sendMessage).
BuiltOnesSpeak ==
  \A n \in outSilent :
    \/ outApi \in {"jack", "android", "web"}
    \/ outApi = "winmm" /\ outSent[n].first < outSent[n].size /\ outSent[n].size <= ShortSize

\* Between two messages nothing waits at ALSA, unless a drain has failed that nobody looked at
\* or a warning was given (MidiOutAlsa::sendMessage).
AlsaDrained ==
  outApi = "alsa" /\ ~Running /\ outPending # <<>> => outFaults > 0 \/ outSaid # {}

\* Pieces reach the system in the order of the messages, also those that ALSA has left from a
\* message that failed.
PiecesInOrder ==
  LET pieces == outWire \o outPending
  IN  \A i, j \in DOMAIN pieces :
        i < j => \/ pieces[i].n < pieces[j].n
                 \/ pieces[i].n = pieces[j].n /\ pieces[i].to <= pieces[j].from

\* A message is copied into a buffer of its size, unless the buffer could not be made larger
\* before: ALSA's sendMessage has noted the new size all the same.
BufferHolds ==
  (outApi = "alsa" /\ Running /\ outCoder.bufferSize = outCoder.size) => OutMessage.size <= outCoder.size

\* A MIDI message goes out whole and in its turn, or somebody is told, but for short messages
\* of Windows and for what waits at ALSA after a drain that failed.
MidiOutSound == SentWholeOrSaid /\ BuiltOnesSpeak /\ AlsaDrained /\ PiecesInOrder /\ BufferHolds
=============================================================================
