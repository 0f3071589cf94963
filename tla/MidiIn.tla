------------------------------- MODULE MidiIn -------------------------------
(***************************************************************************)
(* MIDI input: from the events of the system to the messages that RecvMIDI *)
(* routes.  Each backend of the rtmidi library has a callback of its own   *)
(* that puts system exclusive messages, which come in parts, together      *)
(* again; CMake builds "core", "alsa" or "winmm".  MidiQueue has the queue *)
(* between the callback's thread and the router's, a sequence here.        *)
(*                                                                         *)
(* An event is one part of the message number `n` of the device.  Bytes    *)
(* are left out but for what tells them apart: the first part of a message *)
(* starts with a status byte, the last of an exclusive one ends with F7.   *)
(***************************************************************************)
EXTENDS Naturals, Sequences, FiniteSets, SequencesExt

CONSTANTS
  MidiBackends,
  MidiParts,      \* the numbers of parts that exclusive messages come in
  MidiQueueSize,  \* messages that the queue has room for
  MaxMidi         \* bound on the messages of the device

ASSUME MidiAssumption ==
  /\ MidiBackends \subseteq {"core", "alsa", "winmm", "uwp", "jack", "android", "web"}
  /\ MidiParts \subseteq Nat \ {0} /\ MidiQueueSize \in Nat /\ MaxMidi \in Nat

VARIABLES
  backend,
  midiPort,      \* "closed", "opening": before ignoreTypes, "open"
  device,        \* the last event of the message that the device is sending, or NoEvent
  sysex,         \* RtMidiInData::continueSysex
  bytes,         \* RtMidiInData::message.bytes
  midiQueue,
  midiRouted,    \* the messages that RecvMIDI has routed
  midiHistory    \* [sent, ended, cut, spoilt, refused, muted]: see MidiTypeOK

midiVars == <<backend, midiPort, device, sysex, bytes, midiQueue, midiRouted, midiHistory>>

NoEvent == [n |-> 0, part |-> 0, of |-> 0, type |-> "none"]
MidiEvent == [n: 1..MaxMidi, part: UNION {1..k : k \in MidiParts \cup {1}},
              of: MidiParts \cup {1}, type: {"short", "realtime", "sysex"}]
Ends(e) == e.part = e.of

MidiInit ==
  /\ backend \in MidiBackends
  /\ midiPort = "closed"
  /\ device = NoEvent
  /\ sysex = FALSE /\ bytes = <<>>
  /\ midiQueue = <<>> /\ midiRouted = <<>>
  /\ midiHistory = [sent |-> 0, ended |-> {}, cut |-> FALSE,
                    spoilt |-> {}, refused |-> {}, muted |-> {}]

-----------------------------------------------------------------------------
(* The callbacks: `st` is [sysex, bytes], `ignore` whether ignoreFlags are  *)
(* those of a new object, 7; `out` has the message for the queue, or none.  *)
Result(s, b, out) == [sysex |-> s, bytes |-> b, out |-> out]

\* What is ignored before ignoreTypes.
Ignored(ignore, e) == ignore /\ e.type # "short"

\* midiInputCallback of CoreMIDI.
CallbackCore(st, e, ignore) ==
  IF st.sysex
  THEN LET all  == IF ignore THEN st.bytes ELSE Append(st.bytes, e)
           ends == Ends(e) /\ e.type = "sysex"
       IN  IF ends /\ ~ignore THEN Result(FALSE, <<>>, <<all>>) ELSE Result(~ends, all, <<>>)
  ELSE IF e.part > 1 THEN Result(FALSE, st.bytes, <<>>)
  ELSE LET goesOn == e.type = "sysex" /\ ~Ends(e)
       IN  IF Ignored(ignore, e) THEN Result(goesOn, st.bytes, <<>>)
           ELSE IF goesOn THEN Result(TRUE, <<e>>, <<>>)
           ELSE Result(FALSE, <<>>, << <<e>> >>)

\* alsaMidiHandler.
CallbackAlsa(st, e, ignore) ==
  LET all    == IF st.sysex THEN Append(st.bytes, e) ELSE <<e>>
      goesOn == e.type = "sysex" /\ ~Ends(e)
  IN  IF Ignored(ignore, e) THEN Result(st.sysex, IF st.sysex THEN st.bytes ELSE <<>>, <<>>)
      ELSE Result(goesOn, all, IF goesOn THEN <<>> ELSE <<all>>)

\* midiInputCallback of Windows: every buffer is a message.
CallbackWinMM(st, e, ignore) ==
  IF Ignored(ignore, e) \/ (e.type # "sysex" /\ e.part > 1) THEN Result(FALSE, st.bytes, <<>>)
  ELSE Result(FALSE, <<>>, << Append(st.bytes, e) >>)

\* midi_in_callback of UWP, which gets messages from the system.
CallbackUwp(st, e, ignore) ==
  Result(FALSE, <<>>, IF Ignored(ignore, e) THEN <<>> ELSE << <<e>> >>)

\* Whether a message goes on after an event, for JACK and Android: a realtime byte, or what
\* is no exclusive message, does not end one.
GoesOn(st, e) ==
  IF (e.type = "sysex" /\ e.part = 1) \/ (st.sysex /\ e.type # "realtime")
  THEN ~(e.type = "sysex" /\ Ends(e)) ELSE st.sysex

\* jackProcessIn.
CallbackJack(st, e, ignore) ==
  LET old    == IF st.sysex THEN st.bytes ELSE <<>>
      within == st.sysex \/ (e.type = "sysex" /\ e.part = 1)
      all    == IF ignore /\ within THEN old ELSE Append(old, e)
      skips  == (ignore /\ (within \/ e.type = "realtime")) \/ GoesOn(st, e)
  IN  Result(GoesOn(st, e), all, IF skips THEN <<>> ELSE <<all>>)

\* pollMidi of Android: the message is a copy, the parts before are lost.
CallbackAndroid(st, e, ignore) ==
  Result(GoesOn(st, e), <<>>,
         IF GoesOn(st, e) \/ (ignore /\ (st.sysex \/ e.type # "short")) THEN <<>> ELSE << <<e>> >>)

\* rtmidi_onMidiMessageProc: without a callback of the user nothing is queued.
CallbackWeb(st, e, ignore) == Result(FALSE, <<e>>, <<>>)

Callback(st, e, ignore) ==
  CASE backend = "core"    -> CallbackCore(st, e, ignore)
    [] backend = "alsa"    -> CallbackAlsa(st, e, ignore)
    [] backend = "winmm"   -> CallbackWinMM(st, e, ignore)
    [] backend = "uwp"     -> CallbackUwp(st, e, ignore)
    [] backend = "jack"    -> CallbackJack(st, e, ignore)
    [] backend = "android" -> CallbackAndroid(st, e, ignore)
    [] OTHER               -> CallbackWeb(st, e, ignore)

\* Mutant: a full queue takes the place of its last message.
PushedOver(q, m) == IF Len(q) < MidiQueueSize THEN Append(q, m) ELSE Append(Front(q), m)

\* MidiQueue::push, of the results of a callback.
Pushed(q, m) == IF Len(q) < MidiQueueSize THEN Append(q, m) ELSE q

\* The message numbers of a sequence of events.
Numbers(m) == {m[i].n : i \in DOMAIN m}

\* The system hands an event to the callback if the port is open.
Delivered(e, h) ==
  IF midiPort = "closed"
  THEN /\ midiHistory' = h
       /\ UNCHANGED <<sysex, bytes, midiQueue>>
  ELSE \E r \in {Callback([sysex |-> sysex, bytes |-> bytes], e, midiPort = "opening")} :
         /\ sysex' = r.sysex /\ bytes' = r.bytes
         /\ midiQueue' = IF r.out = <<>> THEN midiQueue ELSE Pushed(midiQueue, r.out[1])
         /\ midiHistory' = [h EXCEPT !.refused = @ \cup
              IF r.out # <<>> /\ Len(midiQueue) = MidiQueueSize THEN Numbers(r.out[1]) ELSE {}]

-----------------------------------------------------------------------------
(* The device.                                                             *)

\* The first event of a message.  It is spoilt if the port is not open, or if it comes in the
\* middle of another one, which only messages of one realtime byte may.
DeviceSend(type, of) ==
  LET n == midiHistory.sent + 1
      e == [n |-> n, part |-> 1, of |-> of, type |-> type]
      within == device # NoEvent
  IN  /\ n <= MaxMidi
      /\ within => type = "realtime"
      /\ type # "sysex" => of = 1
      /\ device' = IF within \/ of = 1 THEN device ELSE e
      /\ Delivered(e, [midiHistory EXCEPT
           !.sent = n,
           !.ended = IF of = 1 THEN @ \cup {n} ELSE @,
           !.cut = @ /\ ~(type = "sysex" /\ of = 1),
           !.spoilt = @ \cup (IF within THEN {n, device.n} ELSE {})
                        \cup (IF midiPort = "open" /\ ~midiHistory.cut THEN {} ELSE {n})])
      /\ UNCHANGED <<backend, midiPort, midiRouted>>

\* The next part of an exclusive message.
DeviceContinue ==
  LET e == [device EXCEPT !.part = @ + 1]
  IN  /\ device # NoEvent
      /\ device' = IF Ends(e) THEN NoEvent ELSE e
      /\ Delivered(e, [midiHistory EXCEPT !.ended = IF Ends(e) THEN @ \cup {e.n} ELSE @,
                                          !.cut = @ /\ ~Ends(e)])
      /\ UNCHANGED <<backend, midiPort, midiRouted>>

\* The device is switched off in the middle of a message.  Some backends take what comes then
\* for more of it, until an exclusive message ends: that is spoilt, too.
DeviceStop ==
  /\ device # NoEvent
  /\ device' = NoEvent
  /\ midiHistory' = [midiHistory EXCEPT !.spoilt = @ \cup {device.n}, !.cut = midiPort # "closed"]
  /\ UNCHANGED <<backend, midiPort, sysex, bytes, midiQueue, midiRouted>>

-----------------------------------------------------------------------------
(* The router.                                                             *)

\* BuildMIDI: openPort; events reach the callback from now on.
OpenPort ==
  /\ midiPort = "closed"
  /\ midiPort' = "opening"
  /\ sysex' = FALSE /\ bytes' = <<>> /\ midiQueue' = <<>>
  /\ UNCHANGED <<backend, device, midiRouted, midiHistory>>

\* BuildMIDI: ignoreTypes, after openPort.
IgnoreTypes ==
  /\ midiPort = "opening"
  /\ midiPort' = "open"
  /\ midiHistory' = [midiHistory EXCEPT !.spoilt = @ \cup
       (IF device = NoEvent THEN {} ELSE {device.n})]
  /\ UNCHANGED <<backend, device, sysex, bytes, midiQueue, midiRouted>>

\* RecvMIDI takes one message of a port in a turn; with incoming muted it is dropped.
RecvMIDI(mute) ==
  /\ midiPort = "open" /\ midiQueue # <<>>
  /\ midiRouted' = IF mute THEN midiRouted ELSE Append(midiRouted, Head(midiQueue))
  /\ midiHistory' = [midiHistory EXCEPT !.muted = IF mute THEN @ \cup Numbers(Head(midiQueue)) ELSE @]
  /\ midiQueue' = Tail(midiQueue)
  /\ UNCHANGED <<backend, midiPort, device, sysex, bytes>>

\* The router stops: the inputs and what they have queued are gone.
ClosePort ==
  /\ midiPort = "open"
  /\ midiPort' = "closed"
  /\ sysex' = FALSE /\ bytes' = <<>> /\ midiQueue' = <<>>
  /\ midiHistory' = [midiHistory EXCEPT !.cut = FALSE, !.spoilt = @ \cup
       (IF device = NoEvent THEN {} ELSE {device.n}) \cup UNION {Numbers(m) : m \in Range(midiQueue)}]
  /\ UNCHANGED <<backend, device, midiRouted>>

MidiNext ==
  \/ \E type \in {"short", "realtime", "sysex"} : \E of \in MidiParts \cup {1} : DeviceSend(type, of)
  \/ DeviceContinue
  \/ DeviceStop
  \/ OpenPort
  \/ IgnoreTypes
  \/ \E mute \in BOOLEAN : RecvMIDI(mute)
  \/ ClosePort

MidiSpec == MidiInit /\ [][MidiNext]_midiVars

-----------------------------------------------------------------------------
(* Properties.                                                             *)
MidiTypeOK ==
  /\ backend \in MidiBackends /\ midiPort \in {"closed", "opening", "open"}
  /\ device \in MidiEvent \cup {NoEvent} /\ sysex \in BOOLEAN
  /\ Range(bytes) \subseteq MidiEvent
  /\ Len(midiQueue) <= MidiQueueSize
  /\ midiHistory.sent \in 0..MaxMidi /\ midiHistory.cut \in BOOLEAN
  /\ \A s \in {midiHistory.ended, midiHistory.spoilt, midiHistory.refused, midiHistory.muted} :
       s \subseteq 1..midiHistory.sent

\* The backends that put parts together.
Assembling == {"core", "alsa", "jack"}

Whole(m) ==
  /\ m # <<>> /\ Ends(Last(m))
  /\ \A i \in DOMAIN m : m[i].n = m[1].n /\ m[i].part = i

\* Every message that is routed is one message of the device, all of it, unless one of its
\* parts was sent while the port was opened or closed, or got another message in between
\* (the callbacks, ignoreTypes after openPort).
OnlySpoiltBroken ==
  backend \in Assembling =>
    \A m \in Range(midiRouted) : Whole(m) \/ Numbers(m) \cap midiHistory.spoilt # {}

\* As long as nothing was spoilt, every message the device has ended is routed, waits to be
\* routed, was dropped by the mute or refused by a full queue (the callbacks, MidiQueue).
NothingLost ==
  (backend \in Assembling /\ midiHistory.spoilt = {}) =>
    LET kept == midiRouted \o midiQueue
    IN  /\ midiHistory.ended = (UNION {Numbers(m) : m \in Range(kept)})
                               \cup midiHistory.refused \cup midiHistory.muted
        /\ \A i \in DOMAIN kept : kept[i][1].n \notin midiHistory.refused \cup midiHistory.muted

\* Messages are routed once and in the order in which the device sent them, in spite of all
\* interruptions (the callbacks, RecvMIDI).
RoutedInOrder ==
  \A i, j \in DOMAIN midiRouted :
    (i < j /\ Whole(midiRouted[i]) /\ Whole(midiRouted[j])) =>
      midiRouted[i][1].n < midiRouted[j][1].n

\* Nothing but what the driver spoilt is broken or lost on the way in of a MIDI message.
MidiDelivered == OnlySpoiltBroken /\ NothingLost /\ RoutedInOrder
=============================================================================
