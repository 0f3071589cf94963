------------------------------ MODULE MidiShow ------------------------------
(***************************************************************************)
(* MIDI Show Control between routers: SendMIDI makes the message of an OSC *)
(* packet /msc/<device>/<format>/<command>, RecvMIDI of the next router    *)
(* makes the packet of the message, and may send it on in turn.            *)
(*                                                                         *)
(* A text is a sequence of characters, a message a sequence of bytes; a    *)
(* missing part of the path is the end of it.                              *)
(***************************************************************************)
EXTENDS Naturals, Sequences, SequencesExt

CONSTANTS
  ShowPaths,   \* the <<device, format, command>> of the packets, or a beginning of one
  ShowTexts,   \* the arguments of the packets whose command has texts
  ShowNumbers, \* the arguments of the others
  MaxHops      \* bound on the routers that a packet goes through

VARIABLES
  showFirst,   \* the packet that was sent first
  showPacket,  \* the packet that a router has, [path, args], or NoShow
  showMidi,    \* the message on the cable, or <<>>
  showHops

showVars == <<showFirst, showPacket, showMidi, showHops>>

NoShow == [path |-> <<>>, args |-> <<>>]
SysEx == 240
SysExStart == 127
MSC == 2
SysExEnd == 247

-----------------------------------------------------------------------------
(* The commands.                                                           *)
CmdNames == <<"go", "pause", "resume", "timedGo", "set", "fader", "macro", "off">>

MSCCmdValue(cmd) == IF cmd = "off" THEN 10 ELSE CHOOSE i \in DOMAIN CmdNames : CmdNames[i] = cmd

\* The name of a value that is no command is the number of kCount.
MSCCmdName(value) ==
  CASE value = 10     -> "off"
    [] value \in 1..7 -> CmdNames[value]
    [] OTHER          -> "8"

MSCCmdStrings(cmd) == cmd \in {"go", "pause", "resume", "timedGo"}

\* The command that a packet names; go if it names none, or one that is not known.
MSCCmdForName(path) ==
  IF Len(path) > 2 /\ path[3] \in ToSet(CmdNames) THEN path[3] ELSE "go"

-----------------------------------------------------------------------------
(* The two conversions.                                                    *)

\* The texts of a packet with a zero between two of them, or its numbers.
ShowData(cmd, args) ==
  IF MSCCmdStrings(cmd)
  THEN LET texts == SelectSeq(args, LAMBDA a : a # <<>>)
       IN  FlattenSeq([i \in DOMAIN texts |-> IF i = 1 THEN texts[i] ELSE <<0>> \o texts[i]])
  ELSE [i \in DOMAIN args |-> args[i] % 256]

ShowMessage(packet) ==
  LET path == packet.path
      cmd  == MSCCmdForName(path)
  IN  <<SysEx, SysExStart, IF Len(path) > 0 THEN path[1] ELSE 1, MSC,
        IF Len(path) > 1 THEN path[2] ELSE 1, MSCCmdValue(cmd)>>
      \o ShowData(cmd, packet.args) \o <<SysExEnd>>

\* The bytes of a message behind its command, up to the first that ends it.
DataOf(message) ==
  LET ends == {i \in 7..Len(message) : message[i] = SysExEnd}
  IN  SubSeq(message, 7, IF ends = {} THEN Len(message)
                         ELSE (CHOOSE i \in ends : \A j \in ends : i <= j) - 1)

\* The texts between the zeros, without the empty ones.
TextsOf(data) ==
  LET zeros  == {0, Len(data) + 1} \cup {i \in DOMAIN data : data[i] = 0}
      starts == SetToSortSeq(zeros, LAMBDA a, b : a < b)
      texts  == [k \in 1..(Len(starts) - 1) |-> SubSeq(data, starts[k] + 1, starts[k + 1] - 1)]
  IN  SelectSeq(texts, LAMBDA t : t # <<>>)

IsShow(message) == Len(message) >= 8 /\ message[1] = SysEx /\ message[2] = SysExStart
                   /\ message[4] = MSC

\* The packet of a message; one that is no show control, or has no data, makes none.
ShowPacket(message) ==
  IF ~IsShow(message) THEN NoShow
  ELSE LET cmd == MSCCmdName(message[6])
       IN  [path |-> <<message[3], message[5], cmd>>,
            args |-> IF MSCCmdStrings(cmd) THEN TextsOf(DataOf(message)) ELSE DataOf(message)]

-----------------------------------------------------------------------------
ShowInit ==
  /\ \E path \in ShowPaths :
       \E args \in IF MSCCmdStrings(MSCCmdForName(path)) THEN ShowTexts ELSE ShowNumbers :
         showFirst = [path |-> path, args |-> args]
  /\ showPacket = showFirst
  /\ showMidi = <<>> /\ showHops = 0

SendMIDI ==
  /\ showPacket # NoShow /\ showHops < MaxHops
  /\ showMidi' = ShowMessage(showPacket)
  /\ showPacket' = NoShow
  /\ UNCHANGED <<showFirst, showHops>>

RecvShow ==
  /\ showMidi # <<>>
  /\ showPacket' = ShowPacket(showMidi)
  /\ showMidi' = <<>>
  /\ showHops' = showHops + 1
  /\ UNCHANGED showFirst

ShowNext == SendMIDI \/ RecvShow

ShowSpec == ShowInit /\ [][ShowNext]_showVars

-----------------------------------------------------------------------------
(* Properties.                                                             *)

\* What a router makes of a packet: the path filled in, the empty texts dropped.
Normal(p) ==
  [path |-> <<IF Len(p.path) > 0 THEN p.path[1] ELSE 1, IF Len(p.path) > 1 THEN p.path[2] ELSE 1,
              IF Len(p.path) > 2 /\ p.path[3] \in ToSet(CmdNames) THEN p.path[3] ELSE "go">>,
   args |-> IF MSCCmdStrings(MSCCmdForName(p.path)) THEN SelectSeq(p.args, LAMBDA a : a # <<>>)
            ELSE p.args]

\* A packet with something to say comes out of any number of routers as the first made it: the
\* device, the format, the command and every argument (SendMIDI and RecvMIDI).
ShowSurvives ==
  showHops > 0 /\ Normal(showFirst).args # <<>> /\ showMidi = <<>>
    => showPacket = Normal(showFirst)

\* A command without data reaches the cable and no further: SendMIDI makes 7 bytes of it, and
\* RecvMIDI wants 8 (Router.cpp:3746).
BareShowStops ==
  showHops > 0 /\ Normal(showFirst).args = <<>> => showPacket = NoShow /\ showHops = 1
=============================================================================
