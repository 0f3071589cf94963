------------------------------ MODULE MidiPorts -----------------------------
(***************************************************************************)
(* Opening and closing the MIDI ports of the rtmidi library, with every    *)
(* call to the system that may fail: BuildMIDI opens an input once, SendMIDI *)
(* an output with the first packet, and again with every packet until it   *)
(* succeeds.  A call that acquires something is named for it.              *)
(*                                                                         *)
(* A backend is described by what the constructor and openPort call, in    *)
(* their order, by what a failure releases before it throws, and by what   *)
(* closePort and the destructor release, held or not.                      *)
(***************************************************************************)
EXTENDS Naturals, Sequences, FiniteSets, SequencesExt

CONSTANTS
  PortApis,     \* the classes of the library: a backend with "in" or "out"
  MaxPortFaults \* bound on the calls that fail

ASSUME PortAssumption ==
  /\ PortApis \subseteq ({"alsa", "core", "winmm", "jack"} \X {"in", "out"}) \cup {<<"uwp", "in">>, <<"uwp", "out">>}
  /\ MaxPortFaults \in Nat

VARIABLES
  portApi,
  portAt,       \* [at, done]: what the object does and how many calls of it are done;
                \* "ended": the program is over
  portHeld,     \* what is acquired and not released
  portConnected,\* connected_
  portFreed,    \* what was released without being held
  portLost,     \* what no object holds any more and was not released
  portState,    \* the item state: "none", "connected", "not_connected"
  portFaults

portVars == <<portApi, portAt, portHeld, portConnected, portFreed, portLost, portState, portFaults>>

-----------------------------------------------------------------------------
(* The backends.                                                           *)

\* What the constructors call, in their order, and what openPort does.
AlsaInNew == <<"seq", "pipe", "queue">>
AlsaInOpen == <<"find", "vport", "subscription", "subscribe", "thread">>
AlsaOutNew == <<"seq", "coder", "buffer">>
AlsaOutOpen == <<"find", "vport", "subscription", "subscribe">>
CoreInOpen == <<"find", "port", "find", "connect">>
CoreOutOpen == <<"find", "port", "find">>
WinMMInNew == <<"mutex">>
WinMMInOpen == <<"find", "handle", "buffers", "prepare", "add", "start">>
WinMMOutOpen == <<"find", "handle">>
UwpOpen == <<"find", "port", "listen">>

\* The classes of JACK call connect in initialize, for the number of ports and in openPort: it
\* returns at once if there is a client, and an output makes its ring before the client.
JackInNew == <<"client", "client">>
JackInOpen == <<"client", "port">>
JackOutNew == <<"ring", "client", "ring", "client">>
JackOutOpen == <<"ring", "client", "port">>

NoUndo == [c \in {} |-> {}]

\* Mutant: the subscription is not released when the thread cannot be started.
AlsaInKept == [construct |-> AlsaInNew, open |-> AlsaInOpen,
               undo |-> [c \in {"subscribe"} |-> {"subscription"}],
               connected |-> {"subscription"}, closed |-> {"thread"},
               destroy |-> {"pipe", "vport", "queue", "seq"}, blind |-> {"queue"}]

\* MidiInAlsa: initialize, openPort, closePort, the destructor.
AlsaIn == [construct |-> AlsaInNew, open |-> AlsaInOpen,
           undo |-> [c \in {"subscribe", "thread"} |-> {"subscription"}],
           connected |-> {"subscription"}, closed |-> {"thread"},
           destroy |-> {"pipe", "vport", "queue", "seq"}, blind |-> {"queue"}]

\* MidiOutAlsa, which releases a subscription that could not be made.
AlsaOut == [construct |-> AlsaOutNew, open |-> AlsaOutOpen,
            undo |-> [c \in {"subscription", "subscribe"} |-> {"subscription"}],
            connected |-> {"subscription"}, closed |-> {},
            destroy |-> {"vport", "coder", "buffer", "seq"}, blind |-> {}]

\* MidiInCore, whose constructor does not set `port`: closePort may find any value there.
CoreIn == [construct |-> <<>>, open |-> CoreInOpen,
           undo |-> [c \in {"find", "connect"} |-> {"port"}],
           connected |-> {}, closed |-> {"port"}, destroy |-> {}, blind |-> {"port"}]

\* MidiOutCore.
CoreOut == [construct |-> <<>>, open |-> CoreOutOpen,
            undo |-> [c \in {"find"} |-> {"port"}],
            connected |-> {}, closed |-> {"port"}, destroy |-> {}, blind |-> {"port"}]

\* MidiInWinMM.
WinMMIn == [construct |-> WinMMInNew, open |-> WinMMInOpen,
            undo |-> [c \in {"prepare", "add", "start"} |-> {"handle"}],
            connected |-> {"buffers", "handle"}, closed |-> {}, destroy |-> {"mutex"},
            blind |-> {"mutex"}]

\* MidiOutWinMM.
WinMMOut == [construct |-> <<>>, open |-> WinMMOutOpen, undo |-> NoUndo,
             connected |-> {"handle"}, closed |-> {}, destroy |-> {}, blind |-> {}]

\* MidiInJack, and MidiOutJack with its ring; jack_connect may fail unnoticed.
JackIn == [construct |-> JackInNew, open |-> JackInOpen, undo |-> NoUndo,
           connected |-> {}, closed |-> {"port"}, destroy |-> {"client"}, blind |-> {}]
JackOut == [construct |-> JackOutNew, open |-> JackOutOpen, undo |-> NoUndo,
            connected |-> {}, closed |-> {"port"}, destroy |-> {"ring", "client"}, blind |-> {}]

\* UWPMidiClass: open, in_open, out_open, close.
Uwp == [construct |-> <<>>, open |-> UwpOpen, undo |-> NoUndo,
        connected |-> {"port"}, closed |-> {}, destroy |-> {"port"}, blind |-> {}]

ClassOf(api) ==
  CASE api = <<"alsa", "in">>   -> AlsaIn
    [] api = <<"alsa", "out">>  -> AlsaOut
    [] api = <<"core", "in">>   -> CoreIn
    [] api = <<"core", "out">>  -> CoreOut
    [] api = <<"winmm", "in">>  -> WinMMIn
    [] api = <<"winmm", "out">> -> WinMMOut
    [] api = <<"jack", "in">>   -> JackIn
    [] api = <<"jack", "out">>  -> JackOut
    [] OTHER                    -> Uwp

Class == ClassOf(portApi)

\* Calls that only look something up, or start what is held already.
Lookups == {"find", "connect", "subscribe", "prepare", "add", "start", "listen"}
Acquired(call) == {call} \ Lookups

\* The calls whose failure is ignored, or reported as a warning only; those that only take memory.
Ignorable == {"queue", "mutex", "client"}
NeverFails == {"ring", "buffers"}

\* connect of JACK returns at once.
Skipped(call) == call \in {"ring", "client"} /\ "client" \in portHeld

\* JACK registers no port without a client.
Doomed(call) == portApi[1] = "jack" /\ call = "port" /\ "client" \notin portHeld

-----------------------------------------------------------------------------
PortInit ==
  /\ portApi \in PortApis
  /\ portAt = [at |-> "none", done |-> 0]
  /\ portHeld = {} /\ portConnected = FALSE /\ portFreed = {} /\ portLost = {}
  /\ portState = "none" /\ portFaults = 0

\* BuildMIDI, or SendMIDI as long as there is no output: make_shared.
Construct ==
  /\ portAt.at = "none" /\ (portApi[2] = "in" => portState = "none")
  /\ portAt' = [at |-> "constructing", done |-> 0]
  /\ portConnected' = FALSE
  /\ UNCHANGED <<portApi, portHeld, portFreed, portLost, portState, portFaults>>

Calls == IF portAt.at = "constructing" THEN Class.construct ELSE Class.open

\* The next call succeeds.  A new ring takes the place of the one that is held.
CallDone ==
  LET call == Calls[portAt.done + 1]
  IN  /\ portAt.at \in {"constructing", "opening"} /\ portAt.done < Len(Calls)
      /\ ~Doomed(call)
      /\ portHeld' = portHeld \cup Acquired(call)
      /\ portLost' = portLost \cup (IF Skipped(call) THEN {} ELSE Acquired(call) \cap portHeld)
      /\ portAt' = [portAt EXCEPT !.done = @ + 1]
      /\ UNCHANGED <<portApi, portConnected, portFreed, portState, portFaults>>

CallIgnored ==
  LET call == Calls[portAt.done + 1]
  IN  /\ portAt.at \in {"constructing", "opening"} /\ portAt.done < Len(Calls)
      /\ call \in Ignorable /\ ~Skipped(call) /\ portFaults < MaxPortFaults
      /\ portAt' = [portAt EXCEPT !.done = @ + 1]
      /\ portFaults' = portFaults + 1
      /\ UNCHANGED <<portApi, portHeld, portConnected, portFreed, portLost, portState>>

\* The next call fails and error throws.  From a constructor nothing is destroyed: what it
\* holds is lost.  From openPort the object is destroyed next.
CallFails ==
  LET call == Calls[portAt.done + 1]
      undo == IF portAt.at = "opening" /\ portAt.done > 0 /\ call \in DOMAIN Class.undo
              THEN Class.undo[call] ELSE {}
  IN  /\ portAt.at \in {"constructing", "opening"} /\ portAt.done < Len(Calls)
      /\ call \notin Ignorable \cup NeverFails
      /\ \/ Doomed(call) /\ UNCHANGED portFaults
         \/ portFaults < MaxPortFaults /\ portFaults' = portFaults + 1
      /\ IF portAt.at = "constructing"
         THEN /\ portAt' = [at |-> "none", done |-> 0]
              /\ portLost' = portLost \cup portHeld
              /\ portHeld' = {}
              /\ portState' = IF portApi[2] = "in" THEN "not_connected" ELSE portState
         ELSE /\ portAt' = [at |-> "closing", done |-> 0]
              /\ portHeld' = portHeld \ undo
              /\ portState' = IF portApi[2] = "in" THEN "not_connected" ELSE portState
              /\ UNCHANGED portLost
      /\ portFreed' = portFreed \cup (undo \ portHeld)
      /\ UNCHANGED <<portApi, portConnected>>

\* The constructor is done, then openPort.
Constructed ==
  /\ portAt.at = "constructing" /\ portAt.done = Len(Calls)
  /\ portAt' = [at |-> "opening", done |-> 0]
  /\ UNCHANGED <<portApi, portHeld, portConnected, portFreed, portLost, portState, portFaults>>

Opened ==
  /\ portAt.at = "opening" /\ portAt.done = Len(Calls)
  /\ portAt' = [at |-> "open", done |-> 0]
  /\ portConnected' = TRUE
  /\ portState' = "connected"
  /\ UNCHANGED <<portApi, portHeld, portFreed, portLost, portFaults>>

\* The router stops; the item states start anew with it.
Stop ==
  /\ portAt.at = "open" \/ (portAt.at = "none" /\ portState # "none")
  /\ portAt' = IF portAt.at = "open" THEN [at |-> "closing", done |-> 0] ELSE portAt
  /\ portState' = "none"
  /\ UNCHANGED <<portApi, portHeld, portConnected, portFreed, portLost, portFaults>>

\* The destructor: closePort, then what the class holds.  The queue of ALSA and the mutex of
\* Windows are released though they could not be made, and a `port` of CoreMIDI that was never
\* created has no value: it may be.
Destroy ==
  LET released == (IF portConnected THEN Class.connected ELSE {}) \cup Class.closed \cup Class.destroy
  IN  /\ portAt.at = "closing"
      /\ portFreed' \in {portFreed \cup (Class.blind \ portHeld)} \cup
           (IF portApi[1] = "core" THEN {portFreed} ELSE {})
      /\ portLost' = portLost \cup (portHeld \ released)
      /\ portHeld' = {}
      /\ portConnected' = FALSE
      /\ portAt' = [at |-> "none", done |-> 0]
      /\ UNCHANGED <<portApi, portState, portFaults>>

\* closePort of an input of Windows throws if a buffer cannot be unprepared, here out of the
\* destructor: the program is ended.
DestroyThrows ==
  /\ portAt.at = "closing" /\ portApi = <<"winmm", "in">> /\ portConnected
  /\ portFaults < MaxPortFaults /\ portFaults' = portFaults + 1
  /\ portAt' = [at |-> "ended", done |-> 0]
  /\ portHeld' = {} /\ portConnected' = FALSE
  /\ UNCHANGED <<portApi, portFreed, portLost, portState>>

PortNext == \/ Construct
            \/ CallDone
            \/ CallIgnored
            \/ CallFails
            \/ Constructed
            \/ Opened
            \/ Stop
            \/ Destroy
            \/ DestroyThrows

PortSpec == PortInit /\ [][PortNext]_portVars

-----------------------------------------------------------------------------
(* Properties.                                                             *)
PortTypeOK ==
  /\ portApi \in PortApis
  /\ portAt.at \in {"none", "constructing", "opening", "open", "closing", "ended"}
  /\ portAt.done \in 0..6 /\ portConnected \in BOOLEAN
  /\ portState \in {"none", "connected", "not_connected"} /\ portFaults \in 0..MaxPortFaults
  /\ (portAt.at = "none" => portHeld = {})

\* What is known to be lost: what a constructor of ALSA has made before it throws, the buffers
\* of an input of Windows whose openPort fails behind them, and the rings of an output of JACK
\* that had no client yet when the next was made.
KnownLost ==
  CASE portApi = <<"alsa", "in">>  -> {"seq"}
    [] portApi = <<"alsa", "out">> -> {"seq", "coder"}
    [] portApi = <<"winmm", "in">> -> {"buffers"}
    [] portApi = <<"jack", "out">> -> {"ring"}
    [] OTHER                       -> {}

\* What is known to be released though it was not acquired.
KnownFreed ==
  CASE portApi = <<"alsa", "in">>  -> {"queue"}
    [] portApi = <<"alsa", "out">> -> {"subscription"}
    [] portApi = <<"winmm", "in">> -> {"mutex"}
    [] portApi[1] = "core"         -> {"port"}
    [] OTHER                       -> {}

\* Whichever call fails, and after every close, the classes have released all they acquired and
\* nothing else, but for those (initialize, connect, openPort, closePort and the destructors).
AllReleased == portLost \subseteq KnownLost /\ portFreed \subseteq KnownFreed

\* An item is shown as connected only while its port is open with all that its class needs, and
\* with a client of JACK though the first attempts to have one may have failed (BuildMIDI,
\* SendMIDI, connect): the first failure of an input is final until the next start.
ShownIsOpen ==
  portState = "connected" =>
    /\ portAt.at = "open" /\ portConnected
    /\ (ToSet(Class.construct) \cup ToSet(Class.open)) \ (Lookups \cup Ignorable) \subseteq portHeld
    /\ (portApi[1] = "jack" => "client" \in portHeld)

\* What a port has taken it gives back, and a port that is shown as open is open.
PortsSound == AllReleased /\ ShownIsOpen
=============================================================================
