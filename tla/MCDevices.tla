------------------------------ MODULE MCDevices ------------------------------
(***************************************************************************)
(* The inputs and outputs other than sACN, and what is made of a message   *)
(* in between.  They share nothing but the thread that calls them one      *)
(* after another, so that each behaviour is one of one of them.            *)
(***************************************************************************)
EXTENDS ArtNet, Psn, OtpAdverts, MidiQueue, MidiIn, MidiOut, MidiPorts, MidiShow, MCConversions

CONSTANT Devices   \* the inputs and outputs that a run is about

VARIABLE active

allVars == <<active, artVars, psnVars, otpVars, relayVars, advVars, ringVars, midiVars, outVars, portVars, showVars, cvVars>>

MCArtRoute(from, ip, to, offset) == [from |-> from, ip |-> ip, to |-> to, offset |-> offset]
MCArtRoutes == {MCArtRoute(3, NoSource, 1, 0), MCArtRoute(3, "s1", 0, 1)}
MCArtMutes  == {{}, MCArtRoutes}
MCArtOsc    == {[to |-> 4, offset |-> 0, args |-> <<1, 1>>]}
MCArtTraffic ==
  [universe: {3}, source: {"s1"}, levels: {<<1>>, <<0, 1>>}] \cup [universe: {0, 3}, source: {"s3"}, levels: {<<1>>}]
  \cup [universe: {3}, source: {"s2"}, levels: {<<0, 1>>}]

MCPsnSplits == {<<{1}, {2}>>, <<{1, 2}>>, <<{1}, {2}, {3}>>, <<{3}>>}

MCOtpModules == {[pos |-> 1], [rot |-> 1]}

MCValues(kind) == IF kind = "frame" THEN <<7, 300, 9>>
                  ELSE [i \in DOMAIN Widths(kind) |-> 256 * i + 10 * KindNumber(kind)]
MCPoint(group, n, kinds) ==
  [group |-> group, point |-> n, priority |-> 100, modules |-> [k \in kinds |-> MCValues(k)]]
MCRelayPoint == <<MCPoint(1, 1, {"pos"})>>
MCRelayPoints ==
  {<<MCPoint(1, 1, kinds)>> : kinds \in {{a, b} : a \in ToSet(Kinds), b \in ToSet(Kinds)}} \cup
  {<<MCPoint(1, 1, {"pos", "rot", "frame"})>>, [i \in 1..5 |-> MCPoint(1, i, {"pos"})],
   <<MCPoint(1, 1, {"pos"}), MCPoint(2, 1, {"rot"})>>}
MCRelayTypes == {ToSet(Kinds), {"pos"}, {"rot", "frame"}}
MCRelayPacket(kind, args) == [group |-> 9, point |-> 1, priority |-> 1, kind |-> kind, args |-> args]
MCRelayOsc == {<<>>, <<MCRelayPacket("posVelAccel", <<1, 2, 3>>)>>, <<MCRelayPacket("pos", <<1, 2>>)>>}

MCName(n, char) == [i \in 1..n |-> char]
MCAdvPoint(system, group, point, name) == [system |-> system, group |-> group, point |-> point, name |-> name]
MCAdvPoints ==
  {{}, {MCAdvPoint(1, 1, 1, <<<<65>>>>), MCAdvPoint(1, 1, 2, MCName(20, <<195, 164>>))},
   {MCAdvPoint(1, 300, 1, <<>>), MCAdvPoint(200, 1, 65000, MCName(32, <<66>>))}}

MCOutMessage(size, first) == [size |-> size, first |-> first]
MCOutMessages == {MCOutMessage(1, 1), MCOutMessage(1, 3), MCOutMessage(2, 1), MCOutMessage(4, 2), MCOutMessage(5, 5)}

MCPortApis == ({"alsa", "core", "winmm", "jack"} \X {"in", "out"}) \cup {<<"uwp", "in">>}

MCTexts       == {<<>>, <<65>>, <<65, 66>>}
MCShowPaths   == {<<>>, <<5>>, <<5, 7>>} \cup ({5} \X {7} \X (ToSet(CmdNames) \cup {"8"}))
MCShowTexts   == UNION {[1..k -> MCTexts] : k \in 0..3}
MCShowNumbers == UNION {[1..k -> {0, 1, 127}] : k \in 0..3}

MCInit ==
  /\ active \in Devices
  /\ PsnInit /\ OtpInit /\ RingInit
  /\ IF active = "artnet" THEN ArtInit ELSE ArtInit /\ nodes = <<>> /\ ~artServer
  /\ IF active = "midi" THEN MidiInit ELSE MidiInit /\ backend = "core"
  /\ IF active = "relay" THEN RelayInit
     ELSE /\ relayFirst = MCRelayPoint /\ relayAdvert = ToDatagramAdvert({"pos"})
          /\ relayPackets = <<>> /\ RelayInit
  /\ IF active = "adverts" THEN AdvInit
     ELSE AdvInit /\ advReader = 1 /\ advPoints = [h \in AdvHosts |-> {}]
  /\ IF active = "out" THEN OutInit ELSE OutInit /\ outApi = "core"
  /\ IF active = "port" THEN PortInit ELSE PortInit /\ portApi = <<"core", "in">>
  /\ IF active = "show" THEN ShowInit
     ELSE ShowInit /\ showFirst = [path |-> <<5>>, args |-> <<>>]
  /\ active # "conversion" => cvMessage = CHOOSE case \in CvCases : TRUE
  /\ CvInit

MCNext ==
  /\ UNCHANGED active
  /\ \/ active = "artnet" /\ ArtNext
        /\ UNCHANGED <<psnVars, otpVars, relayVars, advVars, ringVars, midiVars, outVars, portVars, showVars, cvVars>>
     \/ active = "psn" /\ PsnNext
        /\ UNCHANGED <<artVars, otpVars, relayVars, advVars, ringVars, midiVars, outVars, portVars, showVars, cvVars>>
     \/ active = "otp" /\ OtpNext
        /\ UNCHANGED <<artVars, psnVars, relayVars, advVars, ringVars, midiVars, outVars, portVars, showVars, cvVars>>
     \/ active = "relay" /\ RelayNext
        /\ UNCHANGED <<artVars, psnVars, otpVars, advVars, ringVars, midiVars, outVars, portVars, showVars, cvVars>>
     \/ active = "adverts" /\ AdvNext
        /\ UNCHANGED <<artVars, psnVars, otpVars, relayVars, ringVars, midiVars, outVars, portVars, showVars, cvVars>>
     \/ active = "ring" /\ RingNext
        /\ UNCHANGED <<artVars, psnVars, otpVars, relayVars, advVars, midiVars, outVars, portVars, showVars, cvVars>>
     \/ active = "midi" /\ MidiNext
        /\ UNCHANGED <<artVars, psnVars, otpVars, relayVars, advVars, ringVars, outVars, portVars, showVars, cvVars>>
     \/ active = "out" /\ OutNext
        /\ UNCHANGED <<artVars, psnVars, otpVars, relayVars, advVars, ringVars, midiVars, portVars, showVars, cvVars>>
     \/ active = "port" /\ PortNext
        /\ UNCHANGED <<artVars, psnVars, otpVars, relayVars, advVars, ringVars, midiVars, outVars, showVars, cvVars>>
     \/ active = "show" /\ ShowNext
        /\ UNCHANGED <<artVars, psnVars, otpVars, relayVars, advVars, ringVars, midiVars, outVars, portVars, cvVars>>
     \/ active = "conversion" /\ CvNext
        /\ UNCHANGED <<artVars, psnVars, otpVars, relayVars, advVars, ringVars, midiVars, outVars, portVars, showVars>>

MCSpec == MCInit /\ [][MCNext]_allVars

-----------------------------------------------------------------------------
(* The properties of the parts, one for each hazard.                       *)

\* The values of every part have the types it gives them.
DevicesTypeOK ==
  CASE active = "artnet" -> ArtTypeOK
    [] active = "psn" -> PsnTypeOK
    [] active = "otp" -> OtpTypeOK
    [] active = "ring" -> RingTypeOK
    [] active = "midi" -> MidiTypeOK
    [] active = "relay" -> relayHops \in 0..MaxRelay
    [] active = "out" -> OutTypeOK
    [] active = "port" -> PortTypeOK
    [] OTHER -> showHops \in 0..MaxHops /\ showMidi \in Seq(0..255)

\* The bytes say what Otp leaves them out for, and a point survives the way through routers.
RelaySound == ReadsFirstPoint /\ RelaySurvives /\ AdvertSurvives

\* What arrives is what was meant: a point goes through other routers, and who asks for systems
\* is told them and never wrong names; the values of a message are converted as its route says; a show
\* control command is the same after any number of hops, and one without an argument stops
\* there; a tracker that goes to PSN has all its fields.
MeaningKept ==
  /\ active = "relay" => RelaySound
  /\ active = "adverts" => AdvertsSound
  /\ ConversionsSound
  /\ ShowSurvives /\ BareShowStops /\ FieldsSurvive
=============================================================================
