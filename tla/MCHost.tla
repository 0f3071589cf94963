-------------------------------- MODULE MCHost --------------------------------
(* The programs around the routing engine, on small instances of their parts in one run: *)
(* a behaviour is one of Controller, ConfigStore, HttpConnections, EventStream or       *)
(* WebClient of the daemon, or one of the desktop application, chosen at the start.      *)
EXTENDS Controller, ConfigStore, WebClient, Desktop

CONSTANT Hosted   \* the programs that a run is about

VARIABLE host

R(enable, mute, path, src, dst) == [enable |-> enable, mute |-> mute, path |-> path, src |-> src, dst |-> dst]
Config(routes, connections) == [routes |-> routes, connections |-> connections, muteAll |-> {}]

\* A muted route, and a connection given twice.
Single == Config(<<R(TRUE, TRUE, "p1", "a", "b")>>, <<"c", "c", "badPort">>)
\* Nothing that can run.
Nothing == Config(<<R(TRUE, FALSE, "p1", "a", "undefined")>>, <<"c">>)
\* Two routes of one input to the same destination.
Shared == Config(<<R(TRUE, FALSE, "p1", "a", "b"), R(TRUE, TRUE, "p2", "a", "b")>>, <<>>)

DistinctConfigs == {Single, Nothing}
PutConfigs == {Single, Shared}

Var(name) == <<"$", name>>
End(ip, port, path, protocol) ==
  [ip |-> ip, port |-> port, path |-> path, multicast |-> <<>>, protocol |-> protocol]
FileRoute(label, src, dst, notes, script) ==
  [label |-> label, src |-> src, dst |-> dst, inMin |-> <<"1">>, inMax |-> <<>>, outMin |-> <<>>,
   outMax |-> <<"1234567">>, scriptText |-> script, enable |-> TRUE, mute |-> FALSE, notes |-> notes]
FileConnection(label, ip, port) ==
  [label |-> label, server |-> TRUE, frameMode |-> 1, ip |-> ip, port |-> port]

\* Texts that the format escapes, connections that Validate drops, and a transform of seven digits.
Escaped == [NoContents EXCEPT
  !.settings = [@ EXCEPT !.script = <<"a", "newline", "b", ",", "\"">>, !.otpModuleTypes = {1, 5}],
  !.variables = <<[name |-> <<"desk">>, value |-> <<"10", ".0.0.1">>], [name |-> <<>>, value |-> <<"x">>]>>,
  !.routes = <<FileRoute(<<"\"", "k">>, End(<<"$">> \o Var("desk"), 1, <<"/", ",">>, OSC), End(<<>>, 2, <<>>, SACN),
                         <<"why", ",", "\"", "newline">>, <<>>)>>,
  !.connections = <<FileConnection(<<"a", ",">>, <<"0", ".0.0.0">>, 3), FileConnection(<<"b">>, <<>>, 3),
                    FileConnection(<<"c">>, <<>>, 0)>>]

\* One destination written in two ways.
Doubled == [NoContents EXCEPT
  !.variables = <<[name |-> <<"desk">>, value |-> <<"10", ".0.0.1">>]>>,
  !.routes = <<FileRoute(<<>>, End(<<>>, 1, <<>>, OSC), End(Var("desk"), 1, <<>>, OSC), <<>>, <<>>),
               FileRoute(<<>>, End(<<>>, 1, <<>>, OSC), End(<<"10", ".0.0.1">>, 1, <<>>, OSC), <<>>, <<>>)>>]

MCPutContents == {Escaped, Doubled}
MCLongNumbers == [n \in {"1234567"} |-> "1.23457e+06"]

\* Two mutes, settings without an end, two lines of five fields, one without a port, and a route
\* to an address that nothing defines.
MCPutTexts == {<<<<"Mute", ",", "0", ",", "1", "return">>, <<"\"", "Settings", "\"", ",", ",", " ">>,
                 <<"l", ",", "1", ",", "2", ",", "ip", ",", "4">>, <<"l", ",", "x", ",", "7", ",", "ip", ",", "0">>,
                 <<"l", ",", ",", "1", ",", ",", ",", ",">> \o Var("nobody") \o <<",", "1", ",", ",", ",", ",">>>>}
MCMuteAlls == {<<TRUE, FALSE>>}
MCCuts == {[lines |-> 3, tokens |-> 30], [lines |-> 4, tokens |-> 15]}

HttpRequest(head, body, wellFormed, keeps) ==
  [bytes |-> [i \in 1 .. head |-> "head"] \o <<"end">> \o [i \in 1 .. body |-> "body"],
   length |-> body, wellFormed |-> wellFormed, stream |-> keeps]

\* An event stream, a PUT, one that cannot be parsed, a body and headers that are too large.
MCRequests == {HttpRequest(1, 0, TRUE, TRUE), HttpRequest(2, 2, TRUE, FALSE), HttpRequest(1, 1, FALSE, FALSE),
               HttpRequest(1, 5, TRUE, FALSE), HttpRequest(6, 0, TRUE, FALSE)}

HostInit ==
  /\ host \in Hosted
  /\ host # "controller" => contents = Single
  /\ host # "web" => daemon = <<>>
  /\ Init /\ StoreInit /\ HttpInit /\ EventInit
  /\ host # "desktop" => disk = [path \in FilePaths |-> NoAddr]
  /\ DeskInit
  /\ IF host = "web" THEN WebInit
     ELSE /\ copy = <<>> /\ dirty = <<>> /\ flight = <<>> /\ stale = <<>> /\ edited = <<>> /\ missed = FALSE

HostNext ==
  /\ UNCHANGED host
  /\ \/ host = "controller" /\ Next /\ UNCHANGED <<storeVars, httpVars, eventVars, webVars, deskVars>>
     \/ host = "store" /\ StoreNext /\ UNCHANGED <<vars, httpVars, eventVars, webVars, deskVars>>
     \/ host = "http" /\ HttpNext /\ UNCHANGED <<vars, storeVars, eventVars, webVars, deskVars>>
     \/ host = "events" /\ EventNext /\ UNCHANGED <<vars, storeVars, httpVars, webVars, deskVars>>
     \/ host = "web" /\ WebNext /\ UNCHANGED <<vars, storeVars, httpVars, eventVars, deskVars>>
     \/ host = "desktop" /\ DeskNext /\ UNCHANGED <<vars, storeVars, httpVars, eventVars, webVars>>

HostSpec == HostInit /\ [][HostNext]_<<host, vars, storeVars, httpVars, eventVars, webVars, deskVars>>

\* Nothing tells the routes of a page apart.
RouteSymmetry == Permutations(PageRoutes)

\* The values of every part have the types it gives them.
HostTypeOK ==
  CASE host = "controller" -> TypeOK
    [] host = "store" -> StoreTypeOK
    [] host = "events" -> EventTypeOK
    [] host = "web" -> WebTypeOK
    [] OTHER -> DeskTypeOK
=============================================================================
