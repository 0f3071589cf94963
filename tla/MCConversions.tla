---------------------------- MODULE MCConversions ----------------------------
(* Messages and routes for Conversions, with the forms of path that the help of the *)
(* application shows.                                                               *)
EXTENDS Conversions, TLC

NoLimits == [inMin |-> Unlimited, inMax |-> Unlimited, outMin |-> Unlimited, outMax |-> Unlimited]
Limits(a, b, c, d) == [inMin |-> a, inMax |-> b, outMin |-> c, outMax |-> d]
CvMessage(protocol, path, args, levels) == [protocol |-> protocol, path |-> path, args |-> args, levels |-> levels]
CvRoute(path, script, limits, to) == [path |-> path, script |-> script, limits |-> limits, to |-> to]

\* /c/12, with and without a number, and with a text that reads like a number of a path.  A
\* longer one of this kind would be replaced again, without end.
Cue == <<"/", "c", "/", "1", "2">>
MCCvMessages ==
  {CvMessage("OSC", Cue, args, <<>>) : args \in {<<>>, <<Num(0)>>, <<Num(5), Txt(<<"a">>)>>, <<Txt(<<"%", "3">>)>>}} \cup
  {CvMessage("OSC", <<"/">>, <<Num(20)>>, <<>>)} \cup
  {CvMessage(protocol, <<>>, <<>>, levels) : protocol \in {"sACN", "ArtNet"},
     levels \in {(1 :> 7) @@ (10 :> 55) @@ (100 :> 3) @@ (101 :> 255), (10 :> 0) @@ (100 :> 20) @@ (101 :> 1)}}

MCTemplates ==
  {<<>>, <<"/", "x">>,
   <<"/", "%", "2", "=", "%", "1", ",", "%", "3">>,
   <<"/", "%", "%", "1", "/", "%", "1", "0">>,
   <<"/", "%", "0">>, <<"%", "1", "/", "%", "1">>,
   <<"/", "r", "=", "%", "1", "0", ",", "%", "1", "1">>,
   <<"/", "r", "=", "%", "1", "0", "0", "%", "1">>,
   <<"/", "r", "=", "%", "1", "0", "0", ",", "%", "1", "0", "1">>,
   <<"=", "%", "1">>, <<"/", "5", "=", "x", ",", "6">>}

MCLimits == {NoLimits, Limits(0, 10, 100, 200), Limits(0, 10, 200, 200), Limits(5, Unlimited, Unlimited, 6),
             Limits(Unlimited, Unlimited, 1, Unlimited), Limits(3, 3, 1, 2)}

MCOthers ==
  {CvMessage("raw", <<>>, <<>>, <<>>), CvMessage("OSC", Cue, <<[infinity |-> TRUE], [boolean |-> FALSE]>>, <<>>)}

MCCvCases ==
  [message : MCCvMessages,
   route : {CvRoute(path, NoText, limits, "udp") : path \in MCTemplates, limits \in MCLimits}] \cup
  [message : MCCvMessages \cup MCOthers,
   route : {CvRoute(<<"/", "x">>, script, NoLimits, to) :
              script \in {NoText, "keep", "first", "mute", "fail"}, to \in {"udp", "client", "server", "device"}}]

MCCvSpec == CvInit /\ [][CvNext]_cvVars
=============================================================================
