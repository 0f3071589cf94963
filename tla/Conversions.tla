----------------------------- MODULE Conversions -----------------------------
(***************************************************************************)
(* What RouterThread makes of one message for one destination:             *)
(* ProcessRecvPacket chooses between UDP, TCP and the devices, and         *)
(* MakeOSCPacket makes the packet, with the script of the route, or from   *)
(* the path of the destination (MakeSendPath, which replaces %1, %2, ...   *)
(* in place) and its limits (ApplyTransform).                              *)
(*                                                                         *)
(* A text is a sequence of characters, an argument a number, a text, a     *)
(* Boolean or infinity.  Levels are written in decimal, those that are not *)
(* given are 0.  Numbers are such that scaling them leaves no remainder.   *)
(***************************************************************************)
EXTENDS Integers, SequencesExt, FiniteSetsExt

CONSTANTS
  CvCases,       \* of a message [protocol, path, args, levels] and a route
                 \* [path, script, limits, to], where `to` is "udp", "client", "server" or "device"
  Unlimited,     \* a limit that is not enabled
  NoText         \* what a script or an argument is not

Numeral == <<"0", "1", "2", "3", "4", "5", "6", "7", "8", "9">>
IsDigit(c) == c \in ToSet(Numeral)
Num(n) == [num |-> n]
Txt(text) == [text |-> text]
IsNumber(arg) == "num" \in DOMAIN arg

ToNumber(text) ==
  FoldLeft(LAMBDA n, c : 10 * n + (CHOOSE d \in 0..9 : Numeral[d + 1] = c), 0, text)

ToText(n) ==
  LET Unit(m) == Numeral[(m % 10) + 1]
  IN CASE n < 10 -> <<Unit(n)>>
       [] n \in 10..99 -> <<Unit(n \div 10), Unit(n)>>
       [] OTHER -> <<Unit(n \div 100), Unit(n \div 10), Unit(n)>>

\* The parts of a text between separators, the empty ones as well.
SplitAt(text, separator) ==
  FoldLeft(LAMBDA parts, c : IF c = separator THEN Append(parts, <<>>)
                             ELSE [parts EXCEPT ![Len(parts)] = Append(@, c)], <<<<>>>>, text)

VARIABLES
  cvMessage,  \* the message and its route
  sendPath,   \* local of MakeSendPath
  cvAt,       \* i, counted from 1
  digitCount,
  cvDone,     \* "no", "filled" once sendPath is complete, "unable" without a replacement, "sent"
  cvSent      \* what was sent: [bytes, activity], or NoText

cvVars == <<cvMessage, sendPath, cvAt, digitCount, cvDone, cvSent>>

msg == cvMessage.message
route == cvMessage.route
IsDmx == msg.protocol \in {"sACN", "ArtNet"}

CvInit ==
  /\ cvMessage \in CvCases
  /\ sendPath = IF route.path = <<>> /\ ~IsDmx THEN msg.path ELSE route.path
  /\ cvAt = 1 /\ digitCount = 0
  /\ cvDone = "no" /\ cvSent = NoText

-----------------------------------------------------------------------------
(* MakeSendPath                                                            *)

\* srcPathParts
Parts(path) ==
  LET parts == SelectSeq(SplitAt(path, "/"), LAMBDA p : p # <<>>)
  IN IF parts = <<>> THEN <<path>> ELSE parts

\* What number n of a template is replaced with, from the path, the levels or the arguments.
Insertion(n) ==
  LET index == IF msg.path = <<>> THEN n ELSE n - 1
      parts == Parts(msg.path)
      rest == index - Len(parts) + 1
  IN CASE index < 0 -> <<>>
       [] index \in 0..(Len(parts) - 1) -> parts[index + 1]
       [] index >= 0 /\ index >= Len(parts) /\ IsDmx ->
            ToText(IF rest \in DOMAIN msg.levels THEN msg.levels[rest] ELSE 0)
       [] OTHER -> IF rest \notin DOMAIN msg.args THEN <<>>
                   ELSE IF IsNumber(msg.args[rest]) THEN ToText(msg.args[rest].num) ELSE msg.args[rest].text

Replaces == route.path # <<>> /\ "%" \in ToSet(sendPath)
Scans == cvDone = "no" /\ route.script = NoText /\ Replaces /\ cvAt <= Len(sendPath) + 1

Digit ==
  /\ Scans /\ cvAt <= Len(sendPath) /\ IsDigit(sendPath[cvAt])
  /\ digitCount' = digitCount + 1
  /\ cvAt' = cvAt + 1
  /\ UNCHANGED <<cvMessage, sendPath, cvDone, cvSent>>

\* No digit: the position of what is before the digits, 1 for the first character.
AfterDigits == Scans /\ ~(cvAt <= Len(sendPath) /\ IsDigit(sendPath[cvAt]))
Start == cvAt - digitCount - 1
IsHole == digitCount > 0 /\ Start > 1 /\ sendPath[Start] = "%"
IsEscaped == Start > 2 /\ sendPath[Start - 1] = "%"

Skip ==
  /\ AfterDigits /\ ~IsHole
  /\ digitCount' = 0
  /\ cvAt' = cvAt + 1
  /\ UNCHANGED <<cvMessage, sendPath, cvDone, cvSent>>

Unescape ==
  /\ AfterDigits /\ IsHole /\ IsEscaped
  /\ sendPath' = RemoveAt(sendPath, Start)
  /\ digitCount' = 0
  /\ UNCHANGED <<cvMessage, cvAt, cvDone, cvSent>>

\* Mutant: the first character after what was inserted is skipped as well.
ResumesLate(midIndex) == midIndex + 1

\* The scan goes on where the number ended, however much was inserted in its place.
ResumesAt(midIndex) == midIndex

Replace ==
  /\ AfterDigits /\ IsHole /\ ~IsEscaped
  /\ LET number == ToNumber(SubSeq(sendPath, Start + 1, cvAt - 1))
         insertStr == Insertion(number)
     IN IF insertStr = <<>>
        THEN cvDone' = "unable" /\ sendPath' = <<>> /\ UNCHANGED <<cvAt, digitCount>>
        ELSE /\ sendPath' = SubSeq(sendPath, 1, Start - 1) \o insertStr \o SubSeq(sendPath, cvAt, Len(sendPath))
             /\ cvAt' = ResumesAt(cvAt)
             /\ digitCount' = 0
             /\ UNCHANGED cvDone
  /\ UNCHANGED <<cvMessage, cvSent>>

Complete ==
  /\ cvDone = "no" /\ ~Scans
  /\ cvDone' = "filled"
  /\ UNCHANGED <<cvMessage, sendPath, cvAt, digitCount, cvSent>>

-----------------------------------------------------------------------------
(* MakeOSCPacket                                                           *)

\* ApplyTransform of a number: scaled when all limits are there, limited otherwise.
Limited(f, limits) ==
  LET lower == {limits.inMin, limits.outMin} \ {Unlimited}
      upper == {limits.inMax, limits.outMax} \ {Unlimited}
      inRange == limits.inMax - limits.inMin
      outRange == limits.outMax - limits.outMin
  IN IF Unlimited \notin {limits[l] : l \in DOMAIN limits}
     THEN IF inRange = 0 THEN limits.outMin
          ELSE limits.outMin + ((f - limits.inMin) * outRange) \div inRange
     ELSE IF lower # {} /\ f < Max(lower) THEN Max(lower)
     ELSE IF upper # {} /\ f > Min(upper) THEN Min(upper)
     ELSE f

HasLimits == \E l \in DOMAIN route.limits : route.limits[l] # Unlimited

\* ScriptEngine::evaluate: the arguments, or else the levels, as the script has them in ARGS,
\* and what is made of ARGS afterwards.  The infinity of an int is 0.
ToScript(args) == [i \in DOMAIN args |-> IF "infinity" \in DOMAIN args[i] THEN Num(0) ELSE args[i]]

\* A script leaves OSC and ARGS as they are, sends the first of ARGS, empties OSC, or fails.
Scripted ==
  CASE route.script = "keep" /\ msg.path # <<>> ->
         [made |-> TRUE, bytes |-> [path |-> msg.path, args |-> ToScript(msg.args)]]
    [] route.script = "first" ->
         [made |-> TRUE, bytes |-> [path |-> <<"/", "s">>,
           args |-> IF IsDmx THEN <<Num(IF 1 \in DOMAIN msg.levels THEN msg.levels[1] ELSE 0)>>
                    ELSE IF msg.args = <<>> THEN <<>> ELSE <<ToScript(msg.args)[1]>>]]
    [] route.script = "fail" -> [made |-> FALSE, bytes |-> NoText]
    [] OTHER -> [made |-> TRUE, bytes |-> NoText]

\* OSCPacketWriter::CreateForString: what follows "=" are arguments, typed by how they look.
Typed(text) == IF text # <<>> /\ \A i \in DOMAIN text : IsDigit(text[i]) THEN Num(ToNumber(text)) ELSE Txt(text)
ForString(path) ==
  LET equals == Min({i \in DOMAIN path : path[i] = "="})
      rest == SubSeq(path, equals + 1, Len(path))
      texts == SplitAt(rest, ",")
  IN [path |-> SubSeq(path, 1, equals - 1),
      args |-> IF rest = <<>> THEN <<>> ELSE [i \in DOMAIN texts |-> Typed(texts[i])]]

Transformed(packet) ==
  IF HasLimits /\ packet.args # <<>> /\ IsNumber(packet.args[1])
  THEN [packet EXCEPT !.args = <<Num(Limited(packet.args[1].num, route.limits))>>]
  ELSE packet

\* The first "=" is not at the front.
HasArguments == "=" \in ToSet(sendPath) /\ sendPath[1] # "="

Filled ==
  LET plain == [path |-> sendPath, args |-> IF IsDmx THEN <<>> ELSE msg.args]
      Made(packet) == [made |-> TRUE, bytes |-> packet]
      none == [made |-> FALSE, bytes |-> NoText]
  IN IF sendPath = <<>> THEN none
     ELSE IF HasArguments THEN Made(Transformed(ForString(sendPath)))
     ELSE IF IsDmx \/ ~HasLimits THEN Made(plain)
     ELSE IF msg.args # <<>> /\ IsNumber(msg.args[1]) THEN Made(Transformed(plain)) ELSE none

MakeOSCPacket == IF route.script # NoText THEN Scripted ELSE Filled

-----------------------------------------------------------------------------
(* ProcessRecvPacket                                                       *)

\* A message that is not OSC goes on as it came; of levels that is nothing at all.
Raw == [path |-> <<>>, args |-> <<>>]
Received == [bytes |-> IF msg.protocol = "raw" THEN Raw ELSE NoText, activity |-> TRUE]

Outcome ==
  LET packet == MakeOSCPacket
      nothing == [bytes |-> NoText, activity |-> FALSE]
      made == [bytes |-> packet.bytes, activity |-> TRUE]
  IN CASE route.to = "server" -> nothing
       [] route.to = "client" /\ msg.protocol = "OSC" -> IF packet.made THEN made ELSE nothing
       [] route.to = "client" /\ msg.protocol # "OSC" -> Received
       [] route.to = "udp" /\ msg.protocol = "raw" -> Received
       [] OTHER -> IF packet.bytes # NoText THEN made ELSE nothing

Send ==
  /\ cvDone \in {"filled", "unable"}
  /\ cvSent' = Outcome
  /\ cvDone' = "sent"
  /\ UNCHANGED <<cvMessage, sendPath, cvAt, digitCount>>

CvNext == Digit \/ Skip \/ Unescape \/ Replace \/ Complete \/ Send

-----------------------------------------------------------------------------
(* Properties.                                                             *)

\* The template read once from left to right: per hole where it begins, how many digits it has
\* and whether it is escaped.
Holes ==
  LET t == route.path
      DigitsFrom(i) == Max({k \in 0..(Len(t) - i) : \A j \in 1..k : IsDigit(t[i + j])})
  IN {[at |-> i, digits |-> DigitsFrom(i), escaped |-> i > 2 /\ t[i - 1] = "%"] :
        i \in {j \in 2..Len(t) : t[j] = "%" /\ DigitsFrom(j) > 0}}

InsertionOf(h) == Insertion(ToNumber(SubSeq(route.path, h.at + 1, h.at + h.digits)))
Failing == \E h \in Holes : ~h.escaped /\ InsertionOf(h) = <<>>

Expected ==
  LET Contribution(i) ==
        IF \E h \in Holes : h.at = i
        THEN LET h == CHOOSE h \in Holes : h.at = i IN IF h.escaped THEN <<>> ELSE InsertionOf(h)
        ELSE IF \E h \in Holes : ~h.escaped /\ i \in h.at..(h.at + h.digits) THEN <<>>
        ELSE <<route.path[i]>>
  IN FlattenSeq([i \in DOMAIN route.path |-> Contribution(i)])

\* As many characters are skipped as a number is longer than what replaces it: the next number
\* must begin behind them.  If it is shorter, the rest of what replaced it is scanned again.
Apart ==
  \A h, k \in Holes : ~h.escaped /\ k.at > h.at =>
    h.digits + 1 - Len(InsertionOf(h)) <= k.at - (h.at + h.digits)
Unscanned ==
  \A h \in Holes : ~h.escaped /\ Len(InsertionOf(h)) > h.digits + 1 => "%" \notin ToSet(InsertionOf(h))

IsFilled == cvDone = "filled" /\ route.script = NoText /\ route.path # <<>>

\* "Use %1 - %512 to reference the universe levels" (MainWindow.cpp): a path that is made has
\* every number replaced.
NumbersReplaced == IsFilled => sendPath = Expected

\* It has, and fails only where nothing is there to insert, as long as no number follows
\* another more closely than the characters that are skipped (MakeSendPath).
ApartReplaced ==
  (IsFilled \/ cvDone = "unable") /\ Apart /\ Unscanned /\ ~Failing => IsFilled /\ sendPath = Expected

\* What is sent keeps the limits of the route, or lies between the ends of the scale for what
\* was between the ends of its input (ApplyTransform).
LimitsKept ==
  cvDone = "sent" /\ HasLimits /\ route.script = NoText /\ cvSent.bytes \notin {NoText, Raw}
    /\ cvSent.bytes.args # <<>> /\ IsNumber(cvSent.bytes.args[1]) =>
     LET sent == cvSent.bytes.args[1].num
         given == (IF HasArguments THEN ForString(sendPath).args ELSE msg.args)[1].num
         l == route.limits
     IN IF Unlimited \notin {l[x] : x \in DOMAIN l}
        THEN given \in l.inMin..l.inMax => sent \in l.outMin..l.outMax
        ELSE /\ \A x \in {l.inMin, l.outMin} \ {Unlimited} : sent >= x
             /\ \A x \in {l.inMax, l.outMax} \ {Unlimited} : sent <= x

\* A destination shows activity when something is sent to it, but for levels to a TCP
\* connection, which has nothing to send, and scripts that leave no path (ProcessRecvPacket).
ActivityIsData ==
  cvDone = "sent" /\ cvSent.activity /\ cvSent.bytes = NoText =>
    route.to = "client" /\ (IsDmx \/ route.script = "mute")

\* All three.
ConversionsSound == ApartReplaced /\ LimitsKept /\ ActivityIsData
=============================================================================
