------------------------------ MODULE ConfigFile ------------------------------
(***************************************************************************)
(* The configuration file, ConfigFile.cpp: what it is written as, what is  *)
(* read back from it, and what Diagnose says of it.                        *)
(*                                                                         *)
(* A text is a sequence of tokens: the characters that the format gives a  *)
(* meaning are tokens of their own, a run of letters, digits, underscores  *)
(* and hyphens is one word, and so is a run of any other characters.       *)
(* Words that differ only in case are one word.  The file is the sequence  *)
(* of its lines, of which the last has no newline behind it.               *)
(***************************************************************************)
EXTENDS Integers, SequencesExt, FiniteSetsExt, TLC

CONSTANTS
  VariableNames,  \* the words of letters, digits, underscores and hyphens
  LongNumbers     \* the numbers with more than six significant digits, with what is written of them

Quote == "\""
Comma == ","
Newline == "newline"
Return == "return"
Space == " "
Backslash == "\\"
LetterN == "n"
Dollar == "$"

Digits == 0..9
Numeral == [d \in {ToString(n) : n \in Digits} |-> CHOOSE n \in Digits : ToString(n) = d]
IsNumber(text) == Len(text) = 1 /\ text[1] \in DOMAIN Numeral
ToInt(text) == IF IsNumber(text) THEN Numeral[text[1]] ELSE 0
FromInt(n) == <<ToString(n)>>
FromBool(b) == FromInt(IF b THEN 1 ELSE 0)

-----------------------------------------------------------------------------
(* Fields and lines.                                                       *)

\* str with every pair of the tokens a, b replaced by the token c, from the left.
ReplacePair(str, a, b, c) ==
  LET replaced[i \in 0..Len(str)] ==
        IF i = 0 THEN [text |-> <<>>, half |-> FALSE]
        ELSE LET acc == replaced[i - 1]
             IN IF acc.half /\ str[i] = b THEN [text |-> Append(Front(acc.text), c), half |-> FALSE]
                ELSE [text |-> Append(acc.text, str[i]), half |-> str[i] = a]
  IN replaced[Len(str)].text

\* str with every token t replaced by the text u.
ReplaceToken(str, t, u) ==
  IF ~Contains(str, t) THEN str
  ELSE FlattenSeq([i \in DOMAIN str |-> IF str[i] = t THEN u ELSE <<str[i]>>])

Trimmed(str) ==
  LET kept == {i \in DOMAIN str : str[i] \notin {Space, Newline, Return}}
  IN IF kept = {} THEN <<>> ELSE SubSeq(str, Min(kept), Max(kept))

\* Mutant: only a text with a quote is quoted.
QuotedStringBare(str) ==
  LET doubled == ReplaceToken(str, Quote, <<Quote, Quote>>)
  IN ReplaceToken(IF Contains(doubled, Quote) THEN <<Quote>> \o doubled \o <<Quote>> ELSE doubled,
                  Newline, <<Backslash, LetterN>>)

QuotedString(str) ==
  LET doubled == ReplaceToken(str, Quote, <<Quote, Quote>>)
      special == Contains(doubled, Quote) \/ Contains(doubled, Comma)
  IN ReplaceToken(IF special THEN <<Quote>> \o doubled \o <<Quote>> ELSE doubled,
                  Newline, <<Backslash, LetterN>>)

\* What stands between two commas.
FieldText(raw) ==
  LET item == Trimmed(raw)
      bare == IF item # <<>> /\ Head(item) = Quote /\ Last(item) = Quote
              THEN SubSeq(item, 2, Len(item) - 1) ELSE item
  IN ReplacePair(ReplacePair(bare, Quote, Quote, Quote), Backslash, LetterN, Newline)

\* The texts between the commas outside quotes: behind an even number of quotes, as a doubled
\* one counts twice.
SplitFields(str) ==
  LET split[i \in 0..Len(str)] ==
        IF i = 0 THEN [done |-> <<>>, field |-> <<>>, quoted |-> FALSE]
        ELSE LET acc == split[i - 1]
             IN IF str[i] = Comma /\ ~acc.quoted
                THEN [acc EXCEPT !.done = Append(@, acc.field), !.field = <<>>]
                ELSE [acc EXCEPT !.field = Append(@, str[i]), !.quoted = (@ # (str[i] = Quote))]
      end == split[Len(str)]
  IN Append(end.done, end.field)

GetItemsFromQuotedString(str) ==
  LET raw == SplitFields(str) IN [n \in DOMAIN raw |-> FieldText(raw[n])]

SplitLines(lines) == [i \in DOMAIN lines |-> SelectSeq(lines[i], LAMBDA t : t # Return)]

Line(fields) == Tail(FlattenSeq([i \in DOMAIN fields |-> <<Comma>> \o fields[i]]))

-----------------------------------------------------------------------------
(* The configuration.                                                      *)

ModuleTypes == 0..5
Protocols == 0..5
OSC == 0
SACN == 2
ArtNet == 3
MIDI == 4
OTP == 5
FrameModes == 0..2
InvalidFrameMode == 9

NoSettings == [sACNIP |-> <<>>, artNetIP |-> <<>>, levelChangesOnly |-> FALSE, script |-> <<>>,
               otpIP |-> <<>>, otpModuleTypes |-> {0}]
NoContents == [settings |-> NoSettings, variables |-> <<>>, routes |-> <<>>, connections |-> <<>>,
               muteIncoming |-> FALSE, muteOutgoing |-> FALSE]

SanitizeProtocol(p) == IF p \in Protocols THEN p ELSE OSC
ValidPort(protocol, port) ==
  CASE protocol \in {ArtNet, MIDI} -> TRUE
    [] protocol = OTP -> port \in 0..200
    [] OTHER -> port # 0

\* A transform is enabled if it is a number.
StringToTransform(text) ==
  IF IsNumber(text) \/ \E n \in DOMAIN LongNumbers : text \in {<<n>>, <<LongNumbers[n]>>} THEN text ELSE <<>>

\* QString::number has six significant digits.
TransformToString(t) == IF \E n \in DOMAIN LongNumbers : t = <<n>> THEN <<LongNumbers[t[1]]>> ELSE t

SettingsFields(s) ==
  <<<<"Settings">>, QuotedString(s.sACNIP), QuotedString(s.artNetIP), FromBool(s.levelChangesOnly),
    QuotedString(s.script), QuotedString(s.otpIP)>>
  \o [n \in 1..Cardinality(ModuleTypes) |-> FromBool(n - 1 \in s.otpModuleTypes)]

VariableFields(v) == <<<<"Variable">>, QuotedString(v.name), QuotedString(v.value)>>

MuteFields(c) == <<<<"Mute">>, FromBool(c.muteIncoming), FromBool(c.muteOutgoing)>>

RouteFields(r) ==
  <<QuotedString(r.label), QuotedString(r.src.ip), FromInt(r.src.port), QuotedString(r.src.path),
    TransformToString(r.inMin), TransformToString(r.inMax),
    QuotedString(r.dst.ip), FromInt(r.dst.port), QuotedString(r.dst.path),
    TransformToString(r.outMin), TransformToString(r.outMax), QuotedString(r.scriptText), QuotedString(r.src.multicast),
    FromInt(r.src.protocol), FromInt(r.dst.protocol), FromBool(r.enable), FromBool(~r.mute),
    QuotedString(r.dst.multicast), QuotedString(r.notes)>>

ConnectionFields(c) ==
  <<QuotedString(c.label), FromBool(c.server), FromInt(c.frameMode), QuotedString(c.ip),
    FromInt(c.port)>>

\* The file of a configuration, ending with a newline.  A variable without a name is not
\* written.
Save(c) ==
  LET Lines(Fields(_), records) == [i \in DOMAIN records |-> Line(Fields(records[i]))]
  IN <<Line(SettingsFields(c.settings))>>
     \o Lines(VariableFields, SelectSeq(c.variables, LAMBDA v : v.name # <<>>))
     \o <<Line(MuteFields(c))>> \o Lines(RouteFields, c.routes)
     \o Lines(ConnectionFields, c.connections) \o <<<<>>>>

-----------------------------------------------------------------------------
(* Loading: every line is tried as each kind of record.                    *)

Has(items, keyword) == items[1] = <<keyword>>

IsKeywordRecord(items) == Has(items, "Settings") \/ Has(items, "Mute") \/ Has(items, "Variable")

\* Item n, and what there is instead where the line is too short for it.
ItemOr(items, n, other) == IF n \in DOMAIN items THEN items[n] ELSE other
IsOn(items, n, other) == IF n \in DOMAIN items THEN ToInt(items[n]) # 0 ELSE other

LoadSettingsLine(items, c) ==
  IF ~(Len(items) >= 3 /\ Has(items, "Settings")) THEN c
  ELSE [c EXCEPT !.settings =
         [sACNIP |-> items[2], artNetIP |-> items[3],
          levelChangesOnly |-> IsOn(items, 4, @.levelChangesOnly),
          script |-> ItemOr(items, 5, @.script),
          otpIP |-> ItemOr(items, 6, @.otpIP),
          otpModuleTypes |-> IF Len(items) > 6 THEN {m \in ModuleTypes : IsOn(items, m + 7, FALSE)}
                             ELSE @.otpModuleTypes]]

LoadVariableLine(items, c) ==
  IF ~(Len(items) = 3 /\ Has(items, "Variable")) THEN c
  ELSE [c EXCEPT !.variables = Append(@, [name |-> items[2], value |-> items[3]])]

RouteOf(items) ==
  [label |-> items[1],
   src |-> [ip |-> items[2], port |-> ToInt(items[3]), path |-> items[4],
            multicast |-> ItemOr(items, 13, <<>>),
            protocol |-> SanitizeProtocol(ToInt(ItemOr(items, 14, <<>>)))],
   inMin |-> StringToTransform(items[5]), inMax |-> StringToTransform(items[6]),
   dst |-> [ip |-> items[7], port |-> ToInt(items[8]), path |-> items[9],
            multicast |-> ItemOr(items, 18, <<>>),
            protocol |-> SanitizeProtocol(ToInt(ItemOr(items, 15, <<>>)))],
   outMin |-> StringToTransform(items[10]), outMax |-> StringToTransform(items[11]),
   scriptText |-> ItemOr(items, 12, <<>>),
   enable |-> IsOn(items, 16, TRUE), mute |-> ~IsOn(items, 17, TRUE),
   notes |-> ItemOr(items, 19, <<>>)]

LoadRouteLine(items, c) ==
  CASE Len(items) = 3 /\ Has(items, "Mute") ->
         [c EXCEPT !.muteIncoming = IsOn(items, 2, FALSE), !.muteOutgoing = IsOn(items, 3, FALSE)]
    [] Len(items) > 10 /\ ~IsKeywordRecord(items) -> [c EXCEPT !.routes = Append(@, RouteOf(items))]
    [] OTHER -> c

LoadConnectionLine(items, c) ==
  IF Len(items) # 5 \/ IsKeywordRecord(items) THEN c
  ELSE [c EXCEPT !.connections = Append(@,
         [label |-> items[1], server |-> IsOn(items, 2, FALSE),
          frameMode |-> IF IsNumber(items[3]) /\ ToInt(items[3]) \in FrameModes THEN ToInt(items[3])
                        ELSE InvalidFrameMode,
          ip |-> items[4], port |-> ToInt(items[5])])]

\* Connections need a port, and an address of their own.
Validate(c) ==
  [c EXCEPT !.connections =
    FoldLeft(LAMBDA kept, x :
               IF x.port = 0 \/ \E y \in Range(kept) : y.ip = x.ip /\ y.port = x.port THEN kept
               ELSE Append(kept, x),
             <<>>, @)]

LoadLine(c, line) ==
  LET items == GetItemsFromQuotedString(line)
  IN LoadConnectionLine(items, LoadRouteLine(items, LoadVariableLine(items, LoadSettingsLine(items, c))))

LoadLines(lines) == Validate(FoldLeft(LoadLine, NoContents, lines))

-----------------------------------------------------------------------------
(* Variables, and what the interface says of a configuration.              *)

\* Where a reference to a variable begins: a dollar and the longest name behind it.
References(text) ==
  {i \in 1..Len(text) - 1 : text[i] = Dollar /\ text[i + 1] \in VariableNames}

HasVariableReference(text) == References(text) # {}

\* One pass: what a variable stands for is not searched for references.
Resolve(text, variables) ==
  IF ~HasVariableReference(text) THEN text
  ELSE FlattenSeq([i \in DOMAIN text |->
    LET Defining(name) == {v \in DOMAIN variables : variables[v].name = <<name>>}
    IN IF i \in References(text)
       THEN IF Defining(text[i + 1]) = {} THEN <<Dollar, text[i + 1]>>
            ELSE variables[Min(Defining(text[i + 1]))].value
       ELSE IF i - 1 \in References(text) THEN <<>>
       ELSE <<text[i]>>])

\* The names in a text that no variable gives another text than the reference.
UndefinedIn(text, variables) ==
  {text[i + 1] : i \in {j \in References(text) :
                         Resolve(<<Dollar, text[j + 1]>>, variables) = <<Dollar, text[j + 1]>>}}

Addresses(r) == {r.src.ip, r.dst.ip, r.src.multicast, r.dst.multicast}

\* The error that the interface shows for a route, which says that it does not run.
RouteIssue(r, variables) ==
  CASE ~ValidPort(r.src.protocol, r.src.port) -> "incoming"
    [] ValidPort(r.src.protocol, r.src.port) /\ ~ValidPort(r.dst.protocol, r.dst.port) -> "outgoing"
    [] ValidPort(r.src.protocol, r.src.port) /\ ValidPort(r.dst.protocol, r.dst.port)
         /\ \E a \in Addresses(r) : UndefinedIn(a, variables) # {} -> "undefined"
    [] OTHER -> "none"
=============================================================================
