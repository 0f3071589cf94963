------------------------------ MODULE ConfigStore ------------------------------
(***************************************************************************)
(* The configuration of the daemon in memory, in its file and in the       *)
(* routing engine: the requests that change and save it, as                *)
(* HttpServer::HandleApiRequest and RouterController carry them out, the   *)
(* start and the end of the process, and crashes, in the middle of a save  *)
(* too.  Controller has what the engine and the browsers are told of item  *)
(* states; here the engine is the routes and connections it was given.     *)
(***************************************************************************)
EXTENDS ConfigFile

CONSTANTS
  PutContents,  \* configurations that browsers put, as ConfigFromJson reads them
  PutTexts,     \* texts of the file that browsers put
  Cuts,         \* how much is in the file when a save ends early: lines and tokens
  MuteAlls,     \* what browsers mute: pairs of incoming and outgoing
  NoneStored

ASSUME StoreAssumption == MuteAlls \subseteq BOOLEAN \X BOOLEAN

VARIABLES
  stored,    \* m_Contents, NoneStored when the process does not run
  file,      \* the text of the file, NoneStored if there is none
  writable,  \* whether the file can be opened for writing
  engine,    \* the routes and connections of m_RouterThread, NoneStored if there is none
  started,   \* history: the routes are those that Start prepared
  unsaved,   \* history: something changed that was not saved
  cut        \* history: the routes but the last one of the save that wrote this file, if it has ended early

storeVars == <<stored, file, writable, engine, started, unsaved, cut>>

StoreInit ==
  /\ stored = NoContents
  /\ file = NoneStored
  /\ writable = TRUE
  /\ engine = NoneStored
  /\ started = FALSE
  /\ unsaved = TRUE
  /\ cut = NoneStored

Running == stored # NoneStored

-----------------------------------------------------------------------------
(* RouterController::PrepareForRouting, of which Controller has the rest.  *)

ResolvedEnd(e, variables) ==
  [e EXCEPT !.ip = Resolve(@, variables), !.multicast = Resolve(@, variables)]

\* EosRouteSrc and EosRouteDst of a route, by which duplicates are found.
Ends(r, variables) ==
  [src |-> ResolvedEnd(r.src, variables), dst |-> ResolvedEnd(r.dst, variables),
   values |-> <<r.inMin, r.inMax, r.outMin, r.outMax, r.scriptText>>]

\* What the engine has of a route; of mutes it is told through the item states.
EngineRoute(r, variables) == [ends |-> Ends(r, variables), enable |-> r.enable]

\* Mutant: references are looked for before variables are resolved.
EngineRoutesUnresolved(c) ==
  FoldLeft(LAMBDA kept, r : LET x == EngineRoute(r, c.variables)
                            IN IF \/ ~ValidPort(r.src.protocol, r.src.port)
                                  \/ HasVariableReference(r.src.ip) \/ HasVariableReference(r.dst.ip)
                                  \/ \E k \in Range(kept) : k.ends = x.ends
                               THEN kept ELSE Append(kept, x),
           <<>>, c.routes)

EngineRoutes(c) ==
  FoldLeft(LAMBDA kept, r : LET x == EngineRoute(r, c.variables)
                            IN IF \/ ~ValidPort(r.src.protocol, r.src.port)
                                  \/ HasVariableReference(x.ends.src.ip) \/ HasVariableReference(x.ends.dst.ip)
                                  \/ \E k \in Range(kept) : k.ends = x.ends
                               THEN kept ELSE Append(kept, x),
           <<>>, c.routes)

AnyAddress == <<"0", ".0.0.0">>

EngineConnections(c) ==
  FoldLeft(LAMBDA kept, x : LET ip == Resolve(x.ip, c.variables)
                                y == [x EXCEPT !.ip = IF ip = AnyAddress THEN <<>> ELSE ip]
                            IN IF \/ x.port = 0 \/ HasVariableReference(ip)
                                  \/ \E k \in Range(kept) : k.ip = y.ip /\ k.port = y.port
                               THEN kept ELSE Append(kept, y),
           <<>>, c.connections)

\* RouterController::Start: nothing is started without routes.
StoreStartWith(c) ==
  /\ \E routes \in {EngineRoutes(c)} :
       engine' = IF routes = <<>> THEN NoneStored
                 ELSE [routes |-> routes, connections |-> EngineConnections(c)]
  /\ started' = TRUE

KeepEngine == UNCHANGED <<engine, started>>

-----------------------------------------------------------------------------
(* What a file can be expected to keep.                                    *)

\* A text that the format can hold: see the README for those that it cannot.
CleanText(text) ==
  /\ ~Contains(text, Return)
  /\ \A i \in 1..Len(text) - 1 : ~(text[i] = Backslash /\ text[i + 1] = LetterN)
  /\ Trimmed(text) = text \/ Contains(text, Comma) \/ Contains(text, Quote)

CleanLabel(text) == CleanText(text) /\ text \notin {<<"Settings">>, <<"Mute">>, <<"Variable">>}

Clean(c) ==
  /\ \A t \in {c.settings.sACNIP, c.settings.artNetIP, c.settings.script, c.settings.otpIP} : CleanText(t)
  /\ \A v \in Range(c.variables) : CleanText(v.name) /\ CleanText(v.value)
  /\ \A r \in Range(c.routes) :
       CleanLabel(r.label) /\ \A t \in Addresses(r) \cup {r.src.path, r.dst.path, r.scriptText, r.notes} : CleanText(t)
  /\ \A x \in Range(c.connections) : CleanLabel(x.label) /\ CleanText(x.ip)

\* What a file keeps of a configuration: no variable without a name, six digits of a transform.
Kept(c) ==
  LET Rounded(r) == [r EXCEPT !.inMin = TransformToString(@), !.inMax = TransformToString(@),
                              !.outMin = TransformToString(@), !.outMax = TransformToString(@)]
  IN Validate([c EXCEPT !.variables = SelectSeq(@, LAMBDA v : v.name # <<>>),
                        !.routes = [n \in DOMAIN @ |-> Rounded(@[n])]])

\* The routes but the last one, as a file keeps them: a file that ends early has the first of them
\* whole, and behind those at most one in part.
AllButLast(c) == IF Clean(c) THEN Front(Kept(c).routes) ELSE NoneStored

-----------------------------------------------------------------------------
(* SaveConfigFile, and the requests.                                       *)

\* What there can be of a file whose writing ends early.
CutShort(lines) ==
  {Append(SubSeq(lines, 1, at.lines), SubSeq(lines[at.lines + 1], 1, at.tokens)) :
     at \in {a \in Cuts : a.lines < Len(lines) /\ a.tokens <= Len(lines[a.lines + 1])}}

\* ConfigFile::SaveFile: the file cannot be opened, or is overwritten.  That a write fails
\* then, as on a full disk, is not noticed.
SaveFile(c) ==
  /\ IF ~writable THEN unsaved' = TRUE /\ UNCHANGED <<file, cut>>
     ELSE \E text \in {Save(c)} :
            \/ file' = text /\ unsaved' = FALSE /\ cut' = NoneStored
            \/ file' \in CutShort(text) /\ unsaved' = TRUE /\ cut' = AllButLast(c)
  /\ UNCHANGED writable

\* PUT /api/config: the memory is changed even if the file cannot be.
StorePutConfig(c) ==
  /\ stored' = c
  /\ SaveFile(c)
  /\ started' = FALSE
  /\ UNCHANGED engine

\* PUT /api/file: the text is saved as it is, and loaded, whether all of it could be written
\* or not.
StorePutFile(text) ==
  IF ~writable THEN UNCHANGED storeVars
  ELSE /\ \/ file' = text /\ unsaved' = FALSE
          \/ file' \in CutShort(text) /\ unsaved' = TRUE
       /\ stored' = LoadLines(SplitLines(text))
       /\ started' = FALSE /\ cut' = NoneStored
       /\ UNCHANGED <<engine, writable>>

\* POST /api/config/apply
StoreApply ==
  /\ SaveFile(stored)
  /\ IF writable THEN StoreStartWith(stored) ELSE KeepEngine
  /\ UNCHANGED stored

\* POST /api/start and /api/stop
StoreStart == StoreStartWith(stored) /\ UNCHANGED <<stored, file, writable, unsaved, cut>>
StoreStop == engine' = NoneStored /\ started' = FALSE /\ UNCHANGED <<stored, file, writable, unsaved, cut>>

\* POST /api/mute-all: the one change that is not saved.
StoreMuteAll(incoming, outgoing) ==
  /\ stored' = [stored EXCEPT !.muteIncoming = incoming, !.muteOutgoing = outgoing]
  /\ unsaved' = TRUE
  /\ KeepEngine
  /\ UNCHANGED <<file, writable, cut>>

\* POST /api/routes/<n>/mute: answered alike whether the file could be written or not.
StoreMute(n, value) ==
  /\ n \in DOMAIN stored.routes
  /\ stored' = [stored EXCEPT !.routes[n].mute = value]
  /\ SaveFile(stored')
  /\ KeepEngine

\* POST /api/routes/<n>/enable
StoreEnable(n, value) ==
  /\ n \in DOMAIN stored.routes
  /\ stored' = [stored EXCEPT !.routes[n].enable = value]
  /\ SaveFile(stored')
  /\ StoreStartWith(stored')

StoreRequest ==
  /\ Running
  /\ \/ \E c \in PutContents : StorePutConfig(c)
     \/ \E text \in PutTexts : StorePutFile(text)
     \/ StoreApply
     \/ StoreStart
     \/ StoreStop
     \/ \E m \in MuteAlls : StoreMuteAll(m[1], m[2])
     \/ \E n \in DOMAIN stored.routes, value \in BOOLEAN : StoreMute(n, value) \/ StoreEnable(n, value)

-----------------------------------------------------------------------------
(* The process, and what is outside of it.                                 *)

\* What is lost with the process.
Gone ==
  /\ stored' = NoneStored /\ engine' = NoneStored /\ started' = FALSE /\ unsaved' = FALSE

\* The process is killed, or crashes, while nothing is being saved.
StoreEnd == Running /\ Gone /\ UNCHANGED <<file, writable, cut>>

\* A crash after the file has been truncated, while c is written to it.
CrashInSave(c) ==
  /\ file' \in CutShort(Save(c))
  /\ cut' = AllButLast(c)
  /\ Gone
  /\ UNCHANGED writable

StoreCrash == Running /\ writable /\ \E c \in PutContents : CrashInSave(c)

\* main: without a file, or one that can be read, the configuration is empty.
StoreBegin(start) ==
  /\ ~Running
  /\ stored' = IF file = NoneStored THEN NoContents ELSE LoadLines(SplitLines(file))
  /\ unsaved' = (file = NoneStored)
  /\ IF start THEN StoreStartWith(stored') ELSE KeepEngine
  /\ UNCHANGED <<file, writable, cut>>

ChangeWritable == writable' = ~writable /\ UNCHANGED <<stored, file, engine, started, unsaved, cut>>

StoreNext == StoreRequest \/ StoreEnd \/ StoreCrash \/ (\E start \in BOOLEAN : StoreBegin(start)) \/ ChangeWritable

StoreSpec == StoreInit /\ [][StoreNext]_storeVars

-----------------------------------------------------------------------------
(* Properties.                                                             *)

StoreTypeOK ==
  /\ writable \in BOOLEAN /\ started \in BOOLEAN /\ unsaved \in BOOLEAN
  /\ ~Running => engine = NoneStored /\ ~started
  /\ engine = NoneStored \/ engine.routes # <<>>

\* What a file keeps of the configuration in memory survives the end of the process, unless
\* mute-all was the last to change it, or the file could not be written, whether that was
\* noticed, as it could not be opened, or not.
RestartKeeps ==
  Running /\ ~unsaved /\ Clean(stored) => LoadLines(SplitLines(file)) = Kept(stored)

\* After a save that a crash or a failed write has ended early, the routes that load are those
\* that were being saved, up to the last one that is there, of which the end can be missing.
CutLosesTail ==
  Running /\ cut # NoneStored =>
    LET loaded == LoadLines(SplitLines(file)).routes
    IN Len(loaded) <= Len(cut) + 1 /\ \A n \in 1..Len(loaded) - 1 : loaded[n] = cut[n]

FileKeeps == RestartKeeps /\ CutLosesTail

\* A dollar that begins no reference stays one: "$$desk" becomes "$10.0.0.1".
StrayDollar(text) == \E i \in DOMAIN text \ References(text) : text[i] = Dollar

\* An enabled route that the interface has no error for is in the engine once it is started,
\* and enabled there, unless a dollar is left in one of its addresses, stray or from the value
\* of a variable, or the engine has taken a disabled route with the same ends instead, which
\* comes first.
RunnableRuns ==
  Running /\ started /\ (\A v \in Range(stored.variables) : ~Contains(v.value, Dollar)) =>
    \A n \in DOMAIN stored.routes :
      LET r == stored.routes[n]
          EndsOf(m) == Ends(stored.routes[m], stored.variables)
          hidden == \E m \in 1..n - 1 : ~stored.routes[m].enable /\ EndsOf(m) = EndsOf(n)
      IN r.enable /\ RouteIssue(r, stored.variables) = "none" /\ ~StrayDollar(r.src.ip) /\ ~StrayDollar(r.dst.ip) =>
           engine # NoneStored /\ \E x \in Range(engine.routes) : x.ends = EndsOf(n) /\ (x.enable \/ hidden)
=============================================================================
