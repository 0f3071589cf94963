----------------------------- MODULE EventStream -----------------------------
(***************************************************************************)
(* The log in the browsers: RouterController numbers its lines and keeps   *)
(* the last of them, HttpServer sends them to every event stream, and a    *)
(* browser whose stream breaks reconnects with the id of the last line it  *)
(* was sent, perhaps to another process than before.  What the streams     *)
(* carry besides are snapshots without an id, which Controller models.     *)
(***************************************************************************)
EXTENDS Naturals, SequencesExt

CONSTANTS
  Browsers,
  HistorySize,  \* MAX_LOG_HISTORY
  LogBound,     \* lines that a process logs at most
  RunBound,     \* processes one after the other
  NoStream

ASSUME EventAssumption ==
  /\ HistorySize \in Nat \ {0} /\ LogBound \in Nat /\ RunBound \in Nat \ {0}
  /\ NoStream \notin Seq([run: Nat, id: Nat])

VARIABLES
  runId,      \* m_RunId
  nextLogId,  \* m_NextLogId
  logHistory, \* m_LogHistory: the ids of its lines
  stream,     \* per browser: what is on the way to it, NoStream without a connection
  lastEvent,  \* per browser: the id of the last line it was sent: process and number
  pane        \* per browser: the lines in its log pane, by their ids

eventVars == <<runId, nextLogId, logHistory, stream, lastEvent, pane>>

NoEvent == [run |-> 0, id |-> 0]
Event(run, id) == [run |-> run, id |-> id]

EventInit ==
  /\ runId = 1 /\ nextLogId = 1 /\ logHistory = <<>>
  /\ stream = [b \in Browsers |-> NoStream]
  /\ lastEvent = [b \in Browsers |-> NoEvent]
  /\ pane = [b \in Browsers |-> <<>>]

\* HttpServer::onLogMessage: SendEvent to every client that is connected.
SendEvents(event) ==
  stream' = [b \in Browsers |-> IF stream[b] = NoStream THEN NoStream ELSE Append(stream[b], event)]

\* RouterController::Sync of a line.
LogMessage ==
  /\ nextLogId <= LogBound
  /\ LET trimmed == Append(logHistory, nextLogId)
     IN logHistory' = IF Len(trimmed) > HistorySize THEN Tail(trimmed) ELSE trimmed
  /\ nextLogId' = nextLogId + 1
  /\ SendEvents(Event(runId, nextLogId))
  /\ UNCHANGED <<runId, lastEvent, pane>>

\* The lines that a browser has not been sent: all, if it names another process.
Replayed(last) ==
  LET since == IF last.run = runId THEN last.id ELSE 0
      kept[n \in 0..Len(logHistory)] ==
        IF n = 0 THEN <<>>
        ELSE IF logHistory[n] <= since THEN kept[n - 1] ELSE Append(kept[n - 1], logHistory[n])
  IN kept[Len(logHistory)]

\* HttpServer::BeginEventStream.  The request holds the browser's last id.
BeginEventStream(b) ==
  /\ stream[b] = NoStream
  /\ LET ids == Replayed(lastEvent[b])
     IN stream' = [stream EXCEPT ![b] = [i \in DOMAIN ids |-> Event(runId, ids[i])]]
  /\ UNCHANGED <<runId, nextLogId, logHistory, lastEvent, pane>>

\* The listener of connectEvents for "log", and appendLog.
AppendLog(b) ==
  /\ stream[b] # NoStream /\ stream[b] # <<>>
  /\ lastEvent' = [lastEvent EXCEPT ![b] = Head(stream[b])]
  /\ pane' = [pane EXCEPT ![b] = Append(@, Head(stream[b]))]
  /\ stream' = [stream EXCEPT ![b] = Tail(@)]
  /\ UNCHANGED <<runId, nextLogId, logHistory>>

\* The connection breaks, with what is on the way; the browser will connect again.  Until
\* onDisconnected the server writes in vain.
BreakStream(b) ==
  /\ stream[b] # NoStream
  /\ stream' = [stream EXCEPT ![b] = NoStream]
  /\ UNCHANGED <<runId, nextLogId, logHistory, lastEvent, pane>>

\* The page is loaded anew.
LoadPage(b) ==
  /\ pane[b] # <<>>
  /\ stream' = [stream EXCEPT ![b] = NoStream]
  /\ lastEvent' = [lastEvent EXCEPT ![b] = NoEvent]
  /\ pane' = [pane EXCEPT ![b] = <<>>]
  /\ UNCHANGED <<runId, nextLogId, logHistory>>

\* The process ends, and another begins.
NewProcess ==
  /\ runId < RunBound
  /\ runId' = runId + 1 /\ nextLogId' = 1 /\ logHistory' = <<>>
  /\ stream' = [b \in Browsers |-> NoStream]
  /\ UNCHANGED <<lastEvent, pane>>

EventNext ==
  \/ LogMessage
  \/ NewProcess
  \/ \E b \in Browsers : BeginEventStream(b) \/ AppendLog(b) \/ BreakStream(b) \/ LoadPage(b)

EventSpec == EventInit /\ [][EventNext]_eventVars

-----------------------------------------------------------------------------
(* Properties.                                                             *)

EventTypeOK ==
  /\ runId \in 1..RunBound /\ nextLogId \in 1..LogBound + 1
  /\ logHistory \in Seq(1..LogBound) /\ Len(logHistory) <= HistorySize
  /\ \A b \in Browsers : pane[b] \in Seq([run : 1..RunBound, id : 1..LogBound])

\* A line e directly after d (or first, with d = NoEvent): nothing is repeated or out of
\* order, and lines of e's process are only missing before e that the history had lost.
\* Of a process that has ended, any number of the last lines can be missing.
Follows(d, e) ==
  LET before == IF d.run = e.run THEN d.id ELSE 0
  IN /\ d.run <= e.run /\ before < e.id
     /\ e.id = before + 1 \/ (e.run = runId => e.id + HistorySize <= nextLogId)

\* The log pane of a browser has each line once and in order, through lost connections and
\* restarts of the process, and misses only lines that the history has lost; and while the
\* stream is open, whatever was logged is there or on its way.
LogFollows ==
  \A b \in Browsers :
    LET wire == IF stream[b] = NoStream THEN <<>> ELSE stream[b]
        lines == <<NoEvent>> \o pane[b] \o wire
    IN /\ \A i \in 1..Len(lines) - 1 : Follows(lines[i], lines[i + 1])
       /\ stream[b] # NoStream /\ nextLogId > 1 => Last(lines) = Event(runId, nextLogId - 1)
=============================================================================
