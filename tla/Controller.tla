------------------------------ MODULE Controller ------------------------------
(***************************************************************************)
(* The daemon's RouterController: it holds the configuration, prepares a   *)
(* RouterThread from it, exchanges item states with the thread on a timer, *)
(* and carries out the requests of HttpServer, which reports item states   *)
(* to the browsers.  Requests and ticks run in one thread, each to its end;*)
(* the router thread runs beside it and takes m_Mutex around each change   *)
(* of its table.                                                           *)
(*                                                                         *)
(* A route's addresses are resolved already: one of Addrs, BadPort where   *)
(* the port is not valid for the protocol, or Undefined where a variable   *)
(* has no definition.  What else makes two routes different (path,         *)
(* protocol) is its `path`.  The configuration file is left out.           *)
(***************************************************************************)
EXTENDS ItemStates, SequencesExt

CONSTANTS
  Addrs,          \* ip and port
  BadPort,
  Undefined,
  Paths,
  Configurations, \* the configurations that are loaded or put
  Traffic,        \* whether packets pass
  None

Route == [enable: BOOLEAN, mute: BOOLEAN, path: Paths,
          src: Addrs \cup {BadPort, Undefined}, dst: Addrs \cup {BadPort, Undefined}]
Contents == [routes: Seq(Route), connections: Seq(Addrs \cup {BadPort, Undefined}),
             muteAll: SUBSET Directions]

ASSUME ControllerAssumption ==
  /\ Configurations \subseteq Contents
  /\ BadPort \notin Addrs /\ Undefined \notin Addrs /\ BadPort # Undefined
  /\ Traffic \in BOOLEAN

VARIABLES
  contents,   \* m_Contents
  table,      \* m_ItemStateTable
  ids,        \* m_RouteStateIds
  seen,       \* the ids m_LastActivity has
  router,     \* m_RouterThread: the routes, connections and table it was given, or None
  shown,      \* the item states a browser was sent last, None without a browser
  busy,       \* history: the ids that the router marked active since Start
  cleared,    \* history: Start cleared the table, and nothing was sent to the browser since
  applied     \* history: the configuration is the one Start prepared, but for live edits

vars == <<contents, table, ids, seen, router, shown, busy, cleared, applied>>

NoIds == [src |-> 0, dst |-> 0]

Init ==
  /\ contents \in Configurations
  /\ table = EmptyTable
  /\ ids = <<>>
  /\ seen = {}
  /\ router = None
  /\ shown = None
  /\ busy = {}
  /\ cleared = FALSE
  /\ applied = FALSE

-----------------------------------------------------------------------------
(* RouterController::PrepareForRouting.                                    *)

\* insert of a map.
Inserted(map, key, value) == [k \in DOMAIN map \cup {key} |-> IF k = key THEN value ELSE map[k]]

\* The id of an address, which its first route registers.
WithSrc(acc, r) ==
  IF r.src \in DOMAIN acc.srcStates THEN acc
  ELSE [acc EXCEPT !.table = Register(@, FALSE),
                   !.srcStates = Inserted(@, r.src, Len(acc.table.items) + 1)]

\* Mutant: destinations are registered like sources, not muted.
WithDstUnmuted(acc, r) ==
  IF r.dst \in DOMAIN acc.dstStates THEN acc
  ELSE [acc EXCEPT !.table = Register(@, FALSE),
                   !.dstStates = Inserted(@, r.dst, Len(acc.table.items) + 1)]

WithDst(acc, r) ==
  IF r.dst \in DOMAIN acc.dstStates THEN acc
  ELSE [acc EXCEPT !.table = Register(@, r.mute),
                   !.dstStates = Inserted(@, r.dst, Len(acc.table.items) + 1)]

CannotRun(r) == r.src = BadPort \/ r.src = Undefined \/ r.dst = Undefined

SameRoute(r, other) == r.src = other.src /\ r.dst = other.dst /\ r.path = other.path

PrepareRoute(acc, r) ==
  IF CannotRun(r) \/ \E p \in Range(acc.routes) : SameRoute(p, r)
  THEN [acc EXCEPT !.ids = Append(@, NoIds)]
  ELSE LET registered == WithDst(WithSrc(acc, r), r)
           id == [src |-> registered.srcStates[r.src], dst |-> registered.dstStates[r.dst]]
       IN [registered EXCEPT !.ids = Append(@, id),
                             !.routes = Append(@, [src |-> r.src, dst |-> r.dst, path |-> r.path,
                                                   enable |-> r.enable, id |-> id])]

PrepareConnection(acc, addr) ==
  IF addr \in {BadPort, Undefined} \cup {c.addr : c \in Range(acc.connections)} THEN acc
  ELSE [acc EXCEPT !.table = Register(@, FALSE),
                   !.connections = Append(@, [addr |-> addr, id |-> Len(acc.table.items) + 1])]

\* The routes in the order of the table, and then the connections.
RoutesPrepared(routes, start) ==
  LET acc[n \in 0..Len(routes)] == IF n = 0 THEN start ELSE PrepareRoute(acc[n - 1], routes[n])
  IN  acc[Len(routes)]

ConnectionsPrepared(connections, start) ==
  LET acc[n \in 0..Len(connections)] ==
        IF n = 0 THEN start ELSE PrepareConnection(acc[n - 1], connections[n])
  IN  acc[Len(connections)]

\* Before the first route: Clear, and the mutes of all routes.
NothingPrepared(t, muteAll) ==
  [table |-> [Clear(t) EXCEPT !.muteAll = muteAll], ids |-> <<>>, routes |-> <<>>,
   connections |-> <<>>, srcStates |-> <<>>, dstStates |-> <<>>]

PrepareForRouting(c, t) ==
  ConnectionsPrepared(c.connections, RoutesPrepared(c.routes, NothingPrepared(t, c.muteAll)))

-----------------------------------------------------------------------------
(* What a browser is sent: ItemStatesToJson, per route by index.           *)

ItemStates(t) ==
  LET Shown(id) == IF id \in DOMAIN t.items THEN <<t.items[id].state, t.items[id].activity>> ELSE <<>>
  IN [n \in DOMAIN ids |-> [src |-> Shown(ids[n].src), dst |-> Shown(ids[n].dst)]]

\* StampActivity: the routes' endpoints that are active.
Stamped(t) ==
  {id \in DOMAIN t.items : t.items[id].activity /\ \E n \in DOMAIN ids : id \in {ids[n].src, ids[n].dst}}

\* Stop: the thread deactivates its table when it ends, and is synchronised a last time.
TableAfterStop == IF router = None THEN table ELSE SyncUi(table, Deactivate(router.table))

\* Mutant: m_LastActivity keeps the ids of the table that was cleared.
StartWithActivity(c) ==
  \E prepared \in {PrepareForRouting(c, TableAfterStop)} :
     /\ table' = prepared.table
     /\ ids' = prepared.ids
     /\ router' = IF prepared.routes = <<>> THEN None
                  ELSE [routes |-> prepared.routes, connections |-> prepared.connections,
                        table |-> prepared.table]
     /\ busy' = {} /\ cleared' = TRUE /\ applied' = TRUE
     /\ UNCHANGED <<seen, shown>>

\* Start, with configuration c.
StartWith(c) ==
  \E prepared \in {PrepareForRouting(c, TableAfterStop)} :
     /\ table' = prepared.table
     /\ ids' = prepared.ids
     /\ router' = IF prepared.routes = <<>> THEN None
                  ELSE [routes |-> prepared.routes, connections |-> prepared.connections,
                        table |-> prepared.table]
     /\ seen' = {} /\ busy' = {} /\ cleared' = TRUE /\ applied' = TRUE
     /\ UNCHANGED shown

-----------------------------------------------------------------------------
(* The requests of HttpServer::HandleApiRequest.                           *)

\* POST /api/start.
PostStart == StartWith(contents) /\ UNCHANGED contents

\* POST /api/stop.
PostStop ==
  /\ table' = TableAfterStop
  /\ router' = None
  /\ UNCHANGED <<contents, ids, seen, shown, busy, cleared, applied>>

\* PUT /api/config and /api/file: the configuration is replaced, not the prepared one.
\* That of the file is not if it cannot be written, and nothing else changes then.
PutConfig(c) ==
  /\ contents' = c
  /\ applied' = FALSE
  /\ UNCHANGED <<table, ids, seen, router, shown, busy, cleared>>

\* POST /api/config/apply: nothing happens if the configuration cannot be saved.
PostApply ==
  \/ PostStart
  \/ UNCHANGED vars

\* POST /api/routes/<n>/mute.  Where m_RouteStateIds is too short for n, an id is read
\* from behind its end.
PostMute(n, value) ==
  /\ n \in DOMAIN contents.routes
  /\ contents' = [contents EXCEPT !.routes[n].mute = value]
  /\ \E id \in IF n \in DOMAIN ids THEN {ids[n].dst} ELSE 0..Len(table.items) :
       table' = Mute(table, id, value)
  /\ UNCHANGED <<ids, seen, router, shown, busy, cleared, applied>>

\* POST /api/routes/<n>/enable.
PostEnable(n, value) ==
  /\ n \in DOMAIN contents.routes
  /\ contents' = [contents EXCEPT !.routes[n].enable = value]
  /\ StartWith(contents')

\* POST /api/mute-all.
PostMuteAll(directions) ==
  /\ contents' = [contents EXCEPT !.muteAll = directions]
  /\ table' = [table EXCEPT !.muteAll = directions]
  /\ UNCHANGED <<ids, seen, router, shown, busy, cleared, applied>>

\* GET /api/events, and the end of the stream.
Connect ==
  /\ shown' = ItemStates(table)
  /\ cleared' = FALSE
  /\ UNCHANGED <<contents, table, ids, seen, router, busy, applied>>

Disconnect ==
  /\ shown # None
  /\ shown' = None
  /\ UNCHANGED <<contents, table, ids, seen, router, busy, cleared, applied>>

Request ==
  \/ PostStart
  \/ PostStop
  \/ PostApply
  \/ \E c \in Configurations : PutConfig(c)
  \/ \E n \in DOMAIN contents.routes, value \in BOOLEAN : PostMute(n, value) \/ PostEnable(n, value)
  \/ \E directions \in SUBSET Directions : PostMuteAll(directions)
  \/ Connect
  \/ Disconnect

-----------------------------------------------------------------------------
(* The timer, and the router thread.                                       *)

\* onTick: RouterController::Sync.
Tick ==
  \E synced \in {IF router = None THEN table ELSE SyncUi(table, router.table)} :
     /\ router' = IF router = None THEN None
                  ELSE [router EXCEPT !.table = SyncRouter(table, @)]
     /\ table' = IF synced.dirty THEN Reset(synced) ELSE synced
     /\ seen' = IF synced.dirty THEN seen \cup Stamped(synced) ELSE seen
     /\ shown' = IF synced.dirty /\ shown # None THEN ItemStates(synced) ELSE shown
     /\ cleared' = (cleared /\ ~synced.dirty)
     /\ UNCHANGED <<contents, ids, busy, applied>>

\* The endpoints that the thread has something to report of.
Endpoints ==
  (UNION {{r.id.src, r.id.dst} : r \in {q \in Range(router.routes) : q.enable}})
    \cup {c.id : c \in Range(router.connections)}

\* RouterThread::SetItemState.
SetItemState(id, state) ==
  /\ router.table.items[id].state # state
  /\ router' = [router EXCEPT !.table = Update(@, id, [@.items[id] EXCEPT !.state = state])]
  /\ UNCHANGED <<contents, table, ids, seen, shown, busy, cleared, applied>>

\* RouterThread::SetItemActivity.
SetItemActivity(id) ==
  /\ Traffic
  /\ ~router.table.items[id].activity
  /\ router' = [router EXCEPT !.table = Update(@, id, [@.items[id] EXCEPT !.activity = TRUE])]
  /\ busy' = busy \cup {id}
  /\ UNCHANGED <<contents, table, ids, seen, shown, cleared, applied>>

RouterStep ==
  /\ router # None
  /\ \E id \in Endpoints : SetItemActivity(id) \/ \E state \in States \ {Uninitialized} : SetItemState(id, state)

Next == Request \/ Tick \/ RouterStep

Spec == Init /\ [][Next]_vars

-----------------------------------------------------------------------------
(* Properties.                                                             *)

TypeOK ==
  /\ contents \in Contents
  /\ table \in Table
  /\ ids \in Seq([src: Nat, dst: Nat])
  /\ \A n \in DOMAIN ids : {ids[n].src, ids[n].dst} \subseteq 0..Len(table.items)
  /\ seen \cup busy \subseteq DOMAIN table.items
  /\ router = None \/ (router.table \in Table /\ Len(router.table.items) = Len(table.items))
  /\ applied \in BOOLEAN /\ cleared \in BOOLEAN

\* What the web interface muted is muted in the router as soon as nothing is pending for
\* it: neither Sync nor Reset, which both clear the pending mark, drops a mute.
MutesReachRouter ==
  router # None /\ ~table.muteDirty =>
    \A id \in DOMAIN table.items : router.table.items[id].mute = table.items[id].mute

\* What the router reports reaches the table of the web interface as soon as the router
\* has nothing pending, though both reset the activity in between.
StatesReachTable ==
  router # None /\ ~router.table.dirty =>
    \A id \in DOMAIN table.items : router.table.items[id].state = table.items[id].state

\* The activity of a route's endpoint is never lost: it is remembered by m_LastActivity,
\* or still on its way there.
NoActivityLost ==
  router # None =>
    \A r \in Range(router.routes) : \A id \in {r.id.src, r.id.dst} \cap busy :
      id \in seen \/ (router.table.items[id].activity /\ router.table.dirty)

\* The state a snapshot shows of an end of a route, without the activity, which Reset
\* clears unseen.  An end that is not in it is shown like one that is not initialized.
StateIn(snapshot, n, e) ==
  IF n \in DOMAIN snapshot /\ snapshot[n][e] # <<>> THEN snapshot[n][e][1] ELSE Uninitialized
Stale ==
  /\ shown # None
  /\ \E n \in DOMAIN shown \cup DOMAIN ids, e \in {"src", "dst"} :
       StateIn(shown, n, e) # StateIn(ItemStates(table), n, e)

\* A browser was sent the present states, unless they are about to be sent, or the table
\* was cleared by a start since.
ShownUnlessCleared == Stale => table.dirty \/ cleared

\* No other route has the destination of route n, whose item and mute they would share.
HasDestination(routes, n) == \A k \in DOMAIN routes \ {n} : routes[k].dst # routes[n].dst

\* A route that is muted in the configuration the router was started with, or was muted
\* since, is muted in the router once nothing is pending, and one that is not, is not.
MutedIsSilent ==
  router # None /\ applied /\ ~table.muteDirty =>
    \A n \in DOMAIN contents.routes :
      HasDestination(contents.routes, n) /\ ids[n].dst # 0 =>
        router.table.items[ids[n].dst].mute = contents.routes[n].mute

\* A mute of the configuration or of the web interface is one in the router.
MutesTakeEffect == MutesReachRouter /\ MutedIsSilent

\* What the router reports gets to the browsers.
StatesAreShown == StatesReachTable /\ NoActivityLost /\ ShownUnlessCleared

\* m_RouteStateIds has the ids of every route that can be addressed by its index.
IdsCoverRoutes == router # None => DOMAIN contents.routes \subseteq DOMAIN ids
=============================================================================
