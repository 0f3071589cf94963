------------------------------ MODULE WebClient ------------------------------
(***************************************************************************)
(* The pages of the web interface, app.js, and the configuration of the    *)
(* daemon that they edit.  A page has a copy of the routes, edits it, and  *)
(* saves it whole; a mute takes effect at once, by the route's index.  A   *)
(* fetch is a connection of its own: requests of one page can be handled   *)
(* in any order, and their answers come in any order too.                  *)
(***************************************************************************)
EXTENDS HttpConnections, EventStream

CONSTANTS
  Pages,
  PageRoutes,  \* the routes by what identifies them
  FlightBound  \* requests of a page under way at a time

ASSUME FlightAssumption == FlightBound \in Nat /\ IsFiniteSet(PageRoutes)

PageRoute == [uid : PageRoutes, mute : BOOLEAN]

\* What a request holds depends on its kind: a mute the place of its route, what identified
\* the route in the page, and the value; a put, and the answer to a get, the routes.
PageRequest ==
  [kind: {"mute", "put", "apply", "get"}, served: BOOLEAN, ok: BOOLEAN, index: Nat,
   uid: PageRoutes \cup {0}, value: BOOLEAN, live: BOOLEAN, fresh: BOOLEAN, routes: Seq(PageRoute)]

VARIABLES
  daemon,  \* the routes of m_Contents
  copy,    \* per page: config.routes
  dirty,   \* per page
  flight,  \* per page: the requests that are not answered, as far as they are carried out
  stale,   \* history, per page: a configuration that is not its copy has been put since it was read
  edited,  \* history, per page: it was edited while being saved, and not read since
  missed   \* history: a mute met another route than was clicked, and was no late one

webVars == <<daemon, copy, dirty, flight, stale, edited, missed>>

WebInit ==
  /\ \E order \in Injection(1..Cardinality(PageRoutes), PageRoutes) :
       daemon = [n \in DOMAIN order |-> [uid |-> order[n], mute |-> FALSE]]
  /\ copy = [p \in Pages |-> daemon]
  /\ dirty = [p \in Pages |-> FALSE]
  /\ flight = [p \in Pages |-> <<>>]
  /\ stale = [p \in Pages |-> FALSE]
  /\ edited = [p \in Pages |-> FALSE]
  /\ missed = FALSE

-----------------------------------------------------------------------------
(* The user.                                                               *)

Ask(kind) ==
  [kind |-> kind, served |-> FALSE, ok |-> TRUE, index |-> 0, uid |-> 0, value |-> FALSE,
   live |-> FALSE, fresh |-> FALSE, routes |-> <<>>]

Send(p, request) ==
  /\ Len(flight[p]) < FlightBound
  /\ flight' = [flight EXCEPT ![p] = Append(@, request)]

Saving(p) == \E i \in DOMAIN flight[p] : flight[p][i].kind \in {"put", "apply"}

\* A route is deleted, or moved up by one place: buildMenu, moveRoute, commitOrderFromDom.
\* One is left, to have something to click.
EditedRoutes(routes) ==
  {RemoveAt(routes, n) : n \in {m \in DOMAIN routes : Len(routes) > 1}}
    \cup {[routes EXCEPT ![n] = routes[n - 1], ![n - 1] = routes[n]] : n \in DOMAIN routes \ {1}}

EditRoutes(p) ==
  /\ \E routes \in EditedRoutes(copy[p]) : copy' = [copy EXCEPT ![p] = routes]
  /\ dirty' = [dirty EXCEPT ![p] = TRUE]
  /\ edited' = [edited EXCEPT ![p] = @ \/ Saving(p)]
  /\ UNCHANGED <<daemon, flight, stale, missed>>

MuteRequest(p, n) ==
  [Ask("mute") EXCEPT !.index = n, !.uid = copy[p][n].uid, !.value = ~copy[p][n].mute, !.live = TRUE,
                      !.fresh = ~stale[p] /\ ~edited[p]]

\* Mutant: a mute is sent though there are edits that are not saved.
SetRouteFlagDirty(p, n) ==
  /\ copy' = [copy EXCEPT ![p][n].mute = ~@]
  /\ Send(p, MuteRequest(p, n))
  /\ UNCHANGED <<daemon, dirty, stale, edited, missed>>

\* A click on "Mute": while there are edits that are not saved it is kept with them.
SetRouteFlag(p, n) ==
  /\ copy' = [copy EXCEPT ![p][n].mute = ~@]
  /\ IF dirty[p] THEN UNCHANGED flight ELSE Send(p, MuteRequest(p, n))
  /\ UNCHANGED <<daemon, dirty, stale, edited, missed>>

SaveAndApply(p) ==
  /\ dirty[p]
  /\ Send(p, [Ask("put") EXCEPT !.routes = copy[p]])
  /\ UNCHANGED <<daemon, copy, dirty, stale, edited, missed>>

\* "Discard": loadConfig
Discard(p) ==
  /\ dirty[p]
  /\ Send(p, Ask("get"))
  /\ UNCHANGED <<daemon, copy, dirty, stale, edited, missed>>

-----------------------------------------------------------------------------
(* The daemon, one request at a time: HttpServer::HandleApiRequest.        *)

Uids(routes) == [n \in DOMAIN routes |-> routes[n].uid]

Aged(r) == [r EXCEPT !.fresh = FALSE]

Served(r) == [r EXCEPT !.served = TRUE]

\* PUT /api/config: the routes are replaced, whether they can be saved or not.
ServePut(p, i, ok) ==
  /\ flight[p][i].kind = "put"
  /\ daemon' = flight[p][i].routes
  /\ stale' = [q \in Pages |-> stale[q] \/ q # p \/ Uids(copy[p]) # Uids(daemon')]
  /\ flight' = [q \in Pages |->
       [j \in DOMAIN flight[q] |->
         LET r == flight[q][j]
         IN IF q = p /\ j = i THEN [Served(r) EXCEPT !.ok = ok]
            ELSE Aged(r)]]
  /\ UNCHANGED missed

\* The same by another program that uses the API.
PutElsewhere ==
  /\ daemon' \in EditedRoutes(daemon)
  /\ stale' = [q \in Pages |-> TRUE]
  /\ flight' = [q \in Pages |-> [j \in DOMAIN flight[q] |-> Aged(flight[q][j])]]
  /\ UNCHANGED <<copy, dirty, edited, missed>>

\* POST /api/config/apply
ServeApply(p, i, ok) ==
  /\ flight[p][i].kind = "apply"
  /\ flight' = [flight EXCEPT ![p][i] = [Served(@) EXCEPT !.ok = ok]]
  /\ UNCHANGED <<daemon, stale, missed>>

\* GET /api/config
ServeGet(p, i) ==
  /\ flight[p][i].kind = "get"
  /\ flight' = [flight EXCEPT ![p][i] = [Served(@) EXCEPT !.routes = daemon, !.fresh = TRUE]]
  /\ UNCHANGED <<daemon, stale, missed>>

\* POST /api/routes/<n>/mute
ServeMute(p, i) ==
  LET r == flight[p][i]
      known == r.index \in DOMAIN daemon
  IN /\ r.kind = "mute"
     /\ flight' = [flight EXCEPT ![p][i] = [Served(@) EXCEPT !.ok = known]]
     /\ daemon' = IF known THEN [daemon EXCEPT ![r.index].mute = r.value] ELSE daemon
     /\ missed' = (missed \/ (known /\ r.fresh /\ daemon[r.index].uid # r.uid))
     /\ UNCHANGED stale

Serve(p, i) ==
  /\ ~flight[p][i].served
  /\ \/ \E ok \in BOOLEAN : ServePut(p, i, ok) \/ ServeApply(p, i, ok)
     \/ ServeGet(p, i)
     \/ ServeMute(p, i)
  /\ UNCHANGED <<copy, dirty, edited>>

-----------------------------------------------------------------------------
(* The answers in the page.                                                *)

Others(p, i) == RemoveAt(flight[p], i)

\* saveAndApply: what was put is applied.
AnswerPut(p, i) ==
  /\ flight[p][i].kind = "put"
  /\ flight' = [flight EXCEPT ![p] = IF flight[p][i].ok THEN Append(Others(p, i), Ask("apply")) ELSE Others(p, i)]
  /\ UNCHANGED <<copy, dirty, stale, edited>>

\* saveAndApply: the page is clean, and read again.
AnswerApply(p, i) ==
  /\ flight[p][i].kind = "apply"
  /\ flight' = [flight EXCEPT ![p] = IF flight[p][i].ok THEN Append(Others(p, i), Ask("get")) ELSE Others(p, i)]
  /\ dirty' = [dirty EXCEPT ![p] = @ /\ ~flight[p][i].ok]
  /\ UNCHANGED <<copy, stale, edited>>

\* loadConfig: the routes are new objects, of which mutes under way know nothing.
AnswerGet(p, i) ==
  /\ flight[p][i].kind = "get"
  /\ copy' = [copy EXCEPT ![p] = flight[p][i].routes]
  /\ dirty' = [dirty EXCEPT ![p] = FALSE]
  /\ stale' = [stale EXCEPT ![p] = ~flight[p][i].fresh]
  /\ edited' = [edited EXCEPT ![p] = FALSE]
  /\ flight' = [flight EXCEPT ![p] =
       [j \in DOMAIN Others(p, i) |-> [Others(p, i)[j] EXCEPT !.live = FALSE]]]

\* setRouteFlag: a mute that was refused is taken back.
AnswerMute(p, i) ==
  LET r == flight[p][i]
  IN /\ r.kind = "mute"
     /\ flight' = [flight EXCEPT ![p] = Others(p, i)]
     /\ copy' = [copy EXCEPT ![p] =
          [n \in DOMAIN @ |-> IF r.live /\ ~r.ok /\ @[n].uid = r.uid THEN [@[n] EXCEPT !.mute = ~r.value] ELSE @[n]]]
     /\ UNCHANGED <<dirty, stale, edited>>

Answer(p, i) ==
  /\ flight[p][i].served
  /\ AnswerPut(p, i) \/ AnswerApply(p, i) \/ AnswerGet(p, i) \/ AnswerMute(p, i)
  /\ UNCHANGED <<daemon, missed>>

WebNext ==
  \/ PutElsewhere
  \/ \E p \in Pages :
       \/ EditRoutes(p)
       \/ \E n \in DOMAIN copy[p] : SetRouteFlag(p, n)
       \/ SaveAndApply(p)
       \/ Discard(p)
       \/ \E i \in DOMAIN flight[p] : Serve(p, i) \/ Answer(p, i)

WebSpec == WebInit /\ [][WebNext]_webVars

-----------------------------------------------------------------------------
(* Properties.                                                             *)

WebTypeOK ==
  /\ daemon \in Seq(PageRoute)
  /\ \A p \in Pages : copy[p] \in Seq(PageRoute) /\ flight[p] \in Seq(PageRequest) /\ Len(flight[p]) <= FlightBound

\* A mute meets the route that was clicked, though it is sent by its index, unless a
\* configuration was put that is not the page's copy, one was put while the mute was under
\* way, or the page was edited while it was being saved.
ClickHits == ~missed

\* What a browser asks for is answered as it was asked, its log pane has each line, and a click
\* on a card means the route of the card (HttpServer, app.js).
BrowserFollows == AnsweredAsSent /\ LogFollows /\ ClickHits
=============================================================================
