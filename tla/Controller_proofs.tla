-------------------------- MODULE Controller_proofs --------------------------
(***************************************************************************)
(* What Controller promises, for every configuration: the types, that a    *)
(* mute gets to the router, and that what the router reports gets to the   *)
(* browsers.                                                               *)
(*                                                                         *)
(* PrepareForRouting goes through the routes, and is proved by induction   *)
(* over them: the first part of the module is about its accumulator, the   *)
(* second about the tables and their exchange, the third is the inductive  *)
(* invariant with a lemma per action.                                      *)
(*                                                                         *)
(* And what Desktop promises, for any rows and files: the ids that it      *)
(* hands out tell destinations apart, whichever table they are of, and     *)
(* what was applied returns.  Last what the browsers are promised by       *)
(* HttpServer and app.js: their connections, the log, and the pages.       *)
(***************************************************************************)
EXTENDS Controller, WebClient, Desktop, Induction, SequenceTheorems

AnyAddr == Addrs \cup {BadPort, Undefined}
Id == [src: Nat, dst: Nat]
RunRoute == [src: AnyAddr, dst: AnyAddr, path: Paths, enable: BOOLEAN, id: Id]
RunConnection == [addr: AnyAddr, id: Nat]
IdMap == UNION {[S -> Nat] : S \in SUBSET AnyAddr}
Prepared == [table: Table, ids: Seq(Id), routes: Seq(RunRoute), connections: Seq(RunConnection),
             srcStates: IdMap, dstStates: IdMap]

\* Every id that was given is one of the table, and a route that runs has its ids in `ids`.
IdsFit(acc) ==
  /\ ~acc.table.dirty /\ ~acc.table.muteDirty
  /\ \A i \in 1..Len(acc.table.items) : ~acc.table.items[i].activity
  /\ \A a, b \in DOMAIN acc.dstStates : a # b => acc.dstStates[a] # acc.dstStates[b]
  /\ \A a \in DOMAIN acc.srcStates : acc.srcStates[a] \in 1..Len(acc.table.items)
  /\ \A a \in DOMAIN acc.dstStates : acc.dstStates[a] \in 1..Len(acc.table.items)
  /\ \A n \in 1..Len(acc.ids) : {acc.ids[n].src, acc.ids[n].dst} \subseteq 0..Len(acc.table.items)
  /\ \A k \in 1..Len(acc.routes) :
       /\ {acc.routes[k].id.src, acc.routes[k].id.dst} \subseteq 1..Len(acc.table.items)
       /\ \E n \in 1..Len(acc.ids) : acc.ids[n] = acc.routes[k].id
  /\ \A k \in 1..Len(acc.connections) : acc.connections[k].id \in 1..Len(acc.table.items)

Fitting == {acc \in Prepared : IdsFit(acc)}

LEMMA AppendKeeps ==
  ASSUME NEW S, NEW s \in Seq(S), NEW x \in S
  PROVE  /\ Append(s, x) \in Seq(S) /\ Len(Append(s, x)) = Len(s) + 1
         /\ \A i \in 1..Len(s) : Append(s, x)[i] = s[i]
         /\ Append(s, x)[Len(s) + 1] = x
OBVIOUS

LEMMA RegisterTable ==
  ASSUME NEW t \in Table, NEW mute \in BOOLEAN
  PROVE  /\ Register(t, mute) \in Table
         /\ Len(Register(t, mute).items) = Len(t.items) + 1
         /\ Register(t, mute).dirty = t.dirty /\ Register(t, mute).muteDirty = t.muteDirty
         /\ \A i \in 1..Len(t.items) : Register(t, mute).items[i] = t.items[i]
         /\ Register(t, mute).items[Len(t.items) + 1].mute = mute
         /\ Register(t, mute).items[Len(t.items) + 1].activity = FALSE
<1> DEFINE item == [state |-> Uninitialized, activity |-> FALSE, mute |-> mute]
<1>1. item \in Item BY StatesAssumption DEF Item
<1>2. t.items \in Seq(Item) BY DEF Table
<1>3. Register(t, mute) = [t EXCEPT !.items = Append(t.items, item)] BY DEF Register
<1>4. item.mute = mute /\ item.activity = FALSE OBVIOUS
<1> HIDE DEF item
<1>5. /\ Append(t.items, item) \in Seq(Item) /\ Len(Append(t.items, item)) = Len(t.items) + 1
      /\ \A i \in 1..Len(t.items) : Append(t.items, item)[i] = t.items[i]
      /\ Append(t.items, item)[Len(t.items) + 1] = item
  BY <1>1, <1>2, AppendKeeps
<1>6. Register(t, mute).items = Append(t.items, item) BY <1>3 DEF Table
<1>7. Register(t, mute) \in Table BY <1>3, <1>5 DEF Table
<1>8. Register(t, mute).dirty = t.dirty /\ Register(t, mute).muteDirty = t.muteDirty BY <1>3 DEF Table
<1> QED BY <1>4, <1>5, <1>6, <1>7, <1>8

LEMMA MapExtended ==
  ASSUME NEW m \in IdMap, NEW a \in AnyAddr, NEW k \in Nat
  PROVE  /\ Inserted(m, a, k) \in IdMap
         /\ DOMAIN Inserted(m, a, k) = DOMAIN m \cup {a} /\ a \in DOMAIN Inserted(m, a, k)
         /\ Inserted(m, a, k)[a] = k
         /\ \A b \in DOMAIN m : b # a => Inserted(m, a, k)[b] = m[b]
<1> DEFINE x == Inserted(m, a, k)
<1>1. PICK S \in SUBSET AnyAddr : m \in [S -> Nat] BY DEF IdMap
<1>2. x = [b \in S \cup {a} |-> IF b = a THEN k ELSE m[b]] BY <1>1 DEF Inserted
<1>3. x \in [S \cup {a} -> Nat] BY <1>1, <1>2
<1>4. S \cup {a} \in SUBSET AnyAddr BY <1>1
<1> HIDE DEF x
<1>5. x \in IdMap BY <1>3, <1>4 DEF IdMap
<1>6. DOMAIN x = DOMAIN m \cup {a} /\ x[a] = k /\ \A b \in DOMAIN m : b # a => x[b] = m[b] BY <1>1, <1>2
<1> QED BY <1>5, <1>6 DEF x

\* A record of another type cannot be read: what the fields of an accumulator are.
LEMMA FittingFields ==
  ASSUME NEW acc \in Fitting
  PROVE  /\ acc.table \in Table /\ acc.ids \in Seq(Id) /\ acc.routes \in Seq(RunRoute)
         /\ acc.connections \in Seq(RunConnection) /\ acc.srcStates \in IdMap /\ acc.dstStates \in IdMap
         /\ acc.table.items \in Seq(Item)
         /\ Len(acc.table.items) \in Nat /\ Len(acc.table.items) + 1 \in Nat
         /\ acc.table.dirty = FALSE /\ acc.table.muteDirty = FALSE
<1>1. acc \in Prepared /\ IdsFit(acc) BY DEF Fitting
<1>2. acc.table \in Table BY <1>1 DEF Prepared
<1>3. acc.table.dirty \in BOOLEAN /\ acc.table.muteDirty \in BOOLEAN /\ acc.table.items \in Seq(Item)
  BY <1>2 DEF Table
<1>4. \A n \in Nat : n + 1 \in Nat OBVIOUS
<1>5. Len(acc.table.items) \in Nat BY <1>3
<1> QED BY <1>1, <1>2, <1>3, <1>4, <1>5 DEF Prepared, IdsFit

\* An item more leaves the ids right.
LEMMA RegisteredFits ==
  ASSUME NEW acc \in Fitting, NEW mute \in BOOLEAN, NEW a \in AnyAddr, NEW w \in Prepared,
         w.table = Register(acc.table, mute),
         w.ids = acc.ids, w.routes = acc.routes, w.connections = acc.connections,
         w.srcStates \in {acc.srcStates, Inserted(acc.srcStates, a, Len(acc.table.items) + 1)},
         w.dstStates \in {acc.dstStates, Inserted(acc.dstStates, a, Len(acc.table.items) + 1)}
  PROVE  w \in Fitting
<1> DEFINE n == Len(acc.table.items)
<1>1. IdsFit(acc) BY DEF Fitting
<1>2. /\ acc.table \in Table /\ acc.srcStates \in IdMap /\ acc.dstStates \in IdMap /\ n \in Nat
      /\ acc.table.dirty = FALSE /\ acc.table.muteDirty = FALSE
      /\ acc.ids \in Seq(Id) /\ acc.routes \in Seq(RunRoute)
  BY FittingFields
<1>12. /\ Len(Register(acc.table, mute).items) = n + 1
       /\ Register(acc.table, mute).dirty = acc.table.dirty
       /\ Register(acc.table, mute).muteDirty = acc.table.muteDirty
       /\ \A j \in 1..n : Register(acc.table, mute).items[j] = acc.table.items[j]
       /\ Register(acc.table, mute).items[n + 1].activity = FALSE
  BY <1>2, RegisterTable
<1>3. Len(w.table.items) = n + 1 /\ w.table.dirty = FALSE /\ w.table.muteDirty = FALSE
  BY <1>2, <1>12
<1>9. ASSUME NEW m \in IdMap, \A b \in DOMAIN m : m[b] \in 1..n
      PROVE  \A b \in DOMAIN Inserted(m, a, n + 1) : Inserted(m, a, n + 1)[b] \in 1..n + 1
  <2>1. n + 1 \in Nat BY <1>2
  <2>2. /\ DOMAIN Inserted(m, a, n + 1) = DOMAIN m \cup {a} /\ Inserted(m, a, n + 1)[a] = n + 1
        /\ \A b \in DOMAIN m : b # a => Inserted(m, a, n + 1)[b] = m[b]
    BY <2>1, MapExtended
  <2> QED BY <1>2, <1>9, <2>2
<1>4. \A b \in DOMAIN w.srcStates : w.srcStates[b] \in 1..n + 1
  <2>1. CASE w.srcStates = acc.srcStates BY <1>1, <1>2, <2>1 DEF IdsFit
  <2>2. CASE w.srcStates = Inserted(acc.srcStates, a, n + 1)
    BY <1>1, <1>2, <1>9, <2>2 DEF IdsFit
  <2> QED BY <2>1, <2>2
<1>5. \A b \in DOMAIN w.dstStates : w.dstStates[b] \in 1..n + 1
  <2>1. CASE w.dstStates = acc.dstStates BY <1>1, <1>2, <2>1 DEF IdsFit
  <2>2. CASE w.dstStates = Inserted(acc.dstStates, a, n + 1)
    BY <1>1, <1>2, <1>9, <2>2 DEF IdsFit
  <2> QED BY <2>1, <2>2
<1>10. \A i \in 1..Len(w.table.items) : ~w.table.items[i].activity
  <2>1. SUFFICES ASSUME NEW i \in 1..Len(w.table.items) PROVE ~w.table.items[i].activity OBVIOUS
  <2>2. /\ \A j \in 1..n : w.table.items[j] = acc.table.items[j]
        /\ w.table.items[n + 1].activity = FALSE
    BY <1>12
  <2>3. CASE i \in 1..n BY <1>1, <2>2, <2>3 DEF IdsFit
  <2>4. CASE i = n + 1 BY <2>2, <2>4
  <2> QED BY <1>2, <1>3, <2>3, <2>4
<1>11. \A b, c \in DOMAIN w.dstStates : b # c => w.dstStates[b] # w.dstStates[c]
  <2>1. CASE w.dstStates = acc.dstStates BY <1>1, <2>1 DEF IdsFit
  <2>2. CASE w.dstStates = Inserted(acc.dstStates, a, n + 1)
    <3>1. n + 1 \in Nat BY <1>2
    <3>5. /\ DOMAIN Inserted(acc.dstStates, a, n + 1) = DOMAIN acc.dstStates \cup {a}
          /\ Inserted(acc.dstStates, a, n + 1)[a] = n + 1
          /\ \A b \in DOMAIN acc.dstStates :
               b # a => Inserted(acc.dstStates, a, n + 1)[b] = acc.dstStates[b]
      BY <1>2, <3>1, MapExtended
    <3>2. /\ DOMAIN w.dstStates = DOMAIN acc.dstStates \cup {a} /\ w.dstStates[a] = n + 1
          /\ \A b \in DOMAIN acc.dstStates : b # a => w.dstStates[b] = acc.dstStates[b]
      BY <2>2, <3>5
    <3>3. \A b \in DOMAIN acc.dstStates : acc.dstStates[b] \in 1..n BY <1>1, <1>2 DEF IdsFit
    <3> HIDE DEF n
    <3>4. \A b \in DOMAIN w.dstStates : b # a => w.dstStates[b] # w.dstStates[a]
      BY <1>2, <3>2, <3>3
    <3> QED BY <1>1, <3>2, <3>4 DEF IdsFit
  <2> QED BY <2>1, <2>2
<1>6. \A k \in 1..Len(w.ids) : {w.ids[k].src, w.ids[k].dst} \subseteq 0..n + 1
  BY <1>1, <1>2 DEF IdsFit
<1>7. \A k \in 1..Len(w.routes) : {w.routes[k].id.src, w.routes[k].id.dst} \subseteq 1..n + 1
                                  /\ \E j \in 1..Len(w.ids) : w.ids[j] = w.routes[k].id
  BY <1>1, <1>2 DEF IdsFit
<1>8. \A k \in 1..Len(w.connections) : w.connections[k].id \in 1..n + 1
  BY <1>1, <1>2 DEF IdsFit
<1> QED BY <1>3, <1>4, <1>5, <1>6, <1>7, <1>8, <1>10, <1>11 DEF IdsFit, Fitting

LEMMA WithSrcFits ==
  ASSUME NEW acc \in Fitting, NEW r \in Route
  PROVE  /\ WithSrc(acc, r) \in Fitting /\ r.src \in DOMAIN WithSrc(acc, r).srcStates
         /\ WithSrc(acc, r).ids = acc.ids /\ WithSrc(acc, r).routes = acc.routes
<1>1. r.src \in AnyAddr BY DEF Route, AnyAddr
<1>2. CASE r.src \in DOMAIN acc.srcStates BY <1>2 DEF WithSrc
<1>3. CASE r.src \notin DOMAIN acc.srcStates
  <2> DEFINE n == Len(acc.table.items)
             w == [acc EXCEPT !.table = Register(acc.table, FALSE),
                              !.srcStates = Inserted(acc.srcStates, r.src, n + 1)]
  <2>1. acc \in Prepared /\ acc.table \in Table /\ acc.srcStates \in IdMap /\ n \in Nat /\ n + 1 \in Nat
    BY FittingFields DEF Fitting
  <2>2. Register(acc.table, FALSE) \in Table BY <2>1, RegisterTable
  <2>3. \A k \in Nat : /\ Inserted(acc.srcStates, r.src, k) \in IdMap
                       /\ r.src \in DOMAIN Inserted(acc.srcStates, r.src, k)
    <3> HIDE DEF n, w
    <3>1. r.src \in AnyAddr /\ acc.srcStates \in IdMap BY <1>1, <2>1
    <3>2. \A k \in Nat : Inserted(acc.srcStates, r.src, k) \in IdMap BY <3>1, MapExtended
    <3>3. \A k \in Nat : r.src \in DOMAIN Inserted(acc.srcStates, r.src, k)
      BY <3>1, MapExtended
    <3> QED BY <3>2, <3>3
  <2>4. w \in Prepared BY <2>1, <2>2, <2>3 DEF Prepared
  <2>5. /\ w.table = Register(acc.table, FALSE) /\ w.srcStates = Inserted(acc.srcStates, r.src, n + 1)
        /\ w.ids = acc.ids /\ w.routes = acc.routes /\ w.connections = acc.connections
        /\ w.dstStates = acc.dstStates
    BY <2>1 DEF Prepared
  <2>6. WithSrc(acc, r) = w BY <1>3 DEF WithSrc
  <2> HIDE DEF w
  <2>7. w \in Fitting BY <1>1, <2>4, <2>5, RegisteredFits
  <2> QED BY <2>3, <2>5, <2>6, <2>7
<1> QED BY <1>2, <1>3

LEMMA WithDstFits ==
  ASSUME NEW acc \in Fitting, NEW r \in Route
  PROVE  /\ WithDst(acc, r) \in Fitting /\ r.dst \in DOMAIN WithDst(acc, r).dstStates
         /\ WithDst(acc, r).ids = acc.ids /\ WithDst(acc, r).routes = acc.routes
         /\ WithDst(acc, r).srcStates = acc.srcStates
<1>1. r.dst \in AnyAddr /\ r.mute \in BOOLEAN BY DEF Route, AnyAddr
<1>2. CASE r.dst \in DOMAIN acc.dstStates BY <1>2 DEF WithDst
<1>3. CASE r.dst \notin DOMAIN acc.dstStates
  <2> DEFINE n == Len(acc.table.items)
             w == [acc EXCEPT !.table = Register(acc.table, r.mute),
                              !.dstStates = Inserted(acc.dstStates, r.dst, n + 1)]
  <2>1. acc \in Prepared /\ acc.table \in Table /\ acc.dstStates \in IdMap /\ n \in Nat /\ n + 1 \in Nat
    BY FittingFields DEF Fitting
  <2>2. Register(acc.table, r.mute) \in Table BY <1>1, <2>1, RegisterTable
  <2>3. \A k \in Nat : /\ Inserted(acc.dstStates, r.dst, k) \in IdMap
                       /\ r.dst \in DOMAIN Inserted(acc.dstStates, r.dst, k)
    <3> HIDE DEF n, w
    <3>1. r.dst \in AnyAddr /\ acc.dstStates \in IdMap BY <1>1, <2>1
    <3>2. \A k \in Nat : Inserted(acc.dstStates, r.dst, k) \in IdMap BY <3>1, MapExtended
    <3>3. \A k \in Nat : r.dst \in DOMAIN Inserted(acc.dstStates, r.dst, k)
      BY <3>1, MapExtended
    <3> QED BY <3>2, <3>3
  <2>4. w \in Prepared BY <2>1, <2>2, <2>3 DEF Prepared
  <2>5. /\ w.table = Register(acc.table, r.mute) /\ w.dstStates = Inserted(acc.dstStates, r.dst, n + 1)
        /\ w.ids = acc.ids /\ w.routes = acc.routes /\ w.connections = acc.connections
        /\ w.srcStates = acc.srcStates
    BY <2>1 DEF Prepared
  <2>6. WithDst(acc, r) = w BY <1>3 DEF WithDst
  <2> HIDE DEF w
  <2>7. w \in Fitting BY <1>1, <2>4, <2>5, RegisteredFits
  <2> QED BY <2>3, <2>5, <2>6, <2>7
<1> QED BY <1>2, <1>3

LEMMA PrepareRouteFits ==
  ASSUME NEW acc \in Fitting, NEW r \in Route
  PROVE  PrepareRoute(acc, r) \in Fitting
<1>1. CASE CannotRun(r) \/ \E p \in Range(acc.routes) : SameRoute(p, r)
  <2> DEFINE w == [acc EXCEPT !.ids = Append(acc.ids, NoIds)]
  <2>1. acc \in Prepared /\ IdsFit(acc) /\ acc.ids \in Seq(Id) /\ Len(acc.table.items) \in Nat
    BY FittingFields DEF Fitting
  <2>2. NoIds \in Id /\ NoIds.src = 0 /\ NoIds.dst = 0 BY DEF NoIds, Id
  <2>3. /\ Append(acc.ids, NoIds) \in Seq(Id) /\ Len(Append(acc.ids, NoIds)) = Len(acc.ids) + 1
        /\ \A i \in 1..Len(acc.ids) : Append(acc.ids, NoIds)[i] = acc.ids[i]
        /\ Append(acc.ids, NoIds)[Len(acc.ids) + 1] = NoIds
    BY <2>1, <2>2, AppendKeeps
  <2>4. w \in Prepared BY <2>1, <2>3 DEF Prepared
  <2>5. /\ w.ids = Append(acc.ids, NoIds) /\ w.table = acc.table /\ w.routes = acc.routes
        /\ w.connections = acc.connections /\ w.srcStates = acc.srcStates /\ w.dstStates = acc.dstStates
    BY <2>1 DEF Prepared
  <2>6. PrepareRoute(acc, r) = w BY <1>1 DEF PrepareRoute
  <2> HIDE DEF w
  <2>7. \A n \in 1..Len(w.ids) : {w.ids[n].src, w.ids[n].dst} \subseteq 0..Len(w.table.items)
    <3>1. SUFFICES ASSUME NEW n \in 1..Len(w.ids)
                   PROVE  {w.ids[n].src, w.ids[n].dst} \subseteq 0..Len(w.table.items)
      OBVIOUS
    <3>2. n \in 1..Len(acc.ids) \/ n = Len(acc.ids) + 1 BY <2>1, <2>3, <2>5
    <3> QED BY <2>1, <2>2, <2>3, <2>5, <3>2 DEF IdsFit
  <2>8. \A k \in 1..Len(w.routes) :
       /\ {w.routes[k].id.src, w.routes[k].id.dst} \subseteq 1..Len(w.table.items)
       /\ \E n \in 1..Len(w.ids) : w.ids[n] = w.routes[k].id
    <3>1. 1..Len(acc.ids) \subseteq 1..Len(w.ids) BY <2>1, <2>3, <2>5
    <3> QED BY <2>1, <2>3, <2>5, <3>1 DEF IdsFit
  <2>9. IdsFit(w) BY <2>1, <2>5, <2>7, <2>8 DEF IdsFit
  <2> QED BY <2>4, <2>6, <2>9 DEF Fitting
<1>2. CASE ~(CannotRun(r) \/ \E p \in Range(acc.routes) : SameRoute(p, r))
  <2> DEFINE v == WithDst(WithSrc(acc, r), r)
             id == [src |-> v.srcStates[r.src], dst |-> v.dstStates[r.dst]]
             route == [src |-> r.src, dst |-> r.dst, path |-> r.path, enable |-> r.enable, id |-> id]
             w == [v EXCEPT !.ids = Append(v.ids, id), !.routes = Append(v.routes, route)]
             items == Len(v.table.items)
  <2>1. v \in Fitting /\ r.src \in DOMAIN v.srcStates /\ r.dst \in DOMAIN v.dstStates
    BY WithSrcFits, WithDstFits
  <2> HIDE DEF v
  <2>2. /\ v \in Prepared /\ IdsFit(v) /\ v.ids \in Seq(Id) /\ v.routes \in Seq(RunRoute) /\ items \in Nat
        /\ v.srcStates \in IdMap /\ v.dstStates \in IdMap
    BY <2>1, FittingFields DEF Fitting
  <2>3. id.src \in 1..items /\ id.dst \in 1..items BY <2>1, <2>2 DEF IdsFit
  <2>4. id \in Id BY <2>2, <2>3 DEF Id
  <2> HIDE DEF id
  <2>5. route \in RunRoute /\ route.id = id BY <2>4 DEF Route, RunRoute, AnyAddr
  <2> HIDE DEF route
  <2>6. /\ Append(v.ids, id) \in Seq(Id) /\ Len(Append(v.ids, id)) = Len(v.ids) + 1
        /\ \A i \in 1..Len(v.ids) : Append(v.ids, id)[i] = v.ids[i]
        /\ Append(v.ids, id)[Len(v.ids) + 1] = id
    BY <2>2, <2>4, AppendKeeps
  <2>7. /\ Append(v.routes, route) \in Seq(RunRoute) /\ Len(Append(v.routes, route)) = Len(v.routes) + 1
        /\ \A i \in 1..Len(v.routes) : Append(v.routes, route)[i] = v.routes[i]
        /\ Append(v.routes, route)[Len(v.routes) + 1] = route
    BY <2>2, <2>5, AppendKeeps
  <2>8. w \in Prepared BY <2>2, <2>6, <2>7 DEF Prepared
  <2>9. /\ w.ids = Append(v.ids, id) /\ w.table = v.table /\ w.routes = Append(v.routes, route)
        /\ w.connections = v.connections /\ w.srcStates = v.srcStates /\ w.dstStates = v.dstStates
    BY <2>2 DEF Prepared
  <2>10. PrepareRoute(acc, r) = w BY <1>2 DEF PrepareRoute, v, id, route
  <2> HIDE DEF w
  <2>11. Len(v.ids) \in Nat /\ Len(v.routes) \in Nat BY <2>2
  <2>12. \A n \in 1..Len(w.ids) : {w.ids[n].src, w.ids[n].dst} \subseteq 0..Len(w.table.items)
    <3>1. SUFFICES ASSUME NEW n \in 1..Len(w.ids)
                   PROVE  {w.ids[n].src, w.ids[n].dst} \subseteq 0..Len(w.table.items)
      OBVIOUS
    <3>2. n \in 1..Len(v.ids) \/ n = Len(v.ids) + 1 BY <2>11, <2>6, <2>9
    <3> QED BY <2>2, <2>3, <2>6, <2>9, <3>2 DEF IdsFit
  <2>13. \A k \in 1..Len(w.routes) :
       /\ {w.routes[k].id.src, w.routes[k].id.dst} \subseteq 1..Len(w.table.items)
       /\ \E n \in 1..Len(w.ids) : w.ids[n] = w.routes[k].id
    <3>1. SUFFICES ASSUME NEW k \in 1..Len(w.routes)
                   PROVE  /\ {w.routes[k].id.src, w.routes[k].id.dst} \subseteq 1..Len(w.table.items)
                          /\ \E n \in 1..Len(w.ids) : w.ids[n] = w.routes[k].id
      OBVIOUS
    <3>2. 1..Len(v.ids) \subseteq 1..Len(w.ids) /\ Len(v.ids) + 1 \in 1..Len(w.ids)
      BY <2>11, <2>6, <2>9
    <3>3. CASE k \in 1..Len(v.routes) BY <2>2, <2>6, <2>7, <2>9, <3>2, <3>3 DEF IdsFit
    <3>4. CASE k = Len(v.routes) + 1 BY <2>3, <2>5, <2>6, <2>7, <2>9, <3>2, <3>4
    <3> QED BY <2>11, <2>7, <2>9, <3>3, <3>4
  <2>14. IdsFit(w) BY <2>2, <2>9, <2>12, <2>13 DEF IdsFit
  <2> QED BY <2>8, <2>10, <2>14 DEF Fitting
<1> QED BY <1>1, <1>2

LEMMA PrepareConnectionFits ==
  ASSUME NEW acc \in Fitting, NEW addr \in AnyAddr
  PROVE  PrepareConnection(acc, addr) \in Fitting
<1> DEFINE skipped == addr \in {BadPort, Undefined} \cup {c.addr : c \in Range(acc.connections)}
<1>1. CASE skipped BY <1>1 DEF PrepareConnection
<1>2. CASE ~skipped
  <2> DEFINE n == Len(acc.table.items)
             new == [addr |-> addr, id |-> n + 1]
             filled == Register(acc.table, FALSE)
             v == [acc EXCEPT !.table = filled]
             w == [acc EXCEPT !.table = filled, !.connections = Append(acc.connections, new)]
  <2>1. /\ acc \in Prepared /\ acc.table \in Table /\ n \in Nat /\ n + 1 \in Nat
        /\ acc.connections \in Seq(RunConnection)
    BY FittingFields DEF Fitting
  <2>2. filled \in Table /\ Len(filled.items) = n + 1 BY <2>1, RegisterTable
  <2>3. new \in RunConnection /\ new.id = n + 1 BY <2>1 DEF RunConnection
  <2>4. PrepareConnection(acc, addr) = w BY <1>2 DEF PrepareConnection
  <2> HIDE DEF filled, new
  <2>5. v \in Prepared BY <2>1, <2>2 DEF Prepared
  <2>6. /\ v.table = filled /\ v.ids = acc.ids /\ v.routes = acc.routes /\ v.connections = acc.connections
        /\ v.srcStates = acc.srcStates /\ v.dstStates = acc.dstStates
    BY <2>1 DEF Prepared
  <2>7. v \in Fitting
    <3> HIDE DEF v
    <3> QED BY <2>5, <2>6, RegisteredFits DEF filled
  <2>8. /\ Append(acc.connections, new) \in Seq(RunConnection)
        /\ Len(Append(acc.connections, new)) = Len(acc.connections) + 1
        /\ \A i \in 1..Len(acc.connections) : Append(acc.connections, new)[i] = acc.connections[i]
        /\ Append(acc.connections, new)[Len(acc.connections) + 1] = new
    BY <2>1, <2>3, AppendKeeps
  <2>9. w \in Prepared BY <2>1, <2>2, <2>8 DEF Prepared
  <2>10. /\ w.table = filled /\ w.ids = acc.ids /\ w.routes = acc.routes
         /\ w.connections = Append(acc.connections, new)
         /\ w.srcStates = acc.srcStates /\ w.dstStates = acc.dstStates
    BY <2>1 DEF Prepared
  <2>11. IdsFit(v) BY <2>7 DEF Fitting
  <2> HIDE DEF v, w
  <2>12. \A k \in 1..Len(w.connections) : w.connections[k].id \in 1..Len(w.table.items)
    <3>1. SUFFICES ASSUME NEW k \in 1..Len(w.connections)
                   PROVE  w.connections[k].id \in 1..Len(w.table.items)
      OBVIOUS
    <3>2. k \in 1..Len(acc.connections) \/ k = Len(acc.connections) + 1 BY <2>1, <2>8, <2>10
    <3> QED BY <2>1, <2>2, <2>3, <2>6, <2>8, <2>10, <2>11, <3>2 DEF IdsFit
  <2>13. IdsFit(w) BY <2>6, <2>10, <2>11, <2>12 DEF IdsFit
  <2> QED BY <2>4, <2>9, <2>13 DEF Fitting
<1> QED BY <1>1, <1>2

LEMMA TableWithItems ==
  ASSUME NEW t \in Table, NEW i \in Seq(Item), NEW b \in BOOLEAN
  PROVE  [t EXCEPT !.items = i, !.dirty = b, !.muteDirty = b] \in Table
BY DEF Table

LEMMA TableItemsFields ==
  ASSUME NEW T1, NEW T2, NEW T3, NEW T4, NEW t \in [items: T1, muteAll: T2, dirty: T3, muteDirty: T4],
         NEW i, NEW b
  PROVE  LET u == [t EXCEPT !.items = i, !.dirty = b, !.muteDirty = b]
         IN  u.items = i /\ u.muteAll = t.muteAll /\ u.dirty = b /\ u.muteDirty = b
OBVIOUS

LEMMA TableWithMutes ==
  ASSUME NEW t \in Table, NEW m \in SUBSET Directions
  PROVE  /\ [t EXCEPT !.muteAll = m] \in Table
         /\ [t EXCEPT !.muteAll = m].items = t.items
         /\ [t EXCEPT !.muteAll = m].dirty = t.dirty
         /\ [t EXCEPT !.muteAll = m].muteDirty = t.muteDirty
BY DEF Table

LEMMA ClearedTable ==
  ASSUME NEW t \in Table
  PROVE  /\ Clear(t) \in Table
         /\ Clear(t).items = <<>> /\ Clear(t).dirty = FALSE /\ Clear(t).muteDirty = FALSE
<1>1. FALSE \in BOOLEAN /\ <<>> \in Seq(Item) OBVIOUS
<1>2. Clear(t) \in Table BY <1>1, TableWithItems, Zenon DEF Clear
<1>3. LET u == Clear(t)
      IN  u.items = <<>> /\ u.muteAll = t.muteAll /\ u.dirty = FALSE /\ u.muteDirty = FALSE
  BY TableItemsFields, Zenon DEF Clear, Table
<1> QED BY <1>2, <1>3

LEMMA NothingFits ==
  ASSUME NEW t \in Table, NEW muteAll \in SUBSET Directions
  PROVE  NothingPrepared(t, muteAll) \in Fitting
<1> DEFINE w == NothingPrepared(t, muteAll)
           u == [Clear(t) EXCEPT !.muteAll = muteAll]
<1>1. Clear(t) \in Table /\ Clear(t).items = <<>> /\ Clear(t).dirty = FALSE /\ Clear(t).muteDirty = FALSE
  BY ClearedTable
<1>2. u \in Table /\ u.items = <<>> /\ u.dirty = FALSE /\ u.muteDirty = FALSE BY <1>1, TableWithMutes
<1>3. <<>> \in IdMap /\ DOMAIN <<>> = {}
  <2>1. <<>> = [x \in {} |-> 0] OBVIOUS
  <2>2. [x \in {} |-> 0] \in [{} -> Nat] OBVIOUS
  <2> QED BY <2>1, <2>2 DEF IdMap
<1> HIDE DEF u
<1>4. w = [table |-> u, ids |-> <<>>, routes |-> <<>>, connections |-> <<>>, srcStates |-> <<>>,
           dstStates |-> <<>>]
  BY DEF NothingPrepared, u
<1> HIDE DEF w
<1>5. w \in Prepared BY <1>2, <1>3, <1>4 DEF Prepared
<1>6. IdsFit(w) BY <1>1, <1>2, <1>3, <1>4 DEF IdsFit
<1> QED BY <1>5, <1>6 DEF Fitting, w

-----------------------------------------------------------------------------
(* The tables. *)

Ids(t) == 1..Len(t.items)

LEMMA TableFields ==
  ASSUME NEW t \in Table
  PROVE  /\ t.items \in Seq(Item) /\ Len(t.items) \in Nat /\ DOMAIN t.items = Ids(t)
         /\ t.muteAll \in SUBSET Directions /\ t.dirty \in BOOLEAN /\ t.muteDirty \in BOOLEAN
         /\ \A id \in Ids(t) : t.items[id] \in Item
BY DEF Table, Ids

\* A table with other items and marks.
LEMMA TableReplaced ==
  ASSUME NEW t \in Table, NEW i \in Seq(Item), NEW d \in BOOLEAN, NEW p \in BOOLEAN
  PROVE  [t EXCEPT !.items = i, !.dirty = d, !.muteDirty = p] \in Table
BY DEF Table

LEMMA ReplacedFields ==
  ASSUME NEW T1, NEW T2, NEW T3, NEW T4, NEW t \in [items: T1, muteAll: T2, dirty: T3, muteDirty: T4],
         NEW i, NEW d, NEW p
  PROVE  LET u == [t EXCEPT !.items = i, !.dirty = d, !.muteDirty = p]
         IN  u.items = i /\ u.muteAll = t.muteAll /\ u.dirty = d /\ u.muteDirty = p
OBVIOUS

LEMMA SameLength ==
  ASSUME NEW t \in Table, NEW i \in [Ids(t) -> Item]
  PROVE  i \in Seq(Item) /\ Len(i) = Len(t.items)
BY TableFields DEF Ids

\* What UpdateAll makes of an item, of those it is given.
LEMMA UpdatedTable ==
  ASSUME NEW t \in Table, NEW S \in SUBSET Ids(t), NEW items \in [S -> Item]
  PROVE  LET u == UpdateAll(t, items)
         IN  /\ u \in Table /\ Ids(u) = Ids(t) /\ Len(u.items) = Len(t.items)
             /\ u.muteDirty = t.muteDirty /\ u.muteAll = t.muteAll
             /\ \A id \in Ids(t) : u.items[id].mute = t.items[id].mute
             /\ \A id \in S : u.items[id].state = items[id].state
                              /\ u.items[id].activity = items[id].activity
             /\ \A id \in Ids(t) \ S : u.items[id] = t.items[id]
             /\ t.dirty => u.dirty
             /\ ~u.dirty => \A id \in Ids(t) : u.items[id] = t.items[id]
<1> DEFINE u == UpdateAll(t, items)
           changed == {id \in S : <<items[id].state, items[id].activity>>
                                    # <<t.items[id].state, t.items[id].activity>>}
           new == [id \in Ids(t) |-> IF id \in changed THEN [items[id] EXCEPT !.mute = t.items[id].mute]
                                     ELSE t.items[id]]
           marked == (t.dirty \/ changed # {})
<1>1. \A id \in Ids(t) : t.items[id] \in Item BY TableFields
<1>2. new \in [Ids(t) -> Item]
  <2>1. \A id \in S : [items[id] EXCEPT !.mute = t.items[id].mute] \in Item BY <1>1 DEF Item
  <2> QED BY <1>1, <2>1
<1>3. u = [t EXCEPT !.items = new, !.dirty = marked, !.muteDirty = t.muteDirty]
  <2>1. DOMAIN t.items = Ids(t) /\ DOMAIN t.items \cap DOMAIN items = S BY TableFields
  <2>2. u = [t EXCEPT !.items = new, !.dirty = marked] BY <2>1 DEF UpdateAll
  <2> HIDE DEF u, new, marked
  <2> QED BY <2>2 DEF Table
<1>4. marked \in BOOLEAN OBVIOUS
<1>5. \A id \in S : id \notin changed =>
        t.items[id].state = items[id].state /\ t.items[id].activity = items[id].activity
  OBVIOUS
<1>6. \A id \in S : id \in changed =>
        /\ [items[id] EXCEPT !.mute = t.items[id].mute].state = items[id].state
        /\ [items[id] EXCEPT !.mute = t.items[id].mute].activity = items[id].activity
        /\ [items[id] EXCEPT !.mute = t.items[id].mute].mute = t.items[id].mute
  BY DEF Item
<1>7. \A id \in Ids(t) : new[id] = IF id \in changed THEN [items[id] EXCEPT !.mute = t.items[id].mute]
                                     ELSE t.items[id]
  OBVIOUS
<1>8. changed \subseteq S OBVIOUS
<1>9. /\ \A id \in Ids(t) : new[id].mute = t.items[id].mute
      /\ \A id \in S : new[id].state = items[id].state /\ new[id].activity = items[id].activity
      /\ \A id \in Ids(t) \ S : new[id] = t.items[id]
  <2> HIDE DEF new, changed
  <2>1. \A id \in Ids(t) : new[id].mute = t.items[id].mute BY <1>6, <1>7, <1>8
  <2>2. ASSUME NEW id \in S PROVE new[id].state = items[id].state /\ new[id].activity = items[id].activity
    <3>1. CASE id \in changed BY <1>6, <1>7, <3>1
    <3>2. CASE id \notin changed BY <1>5, <1>7, <3>2
    <3> QED BY <3>1, <3>2
  <2>3. \A id \in Ids(t) \ S : new[id] = t.items[id] BY <1>7, <1>8
  <2> QED BY <2>1, <2>2, <2>3
<1>10. ~marked => \A id \in Ids(t) : new[id] = t.items[id]
  <2> HIDE DEF new, changed
  <2> QED BY <1>7
<1> HIDE DEF u, new, marked
<1>11. /\ u \in Table /\ Ids(u) = Ids(t) /\ Len(u.items) = Len(t.items)
       /\ u.items = new /\ u.muteAll = t.muteAll /\ u.dirty = marked /\ u.muteDirty = t.muteDirty
  <2>1. t.muteDirty \in BOOLEAN BY TableFields
  <2>2. new \in Seq(Item) /\ Len(new) = Len(t.items) BY <1>2, SameLength
  <2>3. u \in Table BY <1>3, <1>4, <2>1, <2>2, TableReplaced, Zenon
  <2>4. u.items = new /\ u.muteAll = t.muteAll /\ u.dirty = marked /\ u.muteDirty = t.muteDirty
    BY <1>3, ReplacedFields, Zenon DEF Table
  <2> QED BY <2>2, <2>3, <2>4 DEF Ids
<1>12. t.dirty => marked BY DEF marked
<1> QED BY <1>9, <1>10, <1>11, <1>12 DEF u

\* Reset, and a mute.
LEMMA ResetTable ==
  ASSUME NEW t \in Table
  PROVE  LET u == Reset(t)
         IN  /\ u \in Table /\ Ids(u) = Ids(t) /\ Len(u.items) = Len(t.items)
             /\ u.dirty = FALSE /\ u.muteDirty = FALSE
             /\ \A id \in Ids(t) : /\ u.items[id].mute = t.items[id].mute
                                   /\ u.items[id].state = t.items[id].state
                                   /\ u.items[id].activity = FALSE
<1> DEFINE new == [id \in Ids(t) |-> [t.items[id] EXCEPT !.activity = FALSE]]
<1>1. \A id \in Ids(t) : t.items[id] \in Item BY TableFields
<1>2. \A i \in Item, b \in BOOLEAN : /\ [i EXCEPT !.activity = b] \in Item
                                     /\ [i EXCEPT !.activity = b].mute = i.mute
                                     /\ [i EXCEPT !.activity = b].state = i.state
                                     /\ [i EXCEPT !.activity = b].activity = b
  BY DEF Item
<1>3. FALSE \in BOOLEAN OBVIOUS
<1>4. \A id \in Ids(t) : /\ [t.items[id] EXCEPT !.activity = FALSE] \in Item
                         /\ [t.items[id] EXCEPT !.activity = FALSE].mute = t.items[id].mute
                         /\ [t.items[id] EXCEPT !.activity = FALSE].state = t.items[id].state
                         /\ [t.items[id] EXCEPT !.activity = FALSE].activity = FALSE
  BY <1>1, <1>2, <1>3, Zenon
<1>5. new \in [Ids(t) -> Item] BY <1>4
<1>7. Reset(t) = [t EXCEPT !.items = new, !.dirty = FALSE, !.muteDirty = FALSE]
  <2>1. DOMAIN t.items = Ids(t) BY TableFields
  <2> QED BY <2>1, Zenon DEF Reset
<1>8. \A id \in Ids(t) : new[id] = [t.items[id] EXCEPT !.activity = FALSE] OBVIOUS
<1> HIDE DEF new
<1>9. LET u == Reset(t)
      IN  /\ u \in Table /\ Ids(u) = Ids(t) /\ Len(u.items) = Len(t.items)
          /\ u.items = new /\ u.muteAll = t.muteAll /\ u.dirty = FALSE /\ u.muteDirty = FALSE
  <2>1. new \in Seq(Item) /\ Len(new) = Len(t.items) BY <1>5, SameLength
  <2>2. Reset(t) \in Table BY <1>3, <1>7, <2>1, TableReplaced, Zenon
  <2>4. \A p : LET u == [t EXCEPT !.items = new, !.dirty = p, !.muteDirty = p]
               IN  u.items = new /\ u.muteAll = t.muteAll /\ u.dirty = p /\ u.muteDirty = p
    BY ReplacedFields DEF Table
  <2>3. LET u == Reset(t)
        IN  u.items = new /\ u.muteAll = t.muteAll /\ u.dirty = FALSE /\ u.muteDirty = FALSE
    BY <1>7, <2>4, Zenon
  <2> QED BY <2>1, <2>2, <2>3 DEF Ids
<1> QED BY <1>4, <1>8, <1>9

LEMMA MutedTable ==
  ASSUME NEW t \in Table, NEW id, NEW b \in BOOLEAN
  PROVE  LET u == Mute(t, id, b)
         IN  /\ u \in Table /\ Ids(u) = Ids(t) /\ Len(u.items) = Len(t.items) /\ u.dirty = t.dirty
             /\ \A k \in Ids(t) : /\ u.items[k].state = t.items[k].state
                                  /\ u.items[k].activity = t.items[k].activity
                                  /\ k # id => u.items[k].mute = t.items[k].mute
             /\ id \in Ids(t) => u.items[id].mute = b
             /\ u.muteDirty \/ u = t
<1>1. DOMAIN t.items = Ids(t) /\ \A k \in Ids(t) : t.items[k] \in Item BY TableFields
<1>2. CASE ~(id \in DOMAIN t.items /\ t.items[id].mute # b) BY <1>1, <1>2 DEF Mute
<1>3. CASE id \in DOMAIN t.items /\ t.items[id].mute # b
  <2> DEFINE u == Mute(t, id, b)
             new == [t.items EXCEPT ![id].mute = b]
  <2>1. u = [t EXCEPT !.items[id].mute = b, !.muteDirty = TRUE] BY <1>3, Zenon DEF Mute
  <2>2. new \in [Ids(t) -> Item] BY <1>1, <1>3 DEF Item
  <2>3. ASSUME NEW k \in Ids(t)
        PROVE  /\ new[k].state = t.items[k].state /\ new[k].activity = t.items[k].activity
               /\ k # id => new[k].mute = t.items[k].mute
               /\ k = id => new[k].mute = b
    BY <1>1, <1>3 DEF Item
  <2>4. t.dirty \in BOOLEAN /\ TRUE \in BOOLEAN BY TableFields
  <2>5. u = [t EXCEPT !.items = new, !.dirty = t.dirty, !.muteDirty = TRUE]
    <3>1. \A p : [t EXCEPT !.items[id].mute = b, !.muteDirty = p]
                   = [t EXCEPT !.items = new, !.dirty = t.dirty, !.muteDirty = p]
      BY DEF Table
    <3> QED BY <2>1, <3>1, Zenon
  <2> HIDE DEF u, new
  <2>6. /\ u \in Table /\ Ids(u) = Ids(t) /\ Len(u.items) = Len(t.items)
        /\ u.items = new /\ u.muteAll = t.muteAll /\ u.dirty = t.dirty /\ u.muteDirty = TRUE
    <3>1. new \in Seq(Item) /\ Len(new) = Len(t.items) BY <2>2, SameLength
    <3>2. u \in Table BY <2>4, <2>5, <3>1, TableReplaced, Zenon
    <3>3. u.items = new /\ u.muteAll = t.muteAll /\ u.dirty = t.dirty /\ u.muteDirty = TRUE
      BY <2>5, ReplacedFields, Zenon DEF Table
    <3> QED BY <3>1, <3>2, <3>3 DEF Ids
  <2>7. id \in Ids(t) BY <1>1, <1>3
  <2> QED BY <2>3, <2>6, <2>7 DEF u
<1> QED BY <1>2, <1>3

LEMMA SyncedUi ==
  ASSUME NEW ui \in Table, NEW other \in Table, Len(ui.items) = Len(other.items)
  PROVE  /\ SyncUi(ui, other) \in Table /\ Ids(SyncUi(ui, other)) = Ids(ui)
         /\ Len(SyncUi(ui, other).items) = Len(ui.items)
         /\ SyncUi(ui, other).muteDirty = FALSE
         /\ \A id \in Ids(ui) : SyncUi(ui, other).items[id].mute = ui.items[id].mute
         /\ other.dirty => \A id \in Ids(ui) :
              /\ SyncUi(ui, other).items[id].state = other.items[id].state
              /\ SyncUi(ui, other).items[id].activity = other.items[id].activity
         /\ ~other.dirty => \A id \in Ids(ui) : SyncUi(ui, other).items[id] = ui.items[id]
         /\ ui.dirty => SyncUi(ui, other).dirty
         /\ ~SyncUi(ui, other).dirty => \A id \in Ids(ui) : SyncUi(ui, other).items[id] = ui.items[id]
<1> DEFINE v == IF other.dirty THEN UpdateAll(ui, other.items) ELSE ui
           s == SyncUi(ui, other)
<1>1. other.items \in [Ids(ui) -> Item] /\ Ids(ui) \in SUBSET Ids(ui)
  BY TableFields DEF Ids
<1>2. /\ v \in Table /\ Ids(v) = Ids(ui) /\ Len(v.items) = Len(ui.items)
      /\ \A id \in Ids(ui) : v.items[id].mute = ui.items[id].mute
      /\ other.dirty => \A id \in Ids(ui) : /\ v.items[id].state = other.items[id].state
                                            /\ v.items[id].activity = other.items[id].activity
      /\ ~other.dirty => \A id \in Ids(ui) : v.items[id] = ui.items[id]
      /\ ui.dirty => v.dirty
      /\ ~v.dirty => \A id \in Ids(ui) : v.items[id] = ui.items[id]
  <2> DEFINE w == UpdateAll(ui, other.items)
  <2>1. /\ w \in Table /\ Ids(w) = Ids(ui) /\ Len(w.items) = Len(ui.items)
        /\ \A id \in Ids(ui) : w.items[id].mute = ui.items[id].mute
        /\ \A id \in Ids(ui) : w.items[id].state = other.items[id].state
                               /\ w.items[id].activity = other.items[id].activity
        /\ ui.dirty => w.dirty
        /\ ~w.dirty => \A id \in Ids(ui) : w.items[id] = ui.items[id]
    BY <1>1, UpdatedTable
  <2> HIDE DEF w
  <2>2. CASE other.dirty
    <3>1. v = w BY <2>2 DEF w
    <3> HIDE DEF v
    <3> QED BY <2>1, <2>2, <3>1
  <2>3. CASE ~other.dirty
    <3>1. v = ui BY <2>3
    <3> HIDE DEF v
    <3> QED BY <2>3, <3>1
  <2> QED BY <2>2, <2>3
<1>3. s = [v EXCEPT !.muteDirty = FALSE] BY DEF SyncUi
<1> HIDE DEF v, s
<1>4. FALSE \in BOOLEAN OBVIOUS
<1>5. \A p \in BOOLEAN : [v EXCEPT !.muteDirty = p] \in Table BY <1>2 DEF Table
<1>6. \A p \in BOOLEAN : /\ [v EXCEPT !.muteDirty = p].items = v.items
                         /\ [v EXCEPT !.muteDirty = p].dirty = v.dirty
                         /\ [v EXCEPT !.muteDirty = p].muteDirty = p
  BY <1>2 DEF Table
<1>7. s \in Table BY <1>3, <1>4, <1>5, Zenon
<1>8. s.items = v.items /\ s.dirty = v.dirty /\ s.muteDirty = FALSE BY <1>3, <1>4, <1>6, Zenon
<1> QED BY <1>2, <1>7, <1>8 DEF s, Ids

LEMMA SyncedRouter ==
  ASSUME NEW ui \in Table, NEW other \in Table, Len(ui.items) = Len(other.items)
  PROVE  /\ SyncRouter(ui, other) \in Table /\ Ids(SyncRouter(ui, other)) = Ids(ui)
         /\ Len(SyncRouter(ui, other).items) = Len(ui.items)
         /\ SyncRouter(ui, other).dirty = FALSE
         /\ \A id \in Ids(ui) :
              /\ SyncRouter(ui, other).items[id].state = other.items[id].state
              /\ SyncRouter(ui, other).items[id].mute
                   = IF ui.muteDirty THEN ui.items[id].mute ELSE other.items[id].mute
<1> DEFINE s == SyncRouter(ui, other)
           new == [id \in DOMAIN other.items |-> Exchanged(ui, other, id)]
<1>1. /\ DOMAIN other.items = Ids(ui) /\ DOMAIN ui.items = Ids(ui) /\ Ids(other) = Ids(ui)
      /\ \A id \in Ids(ui) : other.items[id] \in Item /\ ui.items[id] \in Item
      /\ ui.muteDirty \in BOOLEAN /\ other.dirty \in BOOLEAN /\ ui.muteAll \in SUBSET Directions
      /\ other.muteDirty \in BOOLEAN
  BY TableFields DEF Ids
<1>2. s = [other EXCEPT !.items = new, !.muteAll = ui.muteAll, !.dirty = FALSE]
  BY DEF SyncRouter
<1>3. \A i \in Item, a \in BOOLEAN, m \in BOOLEAN :
        /\ [i EXCEPT !.activity = a, !.mute = m] \in Item
        /\ [i EXCEPT !.activity = a, !.mute = m].state = i.state
        /\ [i EXCEPT !.activity = a, !.mute = m].mute = m
  BY DEF Item
<1>5. ASSUME NEW id \in Ids(ui)
      PROVE  /\ new[id] \in Item /\ new[id].state = other.items[id].state
             /\ new[id].mute = IF ui.muteDirty THEN ui.items[id].mute ELSE other.items[id].mute
  <2> DEFINE active == other.items[id].activity /\ ~other.dirty
             muted == IF ui.muteDirty /\ id \in DOMAIN ui.items THEN ui.items[id].mute
                      ELSE other.items[id].mute
  <2>1. new[id] = [other.items[id] EXCEPT !.activity = active, !.mute = muted] BY <1>1, Zenon DEF Exchanged
  <2>2. other.items[id] \in Item /\ active \in BOOLEAN /\ muted \in BOOLEAN BY <1>1 DEF Item
  <2>3. muted = IF ui.muteDirty THEN ui.items[id].mute ELSE other.items[id].mute BY <1>1
  <2> HIDE DEF active, muted
  <2>4. LET u == [other.items[id] EXCEPT !.activity = active, !.mute = muted]
        IN  u \in Item /\ u.state = other.items[id].state /\ u.mute = muted
    BY <1>3, <2>2, Zenon
  <2> HIDE DEF new
  <2> QED BY <2>1, <2>3, <2>4
<1> HIDE DEF new
<1>6. new \in Seq(Item) /\ Len(new) = Len(ui.items)
  <2>1. new \in [Ids(ui) -> Item] BY <1>1, <1>5 DEF new
  <2> HIDE DEF new
  <2> QED BY <2>1, SameLength
<1> HIDE DEF new, s
<1>7. \A p \in BOOLEAN : [other EXCEPT !.items = new, !.muteAll = ui.muteAll, !.dirty = p] \in Table
  BY <1>1, <1>6 DEF Table
<1>8. \A p \in BOOLEAN : LET u == [other EXCEPT !.items = new, !.muteAll = ui.muteAll, !.dirty = p]
                         IN  u.items = new /\ u.dirty = p
  BY DEF Table
<1>9. FALSE \in BOOLEAN OBVIOUS
<1>10. s \in Table BY <1>2, <1>7, <1>9, Zenon
<1>11. s.items = new /\ s.dirty = FALSE BY <1>2, <1>8, <1>9, Zenon
<1> QED BY <1>5, <1>6, <1>10, <1>11 DEF s, Ids

LEMMA DeactivatedTable ==
  ASSUME NEW t \in Table
  PROVE  Deactivate(t) \in Table /\ Len(Deactivate(t).items) = Len(t.items)
<1> DEFINE item == [state |-> Uninitialized, activity |-> FALSE, mute |-> FALSE]
           items == [id \in Ids(t) |-> item]
<1>1. FALSE \in BOOLEAN OBVIOUS
<1>2. \A b \in BOOLEAN : [state |-> Uninitialized, activity |-> b, mute |-> b] \in Item
  BY StatesAssumption DEF Item
<1>3. item \in Item BY <1>1, <1>2, Zenon
<1>4. items \in [Ids(t) -> Item] /\ Ids(t) \in SUBSET Ids(t) BY <1>3
<1>5. Deactivate(t) = UpdateAll(t, items) BY TableFields, Zenon DEF Deactivate
<1> HIDE DEF items
<1> QED BY <1>4, <1>5, UpdatedTable

LEMMA UpdatedItem ==
  ASSUME NEW t \in Table, NEW id \in Ids(t), NEW item \in Item
  PROVE  LET u == Update(t, id, item)
         IN  /\ u \in Table /\ Ids(u) = Ids(t) /\ Len(u.items) = Len(t.items)
             /\ \A k \in Ids(t) : u.items[k].mute = t.items[k].mute
             /\ u.items[id].state = item.state /\ u.items[id].activity = item.activity
             /\ \A k \in Ids(t) : k # id => u.items[k] = t.items[k]
             /\ t.dirty => u.dirty
             /\ ~u.dirty => \A k \in Ids(t) : u.items[k] = t.items[k]
<1> DEFINE items == [k \in {id} |-> item]
<1>1. {id} \in SUBSET Ids(t) /\ items \in [{id} -> Item] /\ items[id] = item OBVIOUS
<1>2. Update(t, id, item) = UpdateAll(t, items) BY DEF Update
<1> HIDE DEF items
<1>3. LET u == UpdateAll(t, items)
         IN  /\ u \in Table /\ Ids(u) = Ids(t) /\ Len(u.items) = Len(t.items)
             /\ \A k \in Ids(t) : u.items[k].mute = t.items[k].mute
             /\ \A k \in {id} : u.items[k].state = items[k].state
                                /\ u.items[k].activity = items[k].activity
             /\ \A k \in Ids(t) \ {id} : u.items[k] = t.items[k]
             /\ t.dirty => u.dirty
             /\ ~u.dirty => \A k \in Ids(t) : u.items[k] = t.items[k]
  BY <1>1, UpdatedTable
<1> QED BY <1>1, <1>2, <1>3

-----------------------------------------------------------------------------
(* PrepareForRouting, from the first route to the last connection. *)

\* The items of t are the first of u.
Extends(u, t) ==
  /\ Len(t.items) <= Len(u.items)
  /\ \A i \in Ids(t) : u.items[i] = t.items[i]

LEMMA RegisterExtends ==
  ASSUME NEW t \in Table, NEW mute \in BOOLEAN
  PROVE  Extends(Register(t, mute), t)
<1>1. /\ Len(Register(t, mute).items) = Len(t.items) + 1
      /\ \A i \in 1..Len(t.items) : Register(t, mute).items[i] = t.items[i]
  BY RegisterTable
<1>2. Len(t.items) \in Nat BY TableFields
<1> QED BY <1>1, <1>2 DEF Extends, Ids

LEMMA ExtendsTransitive ==
  ASSUME NEW t \in Table, NEW u \in Table, NEW v \in Table, Extends(u, t), Extends(v, u)
  PROVE  Extends(v, t)
<1>1. Len(t.items) \in Nat /\ Len(u.items) \in Nat /\ Len(v.items) \in Nat BY TableFields
<1>2. Ids(t) \subseteq Ids(u) BY <1>1 DEF Extends, Ids
<1> QED BY <1>1, <1>2 DEF Extends

LEMMA WithSrcKeeps ==
  ASSUME NEW acc \in Fitting, NEW r \in Route
  PROVE  /\ Extends(WithSrc(acc, r).table, acc.table)
         /\ WithSrc(acc, r).dstStates = acc.dstStates
<1>1. acc \in Prepared /\ acc.table \in Table /\ Len(acc.table.items) \in Nat
  BY FittingFields DEF Fitting
<1>2. CASE r.src \in DOMAIN acc.srcStates BY <1>1, <1>2 DEF WithSrc, Extends
<1>3. CASE r.src \notin DOMAIN acc.srcStates
  <2> DEFINE w == [acc EXCEPT !.table = Register(acc.table, FALSE),
                              !.srcStates = Inserted(acc.srcStates, r.src, Len(acc.table.items) + 1)]
  <2>1. WithSrc(acc, r) = w BY <1>3 DEF WithSrc
  <2>2. w.table = Register(acc.table, FALSE) /\ w.dstStates = acc.dstStates BY <1>1 DEF Prepared
  <2>3. FALSE \in BOOLEAN OBVIOUS
  <2>4. Extends(Register(acc.table, FALSE), acc.table) BY <1>1, <2>3, RegisterExtends, Zenon
  <2> HIDE DEF w
  <2> QED BY <2>1, <2>2, <2>4
<1> QED BY <1>2, <1>3

LEMMA WithDstAdds ==
  ASSUME NEW acc \in Fitting, NEW r \in Route
  PROVE  LET w == WithDst(acc, r)
         IN  /\ Extends(w.table, acc.table)
             /\ DOMAIN w.dstStates = DOMAIN acc.dstStates \cup {r.dst}
             /\ \A a \in DOMAIN acc.dstStates : w.dstStates[a] = acc.dstStates[a]
             /\ r.dst \notin DOMAIN acc.dstStates => w.table.items[w.dstStates[r.dst]].mute = r.mute
<1>1. acc \in Prepared /\ acc.table \in Table /\ acc.dstStates \in IdMap
      /\ Len(acc.table.items) \in Nat /\ Len(acc.table.items) + 1 \in Nat
  BY FittingFields DEF Fitting
<1>2. CASE r.dst \in DOMAIN acc.dstStates BY <1>1, <1>2 DEF WithDst, Extends
<1>3. CASE r.dst \notin DOMAIN acc.dstStates
  <2> DEFINE n == Len(acc.table.items)
             map == Inserted(acc.dstStates, r.dst, n + 1)
             new == Register(acc.table, r.mute)
             w == [acc EXCEPT !.table = new, !.dstStates = map]
  <2>1. WithDst(acc, r) = w BY <1>3 DEF WithDst
  <2>2. w.table = new /\ w.dstStates = map BY <1>1 DEF Prepared
  <2>3. r.mute \in BOOLEAN /\ r.dst \in AnyAddr BY DEF Route, AnyAddr
  <2>4. Extends(new, acc.table) BY <1>1, <2>3, RegisterExtends, Zenon
  <2>5. new.items[n + 1].mute = r.mute BY <1>1, <2>3, RegisterTable
  <2>6. \A k \in Nat :
          /\ Inserted(acc.dstStates, r.dst, k)[r.dst] = k
          /\ \A b \in DOMAIN acc.dstStates :
               b # r.dst => Inserted(acc.dstStates, r.dst, k)[b] = acc.dstStates[b]
    BY DEF Inserted
  <2>7. \A k \in Nat : DOMAIN Inserted(acc.dstStates, r.dst, k) = DOMAIN acc.dstStates \cup {r.dst}
    BY DEF Inserted
  <2>8. /\ map[r.dst] = n + 1 /\ \A b \in DOMAIN acc.dstStates : b # r.dst => map[b] = acc.dstStates[b]
        /\ DOMAIN map = DOMAIN acc.dstStates \cup {r.dst}
    <3> HIDE DEF w, new
    <3> QED BY <1>1, <2>6, <2>7
  <2> HIDE DEF w, map, new
  <2> QED BY <1>3, <2>1, <2>2, <2>4, <2>5, <2>8
<1> QED BY <1>2, <1>3

\* What a route adds: its ids, of which the one of the destination belongs to its address.
LEMMA PrepareRouteAdds ==
  ASSUME NEW acc \in Fitting, NEW r \in Route
  PROVE  LET w == PrepareRoute(acc, r)
             id == w.ids[Len(acc.ids) + 1]
         IN  /\ Len(w.ids) = Len(acc.ids) + 1
             /\ \A i \in 1..Len(acc.ids) : w.ids[i] = acc.ids[i]
             /\ Extends(w.table, acc.table)
             /\ DOMAIN acc.dstStates \subseteq DOMAIN w.dstStates
             /\ DOMAIN w.dstStates \subseteq DOMAIN acc.dstStates \cup {r.dst}
             /\ \A a \in DOMAIN acc.dstStates : w.dstStates[a] = acc.dstStates[a]
             /\ id.dst # 0 =>
                  /\ r.dst \in DOMAIN w.dstStates /\ id.dst = w.dstStates[r.dst]
                  /\ r.dst \notin DOMAIN acc.dstStates => w.table.items[id.dst].mute = r.mute
<1> DEFINE w == PrepareRoute(acc, r)
<1>1. acc \in Prepared /\ acc.ids \in Seq(Id) /\ Len(acc.ids) \in Nat
      /\ acc.table \in Table /\ Len(acc.table.items) \in Nat
  <2>1. acc \in Prepared /\ acc.ids \in Seq(Id) /\ acc.table \in Table /\ Len(acc.table.items) \in Nat
    BY FittingFields DEF Fitting
  <2> QED BY <2>1
<1>2. CASE CannotRun(r) \/ \E p \in Range(acc.routes) : SameRoute(p, r)
  <2> DEFINE v == [acc EXCEPT !.ids = Append(acc.ids, NoIds)]
  <2>1. NoIds \in Id /\ NoIds.dst = 0 BY DEF NoIds, Id
  <2>2. /\ Len(Append(acc.ids, NoIds)) = Len(acc.ids) + 1
        /\ \A i \in 1..Len(acc.ids) : Append(acc.ids, NoIds)[i] = acc.ids[i]
        /\ Append(acc.ids, NoIds)[Len(acc.ids) + 1] = NoIds
    BY <1>1, <2>1, AppendKeeps
  <2>3. v.ids = Append(acc.ids, NoIds) /\ v.table = acc.table /\ v.dstStates = acc.dstStates
    BY <1>1 DEF Prepared
  <2>4. w = v BY <1>2 DEF PrepareRoute
  <2>5. Extends(acc.table, acc.table) BY <1>1 DEF Extends
  <2> HIDE DEF v, w
  <2> QED BY <2>1, <2>2, <2>3, <2>4, <2>5 DEF w
<1>3. CASE ~(CannotRun(r) \/ \E p \in Range(acc.routes) : SameRoute(p, r))
  <2> DEFINE u == WithSrc(acc, r)
             v == WithDst(u, r)
             id == [src |-> v.srcStates[r.src], dst |-> v.dstStates[r.dst]]
             route == [src |-> r.src, dst |-> r.dst, path |-> r.path, enable |-> r.enable, id |-> id]
             x == [v EXCEPT !.ids = Append(v.ids, id), !.routes = Append(v.routes, route)]
  <2>1. /\ u \in Fitting /\ u.ids = acc.ids /\ Extends(u.table, acc.table)
        /\ u.dstStates = acc.dstStates /\ r.src \in DOMAIN u.srcStates
    BY WithSrcFits, WithSrcKeeps
  <2>2. w = x BY <1>3 DEF PrepareRoute
  <2> HIDE DEF u
  <2>3. /\ v \in Fitting /\ v.ids = u.ids /\ Extends(v.table, u.table) /\ v.srcStates = u.srcStates
        /\ r.dst \in DOMAIN v.dstStates
        /\ DOMAIN v.dstStates = DOMAIN u.dstStates \cup {r.dst}
        /\ \A a \in DOMAIN u.dstStates : v.dstStates[a] = u.dstStates[a]
        /\ r.dst \notin DOMAIN u.dstStates => v.table.items[v.dstStates[r.dst]].mute = r.mute
    BY <2>1, WithDstFits, WithDstAdds
  <2> HIDE DEF v
  <2>4. v \in Prepared /\ u.table \in Table /\ v.table \in Table /\ v.ids \in Seq(Id)
        /\ v.srcStates \in IdMap /\ v.dstStates \in IdMap
    BY <2>1, <2>3, FittingFields DEF Fitting
  <2>5. id \in Id BY <2>1, <2>3, <2>4 DEF Id, IdMap
  <2>6. x.ids = Append(v.ids, id) /\ x.table = v.table /\ x.dstStates = v.dstStates
    BY <2>4 DEF Prepared
  <2>7. id.dst = v.dstStates[r.dst] OBVIOUS
  <2> HIDE DEF id, route, x
  <2>8. /\ Len(Append(v.ids, id)) = Len(v.ids) + 1
        /\ \A i \in 1..Len(v.ids) : Append(v.ids, id)[i] = v.ids[i]
        /\ Append(v.ids, id)[Len(v.ids) + 1] = id
    BY <2>4, <2>5, AppendKeeps
  <2>9. Extends(v.table, acc.table) BY <1>1, <2>1, <2>3, <2>4, ExtendsTransitive
  <2> HIDE DEF w
  <2>10. /\ Len(w.ids) = Len(acc.ids) + 1
         /\ \A i \in 1..Len(acc.ids) : w.ids[i] = acc.ids[i]
         /\ w.ids[Len(acc.ids) + 1] = id
    BY <2>1, <2>2, <2>3, <2>6, <2>8
  <2>11. w.table = v.table /\ w.dstStates = v.dstStates BY <2>2, <2>6
  <2> QED BY <2>1, <2>3, <2>7, <2>9, <2>10, <2>11 DEF w
<1> QED BY <1>2, <1>3

\* The first n routes are prepared: each has its ids, the one of the destination is that of
\* its address, and its item has the mute of the first route with the address.
Good(routes, n, acc) ==
  /\ acc \in Fitting
  /\ Len(acc.ids) = n
  /\ \A a \in DOMAIN acc.dstStates : \E j \in 1..n : routes[j].dst = a
  /\ \A k \in 1..n : acc.ids[k].dst # 0 =>
       /\ routes[k].dst \in DOMAIN acc.dstStates /\ acc.ids[k].dst = acc.dstStates[routes[k].dst]
       /\ (\A j \in 1..n : j < k => routes[j].dst # routes[k].dst) =>
            acc.table.items[acc.ids[k].dst].mute = routes[k].mute

LEMMA GoodStep ==
  ASSUME NEW routes \in Seq(Route), NEW n \in 1..Len(routes), NEW acc, Good(routes, n - 1, acc)
  PROVE  Good(routes, n, PrepareRoute(acc, routes[n]))
<1> DEFINE r == routes[n]
           w == PrepareRoute(acc, r)
           id == w.ids[n]
<1>1. r \in Route /\ n \in Nat /\ n - 1 \in Nat /\ acc \in Fitting /\ Len(acc.ids) = n - 1
      /\ (n - 1) + 1 = n
  BY DEF Good
<1>2. w \in Fitting BY <1>1, PrepareRouteFits
<1>3. /\ Len(w.ids) = n
      /\ \A i \in 1..(n - 1) : w.ids[i] = acc.ids[i]
      /\ Extends(w.table, acc.table)
      /\ DOMAIN acc.dstStates \subseteq DOMAIN w.dstStates
      /\ DOMAIN w.dstStates \subseteq DOMAIN acc.dstStates \cup {r.dst}
      /\ \A a \in DOMAIN acc.dstStates : w.dstStates[a] = acc.dstStates[a]
      /\ id.dst # 0 => /\ r.dst \in DOMAIN w.dstStates /\ id.dst = w.dstStates[r.dst]
                       /\ r.dst \notin DOMAIN acc.dstStates => w.table.items[id.dst].mute = r.mute
  <2> HIDE DEF r
  <2>1. LET prepared == PrepareRoute(acc, r)
            given == prepared.ids[Len(acc.ids) + 1]
        IN  /\ Len(prepared.ids) = Len(acc.ids) + 1
            /\ \A i \in 1..Len(acc.ids) : prepared.ids[i] = acc.ids[i]
            /\ Extends(prepared.table, acc.table)
            /\ DOMAIN acc.dstStates \subseteq DOMAIN prepared.dstStates
            /\ DOMAIN prepared.dstStates \subseteq DOMAIN acc.dstStates \cup {r.dst}
            /\ \A a \in DOMAIN acc.dstStates : prepared.dstStates[a] = acc.dstStates[a]
            /\ given.dst # 0 =>
                 /\ r.dst \in DOMAIN prepared.dstStates /\ given.dst = prepared.dstStates[r.dst]
                 /\ r.dst \notin DOMAIN acc.dstStates => prepared.table.items[given.dst].mute = r.mute
    BY <1>1, PrepareRouteAdds
  <2> HIDE DEF w
  <2> QED BY <1>1, <2>1 DEF w
<1> HIDE DEF w
<1>4. \A a \in DOMAIN w.dstStates : \E j \in 1..n : routes[j].dst = a
  <2>1. SUFFICES ASSUME NEW a \in DOMAIN w.dstStates PROVE \E j \in 1..n : routes[j].dst = a OBVIOUS
  <2>2. CASE a = r.dst BY <1>1, <2>2
  <2>3. CASE a \in DOMAIN acc.dstStates
    <3>1. PICK j \in 1..(n - 1) : routes[j].dst = a BY <2>3 DEF Good
    <3>2. j \in 1..n BY <1>1
    <3> QED BY <3>1, <3>2
  <2> QED BY <1>3, <2>2, <2>3
<1>5. ASSUME NEW k \in 1..n, w.ids[k].dst # 0
      PROVE  /\ routes[k].dst \in DOMAIN w.dstStates /\ w.ids[k].dst = w.dstStates[routes[k].dst]
             /\ (\A j \in 1..n : j < k => routes[j].dst # routes[k].dst) =>
                  w.table.items[w.ids[k].dst].mute = routes[k].mute
  <2>1. CASE k = n
    <3>1. ASSUME \A j \in 1..n : j < k => routes[j].dst # routes[k].dst
          PROVE  r.dst \notin DOMAIN acc.dstStates
      <4>1. \A j \in 1..(n - 1) : j \in 1..n /\ j < k BY <1>1, <2>1
      <4> QED BY <2>1, <3>1, <4>1 DEF Good
    <3> QED BY <1>3, <1>5, <2>1, <3>1
  <2>2. CASE k # n
    <3>1. k \in 1..(n - 1) BY <1>1, <2>2
    <3>2. w.ids[k] = acc.ids[k] BY <1>3, <3>1
    <3>3. /\ routes[k].dst \in DOMAIN acc.dstStates /\ acc.ids[k].dst = acc.dstStates[routes[k].dst]
          /\ (\A j \in 1..(n - 1) : j < k => routes[j].dst # routes[k].dst) =>
               acc.table.items[acc.ids[k].dst].mute = routes[k].mute
      BY <1>5, <3>1, <3>2 DEF Good
    <3>4. acc.ids[k].dst \in Ids(acc.table)
      <4>1. acc.dstStates[routes[k].dst] \in 1..Len(acc.table.items) BY <1>1, <3>3 DEF Fitting, IdsFit
      <4> QED BY <3>3, <4>1 DEF Ids
    <3>5. w.table.items[acc.ids[k].dst] = acc.table.items[acc.ids[k].dst] BY <1>3, <3>4 DEF Extends
    <3>6. \A j \in 1..(n - 1) : j \in 1..n BY <1>1
    <3> QED BY <1>3, <3>2, <3>3, <3>5, <3>6
  <2> QED BY <2>1, <2>2
<1> QED BY <1>2, <1>3, <1>4, <1>5 DEF Good, w

LEMMA RoutesGood ==
  ASSUME NEW routes \in Seq(Route), NEW start, Good(routes, 0, start)
  PROVE  Good(routes, Len(routes), RoutesPrepared(routes, start))
<1> DEFINE N == Len(routes)
           Goes(g) == g = [n \in 0..N |-> IF n = 0 THEN start ELSE PrepareRoute(g[n - 1], routes[n])]
           step == [n \in 1..N |-> [acc \in Fitting |-> PrepareRoute(acc, routes[n])]]
           acc == CHOOSE g : Goes(g)
<1>0. start \in Fitting BY DEF Good
<1>1. N \in Nat /\ \A n \in 1..N : routes[n] \in Route OBVIOUS
<1>2. step \in Steps(N, Fitting) BY <1>1, PrepareRouteFits DEF Steps
<1>3. PICK g : Runs(g, N, Fitting, start, step)
  <2> HIDE DEF step, N
  <2>1. N \in Nat BY <1>1
  <2> QED BY <1>0, <1>2, <2>1, IterationExists
<1>4. Goes(g)
  <2>1. \A n \in 0..N : n # 0 => n \in 1..N /\ n - 1 \in 0..N BY <1>1
  <2>2. \A n \in 1..N : g[n - 1] \in Fitting BY <1>1, <1>3 DEF Runs
  <2>3. \A n \in 1..N : step[n][g[n - 1]] = PrepareRoute(g[n - 1], routes[n]) BY <2>2
  <2> HIDE DEF step, N
  <2>4. \A n \in 0..N : g[n] = IF n = 0 THEN start ELSE PrepareRoute(g[n - 1], routes[n])
    BY <1>3, <2>1, <2>3 DEF Runs
  <2>5. g = [n \in 0..N |-> g[n]] BY <1>3 DEF Runs
  <2> QED BY <2>4, <2>5
<1>5. Goes(acc)
  <2> HIDE DEF Goes
  <2> QED BY <1>4
<1>6. Good(routes, N, acc[N])
  <2> HIDE DEF acc
  <2>1. acc[0] = start /\ \A n \in 1..N : acc[n] = PrepareRoute(acc[n - 1], routes[n])
    BY <1>1, <1>5
  <2> DEFINE T == {n \in 0..N : Good(routes, n, acc[n])}
  <2>2. 0 \in T BY <1>1, <2>1
  <2>3. ASSUME NEW n \in 0..N, n # N, n \in T PROVE n + 1 \in T
    <3>1. n + 1 \in 1..N /\ n + 1 \in 0..N /\ (n + 1) - 1 = n BY <1>1, <2>3
    <3>2. Good(routes, n, acc[n]) BY <2>3
    <3>3. Good(routes, n + 1, PrepareRoute(acc[n], routes[n + 1])) BY <3>1, <3>2, GoodStep
    <3>4. acc[n + 1] = PrepareRoute(acc[n], routes[n + 1]) BY <2>1, <3>1
    <3> QED BY <3>1, <3>3, <3>4
  <2>4. 0..N \subseteq T
    <3> HIDE DEF T, N
    <3>1. N \in Nat BY <1>1
    <3> QED BY <2>2, <2>3, <3>1, InductionUpTo
  <2>5. N \in 0..N BY <1>1
  <2> QED BY <2>4, <2>5
<1> QED BY <1>6 DEF RoutesPrepared

\* A connection changes neither the ids of the routes nor the items that are there.
LEMMA PrepareConnectionKeeps ==
  ASSUME NEW acc \in Fitting, NEW addr \in AnyAddr
  PROVE  LET w == PrepareConnection(acc, addr)
         IN  w.ids = acc.ids /\ w.routes = acc.routes /\ Extends(w.table, acc.table)
<1>1. acc \in Prepared /\ acc.table \in Table /\ Len(acc.table.items) \in Nat
  BY FittingFields DEF Fitting
<1> DEFINE skipped == addr \in {BadPort, Undefined} \cup {c.addr : c \in Range(acc.connections)}
<1>2. CASE skipped BY <1>1, <1>2 DEF PrepareConnection, Extends
<1>3. CASE ~skipped
  <2> DEFINE new == Append(acc.connections, [addr |-> addr, id |-> Len(acc.table.items) + 1])
             filled == Register(acc.table, FALSE)
             w == [acc EXCEPT !.table = filled, !.connections = new]
  <2>1. PrepareConnection(acc, addr) = w BY <1>3 DEF PrepareConnection
  <2> HIDE DEF filled, new
  <2>2. w.table = filled /\ w.ids = acc.ids /\ w.routes = acc.routes BY <1>1 DEF Prepared
  <2>3. FALSE \in BOOLEAN OBVIOUS
  <2>4. Extends(filled, acc.table) BY <1>1, <2>3, RegisterExtends, Zenon DEF filled
  <2> HIDE DEF w
  <2> QED BY <2>1, <2>2, <2>4
<1> QED BY <1>2, <1>3

LEMMA ConnectionsKeep ==
  ASSUME NEW connections \in Seq(AnyAddr), NEW start \in Fitting
  PROVE  LET w == ConnectionsPrepared(connections, start)
         IN  w \in Fitting /\ w.ids = start.ids /\ w.routes = start.routes /\ Extends(w.table, start.table)
<1> DEFINE N == Len(connections)
           Goes(g) == g = [n \in 0..N |-> IF n = 0 THEN start ELSE PrepareConnection(g[n - 1], connections[n])]
           step == [n \in 1..N |-> [acc \in Fitting |-> PrepareConnection(acc, connections[n])]]
           acc == CHOOSE g : Goes(g)
           Keeping == {w \in Fitting : /\ w.ids = start.ids /\ w.routes = start.routes
                                       /\ Extends(w.table, start.table)}
<1>1. N \in Nat /\ \A n \in 1..N : connections[n] \in AnyAddr OBVIOUS
<1>2. step \in Steps(N, Fitting) BY <1>1, PrepareConnectionFits DEF Steps
<1>3. PICK g : Runs(g, N, Fitting, start, step)
  <2> HIDE DEF step, N
  <2>1. N \in Nat BY <1>1
  <2> QED BY <1>2, <2>1, IterationExists
<1>4. Goes(g)
  <2>1. \A n \in 0..N : n # 0 => n \in 1..N /\ n - 1 \in 0..N BY <1>1
  <2>2. \A n \in 1..N : g[n - 1] \in Fitting BY <1>1, <1>3 DEF Runs
  <2>3. \A n \in 1..N : step[n][g[n - 1]] = PrepareConnection(g[n - 1], connections[n]) BY <2>2
  <2> HIDE DEF step, N
  <2>4. \A n \in 0..N : g[n] = IF n = 0 THEN start ELSE PrepareConnection(g[n - 1], connections[n])
    BY <1>3, <2>1, <2>3 DEF Runs
  <2>5. g = [n \in 0..N |-> g[n]] BY <1>3 DEF Runs
  <2> QED BY <2>4, <2>5
<1>5. Goes(acc)
  <2> HIDE DEF Goes
  <2> QED BY <1>4
<1>6. acc[N] \in Keeping
  <2> HIDE DEF acc
  <2>1. acc[0] = start /\ \A n \in 1..N : acc[n] = PrepareConnection(acc[n - 1], connections[n])
    BY <1>1, <1>5
  <2>2. ASSUME NEW n \in 1..N, acc[n - 1] \in Keeping PROVE acc[n] \in Keeping
    <3> DEFINE u == acc[n - 1]
               v == PrepareConnection(u, connections[n])
    <3>1. /\ u \in Fitting /\ u.ids = start.ids /\ u.routes = start.routes
          /\ Extends(u.table, start.table) /\ connections[n] \in AnyAddr
      BY <1>1, <2>2
    <3> HIDE DEF u
    <3>2. v \in Fitting BY <3>1, PrepareConnectionFits
    <3>3. v.ids = u.ids /\ v.routes = u.routes /\ Extends(v.table, u.table)
      BY <3>1, PrepareConnectionKeeps
    <3>4. acc[n] = v BY <2>1 DEF u
    <3> HIDE DEF v
    <3>5. v.table \in Table /\ u.table \in Table /\ start.table \in Table
      BY <3>1, <3>2, FittingFields
    <3>6. Extends(v.table, start.table) BY <3>1, <3>3, <3>5, ExtendsTransitive
    <3> QED BY <3>1, <3>2, <3>3, <3>4, <3>6
  <2>3. acc[0] \in Keeping
    <3>1. start.table \in Table /\ Len(start.table.items) \in Nat BY FittingFields
    <3>2. Extends(start.table, start.table) BY <3>1 DEF Extends
    <3> QED BY <2>1, <3>2
  <2>4. N \in Nat /\ N \in 0..N BY <1>1
  <2> HIDE DEF N, Keeping
  <2>5. \A n \in 0..N : acc[n] \in Keeping BY <2>2, <2>3, <2>4, IterationStays
  <2> QED BY <2>4, <2>5
<1> HIDE DEF acc
<1> QED BY <1>6 DEF ConnectionsPrepared, acc

\* What Start gives the router thread and the web interface.
LEMMA PreparedFacts ==
  ASSUME NEW c \in Contents, NEW t \in Table
  PROVE  LET p == PrepareForRouting(c, t)
         IN  /\ p \in Fitting
             /\ Len(p.ids) = Len(c.routes)
             /\ \A k \in 1..Len(c.routes) :
                  HasDestination(c.routes, k) /\ p.ids[k].dst # 0 =>
                    /\ p.table.items[p.ids[k].dst].mute = c.routes[k].mute
                    /\ \A j \in 1..Len(c.routes) : j # k => p.ids[j].dst # p.ids[k].dst
<1> DEFINE start == NothingPrepared(t, c.muteAll)
           v == RoutesPrepared(c.routes, start)
           p == PrepareForRouting(c, t)
           N == Len(c.routes)
<1>1. c.routes \in Seq(Route) /\ c.connections \in Seq(AnyAddr) /\ c.muteAll \in SUBSET Directions
  BY DEF Contents, AnyAddr
<1>2. start \in Fitting BY <1>1, NothingFits
<1>3. start.ids = <<>> /\ start.dstStates = <<>> BY DEF NothingPrepared
<1>4. DOMAIN start.dstStates = {} /\ Len(start.ids) = 0 BY <1>3
<1>5. p = ConnectionsPrepared(c.connections, v) BY DEF PrepareForRouting
<1> HIDE DEF start
<1>6. Good(c.routes, 0, start)
  <2>1. 1..0 = {} OBVIOUS
  <2> QED BY <1>2, <1>4, <2>1 DEF Good
<1>7. Good(c.routes, N, v) BY <1>1, <1>6, RoutesGood
<1> HIDE DEF v, p
<1>8. v \in Fitting BY <1>7 DEF Good
<1>9. p \in Fitting /\ p.ids = v.ids /\ Extends(p.table, v.table)
  BY <1>1, <1>5, <1>8, ConnectionsKeep
<1>10. Len(p.ids) = N BY <1>7, <1>9 DEF Good
<1>11. ASSUME NEW k \in 1..N, HasDestination(c.routes, k), p.ids[k].dst # 0
       PROVE  /\ p.table.items[p.ids[k].dst].mute = c.routes[k].mute
              /\ \A j \in 1..N : j # k => p.ids[j].dst # p.ids[k].dst
  <2>1. /\ c.routes[k].dst \in DOMAIN v.dstStates /\ v.ids[k].dst = v.dstStates[c.routes[k].dst]
        /\ (\A j \in 1..N : j < k => c.routes[j].dst # c.routes[k].dst) =>
             v.table.items[v.ids[k].dst].mute = c.routes[k].mute
    BY <1>7, <1>9, <1>11 DEF Good
  <2>2. \A j \in 1..N : j # k => c.routes[j].dst # c.routes[k].dst
    BY <1>1, <1>11 DEF HasDestination
  <2>3. v.ids[k].dst \in Ids(v.table)
    <3>1. v.dstStates[c.routes[k].dst] \in 1..Len(v.table.items) BY <1>8, <2>1 DEF Fitting, IdsFit
    <3> QED BY <2>1, <3>1 DEF Ids
  <2>4. p.table.items[p.ids[k].dst].mute = c.routes[k].mute
    <3>1. v.table.items[v.ids[k].dst].mute = c.routes[k].mute
      <4>1. N \in Nat BY <1>1
      <4>2. \A j \in 1..N : j < k => j # k BY <4>1
      <4> QED BY <2>1, <2>2, <4>2
    <3>2. p.table.items[v.ids[k].dst] = v.table.items[v.ids[k].dst] BY <1>9, <2>3 DEF Extends
    <3> QED BY <1>9, <3>1, <3>2
  <2>5. ASSUME NEW j \in 1..N, j # k PROVE p.ids[j].dst # p.ids[k].dst
    <3>1. SUFFICES ASSUME v.ids[j].dst = v.ids[k].dst PROVE FALSE BY <1>9
    <3>2. v.ids[j].dst # 0 BY <1>9, <1>11, <3>1
    <3>3. c.routes[j].dst \in DOMAIN v.dstStates /\ v.ids[j].dst = v.dstStates[c.routes[j].dst]
      BY <1>7, <3>2 DEF Good
    <3>4. c.routes[j].dst # c.routes[k].dst BY <2>2, <2>5
    <3> QED BY <1>8, <2>1, <3>1, <3>3, <3>4 DEF Fitting, IdsFit
  <2> QED BY <2>4, <2>5
<1> QED BY <1>9, <1>10, <1>11 DEF p

-----------------------------------------------------------------------------
(* What a browser is shown, and the configuration it edits. *)

\* The state that ItemStates gives of an end of a route.
Snapshot(t, i) ==
  LET Shown(id) == IF id \in DOMAIN t.items THEN <<t.items[id].state, t.items[id].activity>> ELSE <<>>
  IN  [n \in DOMAIN i |-> [src |-> Shown(i[n].src), dst |-> Shown(i[n].dst)]]
StateOf(t, i, n, e) ==
  IF n \in DOMAIN i /\ i[n][e] \in Ids(t) THEN t.items[i[n][e]].state ELSE Uninitialized

LEMMA SnapshotStates ==
  ASSUME NEW t \in Table, NEW i \in Seq(Id), NEW n, NEW e \in {"src", "dst"}
  PROVE  StateIn(Snapshot(t, i), n, e) = StateOf(t, i, n, e)
<1> DEFINE Shown(id) == IF id \in DOMAIN t.items THEN <<t.items[id].state, t.items[id].activity>> ELSE <<>>
<1>1. \A x, y : <<x, y>> # <<>> /\ <<x, y>>[1] = x OBVIOUS
<1>2. DOMAIN t.items = Ids(t) BY TableFields
<1>3. CASE n \notin DOMAIN i BY <1>3 DEF Snapshot, StateIn, StateOf
<1>4. CASE n \in DOMAIN i
  <2>1. Snapshot(t, i)[n][e] = Shown(i[n][e])
    <3>1. Snapshot(t, i)[n] = [src |-> Shown(i[n].src), dst |-> Shown(i[n].dst)] BY <1>4 DEF Snapshot
    <3> HIDE DEF Shown
    <3> QED BY <3>1
  <2>2. n \in DOMAIN Snapshot(t, i) BY <1>4 DEF Snapshot
  <2>3. CASE i[n][e] \in Ids(t)
    <3> DEFINE item == t.items[i[n][e]]
    <3>1. Shown(i[n][e]) = <<item.state, item.activity>> BY <1>2, <2>3
    <3>2. StateOf(t, i, n, e) = item.state BY <1>4, <2>3 DEF StateOf
    <3> HIDE DEF item, Shown
    <3>3. Snapshot(t, i)[n][e] # <<>> /\ Snapshot(t, i)[n][e][1] = item.state BY <1>1, <2>1, <3>1
    <3> QED BY <2>2, <3>2, <3>3 DEF StateIn
  <2>4. CASE i[n][e] \notin Ids(t)
    <3>1. Shown(i[n][e]) = <<>> BY <1>2, <2>4
    <3> HIDE DEF Shown
    <3> QED BY <1>4, <2>1, <2>4, <3>1 DEF StateIn, StateOf
  <2> QED BY <2>3, <2>4
<1> QED BY <1>3, <1>4

LEMMA SameStatesSameSnapshot ==
  ASSUME NEW t \in Table, NEW u \in Table, Ids(t) = Ids(u),
         \A id \in Ids(t) : t.items[id].state = u.items[id].state, NEW i
  PROVE  \A n, e : StateOf(t, i, n, e) = StateOf(u, i, n, e)
BY DEF StateOf

LEMMA MutedContents ==
  ASSUME NEW c \in Contents, NEW n \in DOMAIN c.routes, NEW b \in BOOLEAN
  PROVE  LET d == [c EXCEPT !.routes[n].mute = b]
         IN  /\ d \in Contents /\ Len(d.routes) = Len(c.routes)
             /\ \A k \in 1..Len(c.routes) : /\ d.routes[k].dst = c.routes[k].dst
                                            /\ k # n => d.routes[k].mute = c.routes[k].mute
             /\ d.routes[n].mute = b
<1> DEFINE new == [c.routes EXCEPT ![n].mute = b]
           d == [c EXCEPT !.routes[n].mute = b]
<1>1. c.routes \in Seq(Route) /\ n \in 1..Len(c.routes) BY DEF Contents
<1>2. new \in Seq(Route) /\ Len(new) = Len(c.routes)
  <2>1. \A r \in Route : [r EXCEPT !.mute = b] \in Route BY DEF Route
  <2>2. c.routes[n] \in Route BY <1>1
  <2>3. [c.routes[n] EXCEPT !.mute = b] \in Route BY <2>1, <2>2
  <2> QED BY <1>1, <2>3
<1>3. /\ \A k \in 1..Len(c.routes) : /\ new[k].dst = c.routes[k].dst
                                     /\ k # n => new[k].mute = c.routes[k].mute
      /\ new[n].mute = b
  BY <1>1 DEF Route
<1>4. d = [c EXCEPT !.routes = new] BY DEF Contents
<1> HIDE DEF new, d
<1>5. d \in Contents /\ d.routes = new BY <1>2, <1>4 DEF Contents
<1> QED BY <1>2, <1>3, <1>5 DEF d

LEMMA EnabledContents ==
  ASSUME NEW c \in Contents, NEW n \in DOMAIN c.routes, NEW b \in BOOLEAN
  PROVE  [c EXCEPT !.routes[n].enable = b] \in Contents
<1> DEFINE new == [c.routes EXCEPT ![n].enable = b]
<1>1. c.routes \in Seq(Route) /\ n \in 1..Len(c.routes) BY DEF Contents
<1>2. new \in Seq(Route)
  <2>1. \A r \in Route : [r EXCEPT !.enable = b] \in Route BY DEF Route
  <2>2. c.routes[n] \in Route BY <1>1
  <2>3. [c.routes[n] EXCEPT !.enable = b] \in Route BY <2>1, <2>2
  <2> QED BY <1>1, <2>3
<1>3. [c EXCEPT !.routes[n].enable = b] = [c EXCEPT !.routes = new] BY DEF Contents
<1> HIDE DEF new
<1> QED BY <1>2, <1>3 DEF Contents

-----------------------------------------------------------------------------
RouterThreads == [routes: Seq(RunRoute), connections: Seq(RunConnection), table: Table]

\* The router was given the ids of the table it shares with the web interface.
RouterFits ==
  router # None =>
    /\ router \in RouterThreads
    /\ Len(router.table.items) = Len(table.items)
    /\ \A k \in 1..Len(router.routes) :
         /\ {router.routes[k].id.src, router.routes[k].id.dst} \subseteq Ids(table)
         /\ \E n \in 1..Len(ids) : ids[n] = router.routes[k].id
    /\ \A k \in 1..Len(router.connections) : router.connections[k].id \in Ids(table)

\* Reset clears the activity with the mark.
ActivityIsMarked == \A id \in Ids(table) : table.items[id].activity => table.dirty

\* The items of the destinations have the mutes of the configuration that was started.
MutesApplied ==
  applied =>
    /\ Len(ids) = Len(contents.routes)
    /\ \A k \in 1..Len(contents.routes) :
         HasDestination(contents.routes, k) /\ ids[k].dst # 0 =>
           /\ table.items[ids[k].dst].mute = contents.routes[k].mute
           /\ \A j \in 1..Len(contents.routes) : j # k => ids[j].dst # ids[k].dst

TablesFit ==
  /\ contents \in Contents /\ table \in Table /\ ids \in Seq(Id)
  /\ \A n \in 1..Len(ids) : {ids[n].src, ids[n].dst} \subseteq 0..Len(table.items)
  /\ seen \subseteq Ids(table) /\ busy \subseteq Ids(table)
  /\ applied \in BOOLEAN /\ cleared \in BOOLEAN
  /\ RouterFits

ControllerInv ==
  /\ TablesFit
  /\ ActivityIsMarked
  /\ MutesApplied
  /\ MutesReachRouter
  /\ StatesReachTable
  /\ NoActivityLost
  /\ ShownUnlessCleared

LEMMA StopKeepsTable ==
  ASSUME ControllerInv
  PROVE  /\ TableAfterStop \in Table /\ Ids(TableAfterStop) = Ids(table)
         /\ Len(TableAfterStop.items) = Len(table.items)
         /\ \A id \in Ids(table) : TableAfterStop.items[id].mute = table.items[id].mute
         /\ table.dirty => TableAfterStop.dirty
         /\ ~TableAfterStop.dirty => \A id \in Ids(table) : TableAfterStop.items[id] = table.items[id]
<1>1. table \in Table BY DEF ControllerInv, TablesFit
<1>2. CASE router = None BY <1>1, <1>2 DEF TableAfterStop
<1>3. CASE router # None
  <2> DEFINE d == Deactivate(router.table)
  <2>1. router.table \in Table /\ Len(router.table.items) = Len(table.items)
    BY <1>3 DEF ControllerInv, TablesFit, RouterFits, RouterThreads
  <2>2. d \in Table /\ Len(d.items) = Len(table.items) BY <2>1, DeactivatedTable
  <2>3. TableAfterStop = SyncUi(table, d) BY <1>3 DEF TableAfterStop
  <2> HIDE DEF d
  <2> QED BY <1>1, <2>2, <2>3, SyncedUi
<1> QED BY <1>2, <1>3

LEMMA StartKeeps ==
  ASSUME ControllerInv, NEW c \in Contents, contents' = c, StartWith(c)
  PROVE  ControllerInv'
<1>1. TableAfterStop \in Table BY StopKeepsTable
<1> DEFINE p == PrepareForRouting(c, TableAfterStop)
<1>2. /\ table' = p.table /\ ids' = p.ids
      /\ router' = IF p.routes = <<>> THEN None
                   ELSE [routes |-> p.routes, connections |-> p.connections, table |-> p.table]
      /\ seen' = {} /\ busy' = {} /\ cleared' = TRUE /\ applied' = TRUE
  BY DEF StartWith
<1>3. /\ p \in Fitting /\ Len(p.ids) = Len(c.routes)
      /\ \A k \in 1..Len(c.routes) :
           HasDestination(c.routes, k) /\ p.ids[k].dst # 0 =>
             /\ p.table.items[p.ids[k].dst].mute = c.routes[k].mute
             /\ \A j \in 1..Len(c.routes) : j # k => p.ids[j].dst # p.ids[k].dst
  BY <1>1, PreparedFacts
<1> HIDE DEF p
<1>4. /\ p.table \in Table /\ p.ids \in Seq(Id) /\ p.routes \in Seq(RunRoute)
      /\ p.connections \in Seq(RunConnection)
  BY <1>3, FittingFields
<1>5. IdsFit(p) BY <1>3 DEF Fitting
<1>6. router' # None => /\ router' \in RouterThreads /\ router'.routes = p.routes
                        /\ router'.connections = p.connections /\ router'.table = p.table
  BY <1>2, <1>4 DEF RouterThreads
<1>7. RouterFits' BY <1>2, <1>5, <1>6 DEF RouterFits, IdsFit, Ids
<1>8. TablesFit'
  <2>1. cleared' \in BOOLEAN /\ applied' \in BOOLEAN BY <1>2, Zenon
  <2>2. \A n \in 1..Len(ids') : {ids'[n].src, ids'[n].dst} \subseteq 0..Len(table'.items)
    BY <1>2, <1>5 DEF IdsFit
  <2> QED BY <1>2, <1>4, <1>7, <2>1, <2>2 DEF TablesFit
<1>9. ActivityIsMarked' BY <1>2, <1>5 DEF ActivityIsMarked, IdsFit, Ids
<1>10. MutesApplied' BY <1>2, <1>3 DEF MutesApplied
<1>11. MutesReachRouter' BY <1>2, <1>6 DEF MutesReachRouter
<1>12. StatesReachTable' BY <1>2, <1>6 DEF StatesReachTable
<1>13. NoActivityLost' BY <1>2 DEF NoActivityLost
<1>14. ShownUnlessCleared' BY <1>2 DEF ShownUnlessCleared
<1> QED BY <1>8, <1>9, <1>10, <1>11, <1>12, <1>13, <1>14 DEF ControllerInv

\* Whether a browser's snapshot is stale, by the states.
LEMMA StaleStates ==
  ASSUME TablesFit
  PROVE  Stale <=> /\ shown # None
                   /\ \E n \in DOMAIN shown \cup DOMAIN ids, e \in {"src", "dst"} :
                        StateIn(shown, n, e) # StateOf(table, ids, n, e)
<1>1. table \in Table /\ ids \in Seq(Id) BY DEF TablesFit
<1>2. ItemStates(table) = Snapshot(table, ids) BY DEF ItemStates, Snapshot
<1>3. \A n, e : e \in {"src", "dst"} =>
        StateIn(Snapshot(table, ids), n, e) = StateOf(table, ids, n, e)
  BY <1>1, SnapshotStates
<1> QED BY <1>2, <1>3 DEF Stale

\* What makes the snapshot stale, marks the table.
LEMMA ShownKept ==
  ASSUME TablesFit, TablesFit', ShownUnlessCleared, shown' = shown, ids' = ids, cleared' = cleared,
         Ids(table') = Ids(table), table.dirty => table'.dirty,
         ~table'.dirty => \A id \in Ids(table) : table'.items[id].state = table.items[id].state
  PROVE  ShownUnlessCleared'
<1>1. SUFFICES ASSUME Stale', ~table'.dirty, ~cleared' PROVE FALSE BY DEF ShownUnlessCleared
<1>2. table \in Table /\ table' \in Table BY DEF TablesFit
<1>3. \A n, e : StateOf(table', ids, n, e) = StateOf(table, ids, n, e)
  BY <1>1, <1>2, SameStatesSameSnapshot
<1>4. (Stale <=> /\ shown # None
                 /\ \E n \in DOMAIN shown \cup DOMAIN ids, e \in {"src", "dst"} :
                        StateIn(shown, n, e) # StateOf(table, ids, n, e))'
  BY StaleStates, PTL
<1>5. Stale BY <1>1, <1>3, <1>4, StaleStates
<1> QED BY <1>1, <1>5 DEF ShownUnlessCleared

LEMMA StopKeeps ==
  ASSUME ControllerInv, PostStop
  PROVE  ControllerInv'
<1>1. /\ table' \in Table /\ Ids(table') = Ids(table) /\ Len(table'.items) = Len(table.items)
      /\ \A id \in Ids(table) : table'.items[id].mute = table.items[id].mute
      /\ table.dirty => table'.dirty
      /\ ~table'.dirty => \A id \in Ids(table) : table'.items[id] = table.items[id]
  BY StopKeepsTable DEF PostStop
<1>2. /\ router' = None /\ contents' = contents /\ ids' = ids /\ seen' = seen /\ shown' = shown
      /\ busy' = busy /\ cleared' = cleared /\ applied' = applied
  BY DEF PostStop
<1>3. TablesFit' BY <1>1, <1>2 DEF ControllerInv, TablesFit, RouterFits
<1>4. ActivityIsMarked' BY <1>1, <1>2 DEF ControllerInv, ActivityIsMarked
<1>5. MutesApplied'
  <2>1. SUFFICES ASSUME applied,
                        NEW k \in 1..Len(contents.routes), HasDestination(contents.routes, k), ids[k].dst # 0
                 PROVE  table'.items[ids[k].dst].mute = table.items[ids[k].dst].mute
    BY <1>2 DEF ControllerInv, MutesApplied
  <2>2. ids[k].dst \in 0..Len(table.items)
    BY <2>1 DEF ControllerInv, MutesApplied, TablesFit
  <2>3. ids[k].dst \in Ids(table) BY <2>1, <2>2 DEF Ids
  <2> QED BY <1>1, <2>3
<1>6. MutesReachRouter' /\ StatesReachTable' /\ NoActivityLost'
  BY <1>2 DEF MutesReachRouter, StatesReachTable, NoActivityLost
<1>7. ShownUnlessCleared' BY <1>1, <1>2, <1>3, ShownKept DEF ControllerInv
<1> QED BY <1>3, <1>4, <1>5, <1>6, <1>7 DEF ControllerInv

LEMMA PutKeeps ==
  ASSUME ControllerInv, NEW c \in Configurations, PutConfig(c)
  PROVE  ControllerInv'
<1>1. c \in Contents BY ControllerAssumption
<1>2. /\ contents' = c /\ applied' = FALSE /\ table' = table /\ ids' = ids /\ seen' = seen
      /\ router' = router /\ shown' = shown /\ busy' = busy /\ cleared' = cleared
  BY DEF PutConfig
<1>3. TablesFit'
  <2>1. applied' \in BOOLEAN BY <1>2, Zenon
  <2> QED BY <1>1, <1>2, <2>1 DEF ControllerInv, TablesFit, RouterFits
<1>4. ActivityIsMarked' BY <1>2 DEF ControllerInv, ActivityIsMarked
<1>5. MutesApplied' BY <1>2 DEF MutesApplied
<1>6. MutesReachRouter' /\ StatesReachTable' /\ NoActivityLost'
  BY <1>2 DEF ControllerInv, MutesReachRouter, StatesReachTable, NoActivityLost
<1>7. ShownUnlessCleared' BY <1>2, <1>3, ShownKept DEF ControllerInv
<1> QED BY <1>3, <1>4, <1>5, <1>6, <1>7 DEF ControllerInv

LEMMA MuteKeeps ==
  ASSUME ControllerInv, NEW n \in DOMAIN contents.routes, NEW value \in BOOLEAN, PostMute(n, value)
  PROVE  ControllerInv'
<1>1. PICK id \in IF n \in DOMAIN ids THEN {ids[n].dst} ELSE 0..Len(table.items) :
        table' = Mute(table, id, value)
  BY DEF PostMute
<1>2. /\ ids' = ids /\ seen' = seen /\ router' = router /\ shown' = shown /\ busy' = busy
      /\ cleared' = cleared /\ applied' = applied
      /\ contents' = [contents EXCEPT !.routes[n].mute = value]
  BY DEF PostMute
<1>3. contents \in Contents /\ table \in Table /\ ids \in Seq(Id) BY DEF ControllerInv, TablesFit
<1>4. /\ contents' \in Contents /\ Len(contents'.routes) = Len(contents.routes)
      /\ \A k \in 1..Len(contents.routes) :
           /\ contents'.routes[k].dst = contents.routes[k].dst
           /\ k # n => contents'.routes[k].mute = contents.routes[k].mute
      /\ contents'.routes[n].mute = value
  BY <1>2, <1>3, MutedContents
<1>5. /\ table' \in Table /\ Ids(table') = Ids(table) /\ Len(table'.items) = Len(table.items)
      /\ table'.dirty = table.dirty
      /\ \A k \in Ids(table) : /\ table'.items[k].state = table.items[k].state
                               /\ table'.items[k].activity = table.items[k].activity
                               /\ k # id => table'.items[k].mute = table.items[k].mute
      /\ id \in Ids(table) => table'.items[id].mute = value
      /\ table'.muteDirty \/ table' = table
  BY <1>1, <1>3, MutedTable
<1>6. TablesFit'
  <2>1. RouterFits' BY <1>2, <1>5 DEF ControllerInv, TablesFit, RouterFits
  <2> QED BY <1>2, <1>4, <1>5, <2>1 DEF ControllerInv, TablesFit
<1>7. ActivityIsMarked' BY <1>5 DEF ControllerInv, ActivityIsMarked
<1>8. MutesApplied'
  <2>1. SUFFICES ASSUME applied, NEW k \in 1..Len(contents.routes), HasDestination(contents'.routes, k),
                        ids[k].dst # 0
                 PROVE  /\ table'.items[ids[k].dst].mute = contents'.routes[k].mute
                        /\ \A j \in 1..Len(contents.routes) : j # k => ids[j].dst # ids[k].dst
    <3>1. Len(contents'.routes) = Len(contents.routes) /\ ids' = ids /\ applied' = applied BY <1>2, <1>4
    <3> QED BY <3>1 DEF ControllerInv, MutesApplied
  <2>2. contents.routes \in Seq(Route) /\ contents'.routes \in Seq(Route) BY <1>3, <1>4 DEF Contents
  <2>3. HasDestination(contents.routes, k) BY <1>4, <2>1, <2>2 DEF HasDestination
  <2>4. /\ table.items[ids[k].dst].mute = contents.routes[k].mute
        /\ \A j \in 1..Len(contents.routes) : j # k => ids[j].dst # ids[k].dst
        /\ Len(ids) = Len(contents.routes)
    BY <2>1, <2>3 DEF ControllerInv, MutesApplied
  <2>5. ids[k].dst \in Ids(table)
    <3>1. k \in 1..Len(ids) BY <2>4
    <3>2. ids[k].dst \in 0..Len(table.items) BY <3>1 DEF ControllerInv, TablesFit
    <3> QED BY <2>1, <3>2 DEF Ids
  <2>6. n \in DOMAIN ids /\ n \in 1..Len(contents.routes) BY <1>3, <2>2, <2>4
  <2>7. id = ids[n].dst BY <1>1, <2>6
  <2>8. CASE k = n BY <1>4, <1>5, <2>4, <2>5, <2>7, <2>8
  <2>9. CASE k # n
    <3>1. ids[k].dst # id BY <2>4, <2>6, <2>7, <2>9
    <3> QED BY <1>4, <1>5, <2>4, <2>5, <2>9, <3>1
  <2> QED BY <2>8, <2>9
<1>9. MutesReachRouter' BY <1>2, <1>5 DEF ControllerInv, MutesReachRouter
<1>10. StatesReachTable'
  <2>1. DOMAIN table'.items = Ids(table) /\ DOMAIN table.items = Ids(table) BY <1>3, <1>5, TableFields
  <2> QED BY <1>2, <1>5, <2>1 DEF ControllerInv, StatesReachTable
<1>11. NoActivityLost' BY <1>2 DEF ControllerInv, NoActivityLost
<1>12. ShownUnlessCleared' BY <1>2, <1>5, <1>6, ShownKept DEF ControllerInv
<1> QED BY <1>6, <1>7, <1>8, <1>9, <1>10, <1>11, <1>12 DEF ControllerInv

LEMMA MuteAllKeeps ==
  ASSUME ControllerInv, NEW directions \in SUBSET Directions, PostMuteAll(directions)
  PROVE  ControllerInv'
<1>1. contents \in Contents /\ table \in Table BY DEF ControllerInv, TablesFit
<1>2. /\ ids' = ids /\ seen' = seen /\ router' = router /\ shown' = shown /\ busy' = busy
      /\ cleared' = cleared /\ applied' = applied
      /\ contents' = [contents EXCEPT !.muteAll = directions]
      /\ table' = [table EXCEPT !.muteAll = directions]
  BY DEF PostMuteAll
<1>3. contents' \in Contents /\ contents'.routes = contents.routes BY <1>1, <1>2 DEF Contents
<1>4. /\ table' \in Table /\ table'.items = table.items /\ table'.dirty = table.dirty
      /\ table'.muteDirty = table.muteDirty
  BY <1>1, <1>2, TableWithMutes
<1>5. Ids(table') = Ids(table) BY <1>4 DEF Ids
<1>6. TablesFit'
  <2>1. RouterFits' BY <1>2, <1>4, <1>5 DEF ControllerInv, TablesFit, RouterFits
  <2> QED BY <1>2, <1>3, <1>4, <1>5, <2>1 DEF ControllerInv, TablesFit
<1>7. ActivityIsMarked' BY <1>4, <1>5 DEF ControllerInv, ActivityIsMarked
<1>8. MutesApplied' BY <1>2, <1>3, <1>4 DEF ControllerInv, MutesApplied
<1>9. MutesReachRouter' /\ StatesReachTable' /\ NoActivityLost'
  BY <1>2, <1>4 DEF ControllerInv, MutesReachRouter, StatesReachTable, NoActivityLost
<1>10. ShownUnlessCleared' BY <1>2, <1>4, <1>5, <1>6, ShownKept DEF ControllerInv
<1> QED BY <1>6, <1>7, <1>8, <1>9, <1>10 DEF ControllerInv

LEMMA BrowserKeeps ==
  ASSUME ControllerInv, Connect \/ Disconnect
  PROVE  ControllerInv'
<1>1. /\ contents' = contents /\ table' = table /\ ids' = ids /\ seen' = seen /\ router' = router
      /\ busy' = busy /\ applied' = applied
      /\ \/ shown' = ItemStates(table) /\ cleared' = FALSE
         \/ shown' = None /\ cleared' = cleared
  BY DEF Connect, Disconnect
<1>2. TablesFit'
  <2>1. cleared' \in BOOLEAN BY <1>1, Zenon DEF ControllerInv, TablesFit
  <2> QED BY <1>1, <2>1 DEF ControllerInv, TablesFit, RouterFits
<1>3. ActivityIsMarked' /\ MutesApplied' BY <1>1 DEF ControllerInv, ActivityIsMarked, MutesApplied
<1>4. MutesReachRouter' /\ StatesReachTable' /\ NoActivityLost'
  BY <1>1 DEF ControllerInv, MutesReachRouter, StatesReachTable, NoActivityLost
<1>5. ShownUnlessCleared'
  <2>1. ItemStates(table)' = ItemStates(table) BY <1>1 DEF ItemStates
  <2>2. ~Stale' BY <1>1, <2>1 DEF Stale
  <2> QED BY <2>2 DEF ShownUnlessCleared
<1> QED BY <1>2, <1>3, <1>4, <1>5 DEF ControllerInv

LEMMA TickKeeps ==
  ASSUME ControllerInv, Tick
  PROVE  ControllerInv'
<1> DEFINE synced == IF router = None THEN table ELSE SyncUi(table, router.table)
<1>1. /\ router' = IF router = None THEN None
                   ELSE [router EXCEPT !.table = SyncRouter(table, router.table)]
      /\ table' = IF synced.dirty THEN Reset(synced) ELSE synced
      /\ seen' = IF synced.dirty THEN seen \cup Stamped(synced) ELSE seen
      /\ shown' = IF synced.dirty /\ shown # None THEN ItemStates(synced) ELSE shown
      /\ cleared' = (cleared /\ ~synced.dirty)
      /\ contents' = contents /\ ids' = ids /\ busy' = busy /\ applied' = applied
  BY DEF Tick
<1>2. table \in Table /\ ids \in Seq(Id) BY DEF ControllerInv, TablesFit
<1>3. router # None => /\ router \in RouterThreads /\ router.table \in Table
                       /\ Len(table.items) = Len(router.table.items)
  BY DEF ControllerInv, TablesFit, RouterFits, RouterThreads
\* The web interface's table, before it is reset.
<1>4. /\ synced \in Table /\ Ids(synced) = Ids(table) /\ Len(synced.items) = Len(table.items)
      /\ router # None => synced.muteDirty = FALSE
      /\ \A id \in Ids(table) : synced.items[id].mute = table.items[id].mute
      /\ router # None /\ router.table.dirty =>
           \A id \in Ids(table) : /\ synced.items[id].state = router.table.items[id].state
                                  /\ synced.items[id].activity = router.table.items[id].activity
      /\ router # None /\ ~router.table.dirty =>
           \A id \in Ids(table) : synced.items[id] = table.items[id]
      /\ table.dirty => synced.dirty
      /\ ~synced.dirty => \A id \in Ids(table) : synced.items[id] = table.items[id]
  <2>1. CASE router = None
    <3>1. synced = table BY <2>1
    <3> HIDE DEF synced
    <3> QED BY <1>2, <2>1, <3>1
  <2>2. CASE router # None
    <3>1. synced = SyncUi(table, router.table) BY <2>2
    <3> HIDE DEF synced
    <3> QED BY <1>2, <1>3, <2>2, <3>1, SyncedUi
  <2> QED BY <2>1, <2>2
<1> HIDE DEF synced
<1>5. /\ table' \in Table /\ Ids(table') = Ids(table) /\ Len(table'.items) = Len(table.items)
      /\ table'.dirty = FALSE
      /\ \A id \in Ids(table) : /\ table'.items[id].mute = table.items[id].mute
                                /\ table'.items[id].state = synced.items[id].state
                                /\ table'.items[id].activity = FALSE
  <2>1. CASE synced.dirty
    <3>1. table' = Reset(synced) BY <1>1, <2>1
    <3>2. /\ Reset(synced) \in Table /\ Ids(Reset(synced)) = Ids(synced)
          /\ Len(Reset(synced).items) = Len(synced.items) /\ Reset(synced).dirty = FALSE
          /\ \A id \in Ids(synced) : /\ Reset(synced).items[id].mute = synced.items[id].mute
                                     /\ Reset(synced).items[id].state = synced.items[id].state
                                     /\ Reset(synced).items[id].activity = FALSE
      BY <1>4, ResetTable
    <3> QED BY <1>4, <3>1, <3>2
  <2>2. CASE ~synced.dirty
    <3>1. table' = synced BY <1>1, <2>2
    <3>2. synced.dirty \in BOOLEAN /\ \A id \in Ids(table) : table.items[id] \in Item
      BY <1>2, <1>4, TableFields
    <3>3. \A id \in Ids(table) : table.items[id].activity = FALSE
      <4>1. \A id \in Ids(table) : ~table.items[id].activity /\ table.items[id].activity \in BOOLEAN
        BY <1>4, <2>2, <3>2 DEF ControllerInv, ActivityIsMarked, Item
      <4> QED BY <4>1
    <3>4. synced.dirty = FALSE BY <2>2, <3>2
    <3> QED BY <1>4, <2>2, <3>1, <3>3, <3>4
  <2> QED BY <2>1, <2>2
\* The router's table.
<1>6. router' # None =>
        /\ router # None /\ router' \in RouterThreads /\ router'.routes = router.routes
        /\ router'.connections = router.connections
        /\ Len(router'.table.items) = Len(table.items)
        /\ router'.table.dirty = FALSE
        /\ \A id \in Ids(table) :
             /\ router'.table.items[id].state = router.table.items[id].state
             /\ router'.table.items[id].mute
                  = IF table.muteDirty THEN table.items[id].mute ELSE router.table.items[id].mute
  <2>1. SUFFICES ASSUME router # None
                 PROVE  LET r == [router EXCEPT !.table = SyncRouter(table, router.table)]
                        IN  /\ r \in RouterThreads /\ r.routes = router.routes
                            /\ r.connections = router.connections
                            /\ Len(r.table.items) = Len(table.items)
                            /\ r.table.dirty = FALSE
                            /\ \A id \in Ids(table) :
                                 /\ r.table.items[id].state = router.table.items[id].state
                                 /\ r.table.items[id].mute
                                      = IF table.muteDirty THEN table.items[id].mute
                                        ELSE router.table.items[id].mute
    BY <1>1
  <2> DEFINE s == SyncRouter(table, router.table)
             r == [router EXCEPT !.table = s]
  <2>2. /\ s \in Table /\ Len(s.items) = Len(table.items) /\ s.dirty = FALSE
        /\ \A id \in Ids(table) :
             /\ s.items[id].state = router.table.items[id].state
             /\ s.items[id].mute = IF table.muteDirty THEN table.items[id].mute
                                   ELSE router.table.items[id].mute
    BY <1>2, <1>3, <2>1, SyncedRouter
  <2> HIDE DEF s
  <2>3. /\ r \in RouterThreads /\ r.routes = router.routes /\ r.connections = router.connections
        /\ r.table = s
    BY <1>3, <2>1, <2>2 DEF RouterThreads
  <2> HIDE DEF r
  <2> QED BY <2>2, <2>3 DEF r, s
<1>7. seen \subseteq seen' /\ seen' \subseteq Ids(table)
  <2>1. Stamped(synced) \subseteq Ids(table) BY <1>4, TableFields DEF Stamped
  <2> QED BY <1>1, <2>1 DEF ControllerInv, TablesFit
<1>8. TablesFit'
  <2>1. RouterFits' BY <1>1, <1>5, <1>6 DEF ControllerInv, TablesFit, RouterFits
  <2>2. cleared' \in BOOLEAN BY <1>1
  <2> QED BY <1>1, <1>5, <1>7, <2>1, <2>2 DEF ControllerInv, TablesFit
<1>9. ActivityIsMarked' BY <1>5 DEF ActivityIsMarked
<1>10. MutesApplied'
  <2>1. SUFFICES ASSUME applied,
                        NEW k \in 1..Len(contents.routes), HasDestination(contents.routes, k), ids[k].dst # 0
                 PROVE  table'.items[ids[k].dst].mute = table.items[ids[k].dst].mute
    BY <1>1 DEF ControllerInv, MutesApplied
  <2>2. ids[k].dst \in 0..Len(table.items)
    BY <2>1 DEF ControllerInv, MutesApplied, TablesFit
  <2>3. ids[k].dst \in Ids(table) BY <2>1, <2>2 DEF Ids
  <2> QED BY <1>5, <2>3
<1>11. DOMAIN table.items = Ids(table) /\ DOMAIN table'.items = Ids(table) /\ DOMAIN synced.items = Ids(table)
  BY <1>2, <1>4, <1>5, TableFields
<1>12. MutesReachRouter'
  <2>1. SUFFICES ASSUME router' # None, NEW id \in Ids(table)
                 PROVE  router'.table.items[id].mute = table'.items[id].mute
    BY <1>11 DEF MutesReachRouter
  <2>2. CASE table.muteDirty BY <1>5, <1>6, <2>1, <2>2
  <2>3. CASE ~table.muteDirty
    <3>1. router.table.items[id].mute = table.items[id].mute
      BY <1>6, <1>11, <2>1, <2>3 DEF ControllerInv, MutesReachRouter
    <3> QED BY <1>5, <1>6, <2>1, <2>3, <3>1
  <2> QED BY <2>2, <2>3
<1>13. StatesReachTable'
  <2>1. SUFFICES ASSUME router' # None, NEW id \in Ids(table)
                 PROVE  router'.table.items[id].state = table'.items[id].state
    BY <1>11 DEF StatesReachTable
  <2>2. router'.table.items[id].state = router.table.items[id].state /\ router # None BY <1>6, <2>1
  <2>3. CASE router.table.dirty BY <1>4, <1>5, <2>2, <2>3
  <2>4. CASE ~router.table.dirty
    <3>1. router.table.items[id].state = table.items[id].state
      BY <1>11, <2>2, <2>4 DEF ControllerInv, StatesReachTable
    <3> QED BY <1>4, <1>5, <2>2, <2>4, <3>1
  <2> QED BY <2>3, <2>4
<1>14. NoActivityLost'
  <2>1. SUFFICES ASSUME router' # None, NEW r \in Range(router.routes), NEW id \in {r.id.src, r.id.dst} \cap busy,
                        id \notin seen
                 PROVE  id \in seen'
    BY <1>1, <1>6, <1>7 DEF NoActivityLost
  <2>2. router # None BY <1>6, <2>1
  <2>3. router.table.items[id].activity /\ router.table.dirty
    BY <2>1, <2>2 DEF ControllerInv, NoActivityLost
  <2>4. id \in Ids(table) BY <2>1 DEF ControllerInv, TablesFit
  <2>5. synced.items[id].activity BY <1>4, <2>2, <2>3, <2>4
  <2>6. synced.dirty
    <3>1. SUFFICES ASSUME ~synced.dirty PROVE FALSE OBVIOUS
    <3>2. ~table.dirty BY <1>4, <3>1
    <3>3. table.items[id].activity BY <1>4, <2>4, <2>5, <3>1
    <3> QED BY <2>4, <3>2, <3>3 DEF ControllerInv, ActivityIsMarked
  <2>7. PICK k \in 1..Len(router.routes) : r = router.routes[k]
    <3>1. router.routes \in Seq(RunRoute) BY <1>3, <2>2 DEF RouterThreads
    <3> QED BY <2>1, <3>1 DEF Range
  <2>8. PICK n \in 1..Len(ids) : ids[n] = r.id
    BY <2>2, <2>7 DEF ControllerInv, TablesFit, RouterFits
  <2>9. n \in DOMAIN ids BY <1>2
  <2>10. id \in Stamped(synced) BY <1>11, <2>1, <2>4, <2>5, <2>8, <2>9 DEF Stamped
  <2> QED BY <1>1, <2>6, <2>10
<1>15. ShownUnlessCleared'
  <2>1. \A n, e : StateOf(table', ids, n, e) = StateOf(synced, ids, n, e)
    BY <1>4, <1>5, SameStatesSameSnapshot
  <2>2. (Stale <=> /\ shown # None
                   /\ \E n \in DOMAIN shown \cup DOMAIN ids, e \in {"src", "dst"} :
                          StateIn(shown, n, e) # StateOf(table, ids, n, e))'
    BY <1>8, StaleStates, PTL
  <2>3. CASE synced.dirty
    <3>1. ItemStates(synced) = Snapshot(synced, ids) BY DEF ItemStates, Snapshot
    <3>2. \A n, e : e \in {"src", "dst"} => StateIn(ItemStates(synced), n, e) = StateOf(synced, ids, n, e)
      BY <1>2, <1>4, <3>1, SnapshotStates
    <3>3. shown' = None \/ shown' = ItemStates(synced) BY <1>1, <2>3
    <3>4. ~Stale' BY <1>1, <2>1, <2>2, <3>2, <3>3
    <3> QED BY <3>4 DEF ShownUnlessCleared
  <2>4. CASE ~synced.dirty
    <3>1. shown' = shown /\ cleared' = cleared /\ ids' = ids
      <4>1. cleared \in BOOLEAN BY DEF ControllerInv, TablesFit
      <4> QED BY <1>1, <2>4, <4>1
    <3>2. \A id \in Ids(table) : table'.items[id].state = table.items[id].state BY <1>4, <1>5, <2>4
    <3>3. ~table.dirty BY <1>4, <2>4
    <3> QED BY <1>5, <1>8, <3>1, <3>2, <3>3, ShownKept DEF ControllerInv
  <2> QED BY <2>3, <2>4
<1> QED BY <1>8, <1>9, <1>10, <1>12, <1>13, <1>14, <1>15 DEF ControllerInv

\* The endpoints have items.
LEMMA EndpointsFit ==
  ASSUME TablesFit, router # None
  PROVE  Endpoints \subseteq Ids(table)
<1>1. /\ router.routes \in Seq(RunRoute) /\ router.connections \in Seq(RunConnection)
      /\ \A k \in 1..Len(router.routes) :
           {router.routes[k].id.src, router.routes[k].id.dst} \subseteq Ids(table)
      /\ \A k \in 1..Len(router.connections) : router.connections[k].id \in Ids(table)
  BY DEF TablesFit, RouterFits, RouterThreads
<1>2. \A r \in Range(router.routes) : {r.id.src, r.id.dst} \subseteq Ids(table) BY <1>1 DEF Range
<1>3. \A c \in Range(router.connections) : c.id \in Ids(table) BY <1>1 DEF Range
<1> DEFINE Ends == UNION {{r.id.src, r.id.dst} : r \in {q \in Range(router.routes) : q.enable}}
           Connected == {c.id : c \in Range(router.connections)}
<1>4. Ends \subseteq Ids(table) BY <1>2
<1>5. Connected \subseteq Ids(table) BY <1>3
<1>6. Endpoints = Ends \cup Connected BY DEF Endpoints
<1> HIDE DEF Ends, Connected
<1> QED BY <1>4, <1>5, <1>6

\* What the router reports of an item, with its activity or with another state.
LEMMA ReportKeeps ==
  ASSUME ControllerInv, router # None, NEW id \in Ids(table), NEW item \in Item,
         router' = [router EXCEPT !.table = Update(router.table, id, item)],
         item.activity # router.table.items[id].activity \/ item.state # router.table.items[id].state,
         router.table.items[id].activity => item.activity,
         busy' = busy \/ (busy' = busy \cup {id} /\ item.activity),
         UNCHANGED <<contents, table, ids, seen, shown, cleared, applied>>
  PROVE  ControllerInv'
<1> DEFINE t == router.table
           u == Update(router.table, id, item)
<1>1. /\ router \in RouterThreads /\ t \in Table /\ Len(t.items) = Len(table.items) /\ table \in Table
  BY DEF ControllerInv, TablesFit, RouterFits, RouterThreads
<1>2. Ids(t) = Ids(table) BY <1>1 DEF Ids
<1>3. /\ u \in Table /\ Ids(u) = Ids(t) /\ Len(u.items) = Len(t.items)
      /\ \A k \in Ids(t) : u.items[k].mute = t.items[k].mute
      /\ u.items[id].state = item.state /\ u.items[id].activity = item.activity
      /\ \A k \in Ids(t) : k # id => u.items[k] = t.items[k]
      /\ t.dirty => u.dirty
      /\ ~u.dirty => \A k \in Ids(t) : u.items[k] = t.items[k]
  <2> HIDE DEF t
  <2> QED BY <1>1, <1>2, UpdatedItem DEF t
<1> HIDE DEF u
<1>4. /\ router' \in RouterThreads /\ router'.routes = router.routes
      /\ router'.connections = router.connections /\ router'.table = u
  BY <1>1, <1>3 DEF RouterThreads, u
<1> HIDE DEF t
<1>5. u.dirty BY <1>2, <1>3 DEF t
<1>6. busy' \subseteq Ids(table) BY DEF ControllerInv, TablesFit
<1>7. TablesFit'
  <2>1. RouterFits' BY <1>1, <1>3, <1>4 DEF ControllerInv, TablesFit, RouterFits
  <2> QED BY <1>6, <2>1 DEF ControllerInv, TablesFit
<1>8. ActivityIsMarked' /\ MutesApplied' BY DEF ControllerInv, ActivityIsMarked, MutesApplied
<1>9. DOMAIN table.items = Ids(table) BY <1>1, TableFields
<1>10. MutesReachRouter'
  <2>1. \A k \in Ids(table) : u.items[k].mute = t.items[k].mute BY <1>2, <1>3
  <2> QED BY <1>4, <1>9, <2>1 DEF ControllerInv, MutesReachRouter, t
<1>11. StatesReachTable' BY <1>4, <1>5 DEF StatesReachTable
<1>12. NoActivityLost'
  <2>1. SUFFICES ASSUME NEW r \in Range(router.routes), NEW k \in {r.id.src, r.id.dst} \cap busy', k \notin seen
                 PROVE  u.items[k].activity /\ u.dirty
    BY <1>4 DEF NoActivityLost
  <2>2. k \in Ids(table) BY <1>6, <2>1
  <2>3. CASE k \in busy
    <3>1. t.items[k].activity BY <2>1, <2>3 DEF ControllerInv, NoActivityLost, t
    <3>2. CASE k = id BY <1>3, <1>5, <3>1, <3>2 DEF t
    <3>3. CASE k # id BY <1>2, <1>3, <1>5, <2>2, <3>1, <3>3
    <3> QED BY <3>2, <3>3
  <2>4. CASE k \notin busy BY <1>3, <1>5, <2>1, <2>4
  <2> QED BY <2>3, <2>4
<1>13. ShownUnlessCleared' BY <1>7, ShownKept DEF ControllerInv
<1> QED BY <1>7, <1>8, <1>10, <1>11, <1>12, <1>13 DEF ControllerInv

LEMMA RouterKeeps ==
  ASSUME ControllerInv, RouterStep
  PROVE  ControllerInv'
<1>1. router # None BY DEF RouterStep
<1>2. PICK id \in Endpoints : SetItemActivity(id) \/ \E state \in States \ {Uninitialized} : SetItemState(id, state)
  BY DEF RouterStep
<1>3. id \in Ids(table) BY <1>1, EndpointsFit DEF ControllerInv
<1> DEFINE i == router.table.items[id]
<1>4. i \in Item
  <2>1. router.table \in Table /\ Len(router.table.items) = Len(table.items)
    BY <1>1 DEF ControllerInv, TablesFit, RouterFits, RouterThreads
  <2>2. id \in Ids(router.table) BY <1>3, <2>1 DEF Ids
  <2> QED BY <2>1, <2>2, TableFields
<1>5. CASE SetItemActivity(id)
  <2> DEFINE new == [i EXCEPT !.activity = TRUE]
  <2>1. new \in Item /\ new.activity = TRUE
    <3>1. \A b \in BOOLEAN : [i EXCEPT !.activity = b] \in Item /\ [i EXCEPT !.activity = b].activity = b
      BY <1>4 DEF Item
    <3>2. TRUE \in BOOLEAN OBVIOUS
    <3> QED BY <3>1, <3>2, Zenon
  <2>2. router' = [router EXCEPT !.table = Update(router.table, id, new)] BY <1>5 DEF SetItemActivity
  <2> HIDE DEF new
  <2>3. /\ ~i.activity /\ busy' = busy \cup {id}
        /\ UNCHANGED <<contents, table, ids, seen, shown, cleared, applied>>
    BY <1>5 DEF SetItemActivity
  <2>4. new.activity # i.activity
    <3>1. new.activity BY <2>1
    <3> QED BY <2>3, <3>1
  <2> QED BY <1>1, <1>3, <2>1, <2>2, <2>3, <2>4, ReportKeeps
<1>6. ASSUME NEW state \in States \ {Uninitialized}, SetItemState(id, state) PROVE ControllerInv'
  <2> DEFINE new == [i EXCEPT !.state = state]
  <2>1. new \in Item /\ new.state = state /\ new.activity = i.activity BY <1>4 DEF Item
  <2>2. router' = [router EXCEPT !.table = Update(router.table, id, new)] BY <1>6 DEF SetItemState
  <2> HIDE DEF new
  <2>3. /\ i.state # state /\ busy' = busy
        /\ UNCHANGED <<contents, table, ids, seen, shown, cleared, applied>>
    BY <1>6 DEF SetItemState
  <2>4. new.state # i.state BY <2>1, <2>3
  <2>5. i.activity => new.activity BY <2>1
  <2> QED BY <1>1, <1>3, <2>1, <2>2, <2>3, <2>4, <2>5, ReportKeeps
<1> QED BY <1>2, <1>5, <1>6

LEMMA InitFits == Init => ControllerInv
<1> SUFFICES ASSUME Init PROVE ControllerInv OBVIOUS
<1>1. /\ contents \in Contents /\ table = EmptyTable /\ ids = <<>> /\ seen = {} /\ router = None
      /\ shown = None /\ busy = {}
  BY ControllerAssumption DEF Init
<1>2. cleared = FALSE /\ applied = FALSE BY DEF Init
<1>3. EmptyTable \in Table /\ EmptyTable.items = <<>>
  <2>1. \A b \in BOOLEAN : [items |-> <<>>, muteAll |-> {}, dirty |-> b, muteDirty |-> b] \in Table
    BY DEF Table
  <2>2. FALSE \in BOOLEAN OBVIOUS
  <2>3. EmptyTable \in Table BY <2>1, <2>2, Zenon DEF EmptyTable
  <2> QED BY <2>3 DEF EmptyTable
<1>4. TablesFit
  <2>1. cleared \in BOOLEAN /\ applied \in BOOLEAN BY <1>2, Zenon
  <2>2. RouterFits BY <1>1 DEF RouterFits
  <2> QED BY <1>1, <1>3, <2>1, <2>2 DEF TablesFit
<1>5. ActivityIsMarked BY <1>1, <1>3 DEF ActivityIsMarked, Ids
<1>6. MutesApplied BY <1>2 DEF MutesApplied
<1>7. MutesReachRouter /\ StatesReachTable /\ NoActivityLost
  BY <1>1 DEF MutesReachRouter, StatesReachTable, NoActivityLost
<1>8. ShownUnlessCleared BY <1>1 DEF ShownUnlessCleared, Stale
<1> QED BY <1>4, <1>5, <1>6, <1>7, <1>8 DEF ControllerInv

LEMMA StepKeeps == ControllerInv /\ [Next]_vars => ControllerInv'
<1> SUFFICES ASSUME ControllerInv, [Next]_vars PROVE ControllerInv' OBVIOUS
<1>1. contents \in Contents BY DEF ControllerInv, TablesFit
<1>2. CASE PostStart BY <1>1, <1>2, StartKeeps DEF PostStart
<1>3. CASE PostStop BY <1>3, StopKeeps
<1>4. CASE UNCHANGED vars
  <2>1. /\ contents' = contents /\ table' = table /\ ids' = ids /\ seen' = seen /\ router' = router
        /\ shown' = shown /\ busy' = busy /\ cleared' = cleared /\ applied' = applied
    BY <1>4 DEF vars
  <2>2. TablesFit' BY <2>1 DEF ControllerInv, TablesFit, RouterFits
  <2>3. ActivityIsMarked' /\ MutesApplied' BY <2>1 DEF ControllerInv, ActivityIsMarked, MutesApplied
  <2>4. MutesReachRouter' /\ StatesReachTable' /\ NoActivityLost'
    BY <2>1 DEF ControllerInv, MutesReachRouter, StatesReachTable, NoActivityLost
  <2>5. ShownUnlessCleared' BY <2>1, <2>2, ShownKept DEF ControllerInv
  <2> QED BY <2>2, <2>3, <2>4, <2>5 DEF ControllerInv
<1>5. CASE PostApply BY <1>2, <1>4, <1>5 DEF PostApply
<1>6. ASSUME NEW c \in Configurations, PutConfig(c) PROVE ControllerInv' BY <1>6, PutKeeps
<1>7. ASSUME NEW n \in DOMAIN contents.routes, NEW value \in BOOLEAN, PostMute(n, value) \/ PostEnable(n, value)
      PROVE  ControllerInv'
  <2>1. CASE PostMute(n, value) BY <2>1, MuteKeeps
  <2>2. CASE PostEnable(n, value)
    <3>1. contents' \in Contents BY <1>1, <2>2, EnabledContents DEF PostEnable
    <3>2. StartWith(contents') BY <2>2 DEF PostEnable
    <3> QED BY <3>1, <3>2, StartKeeps
  <2> QED BY <1>7, <2>1, <2>2
<1>8. ASSUME NEW directions \in SUBSET Directions, PostMuteAll(directions) PROVE ControllerInv'
  BY <1>8, MuteAllKeeps
<1>9. CASE Connect \/ Disconnect BY <1>9, BrowserKeeps
<1>10. CASE Tick BY <1>10, TickKeeps
<1>11. CASE RouterStep BY <1>11, RouterKeeps
<1> QED BY <1>2, <1>3, <1>4, <1>5, <1>6, <1>7, <1>8, <1>9, <1>10, <1>11 DEF Next, Request

LEMMA ControllerInvHolds == Spec => []ControllerInv
BY InitFits, StepKeeps, PTL DEF Spec

\* RouterController: whatever is asked of it, and whenever the router thread exchanges its
\* table with it, the ids it has given to routes and connections are those of its table.
THEOREM ControllerTypes == Spec => []TypeOK
<1>1. ControllerInv => TypeOK
  <2> SUFFICES ASSUME ControllerInv PROVE TypeOK OBVIOUS
  <2>1. /\ contents \in Contents /\ table \in Table /\ ids \in Seq(Id)
        /\ \A n \in 1..Len(ids) : {ids[n].src, ids[n].dst} \subseteq 0..Len(table.items)
        /\ seen \subseteq Ids(table) /\ busy \subseteq Ids(table)
        /\ applied \in BOOLEAN /\ cleared \in BOOLEAN
    BY DEF ControllerInv, TablesFit
  <2>2. router = None \/ (router.table \in Table /\ Len(router.table.items) = Len(table.items))
    BY DEF ControllerInv, TablesFit, RouterFits, RouterThreads
  <2>3. DOMAIN table.items = Ids(table) BY <2>1, TableFields
  <2>4. \A n \in DOMAIN ids : {ids[n].src, ids[n].dst} \subseteq 0..Len(table.items) BY <2>1
  <2>5. seen \cup busy \subseteq DOMAIN table.items BY <2>1, <2>3
  <2>6. ids \in Seq([src: Nat, dst: Nat]) BY <2>1 DEF Id
  <2> QED BY <2>1, <2>2, <2>4, <2>5, <2>6 DEF TypeOK
<1> QED BY <1>1, ControllerInvHolds, PTL

\* RouterController::PrepareForRouting, SetRouteMute and ItemStateTable::Sync and Reset: once no
\* mute is waiting to be passed on, the router's table has the mutes of the controller's, and
\* among them, for every route with a destination of its own, the one of the configuration;
\* for any configuration, and also after it has been replaced or started again.
THEOREM MutesReachTheRouter == Spec => []MutesTakeEffect
<1>1. ControllerInv => MutesTakeEffect
  <2> SUFFICES ASSUME ControllerInv PROVE MutedIsSilent BY DEF MutesTakeEffect, ControllerInv
  <2>1. SUFFICES ASSUME router # None, applied, ~table.muteDirty,
                        NEW n \in DOMAIN contents.routes, HasDestination(contents.routes, n), ids[n].dst # 0
                 PROVE  router.table.items[ids[n].dst].mute = contents.routes[n].mute
    BY DEF MutedIsSilent
  <2>2. /\ contents.routes \in Seq(Route) /\ table \in Table
    BY DEF ControllerInv, TablesFit, Contents
  <2>3. n \in 1..Len(contents.routes) /\ n \in 1..Len(ids)
    BY <2>1, <2>2 DEF ControllerInv, MutesApplied
  <2>4. table.items[ids[n].dst].mute = contents.routes[n].mute
    BY <2>1, <2>3 DEF ControllerInv, MutesApplied
  <2>5. ids[n].dst \in Ids(table)
    <3>1. ids[n].dst \in 0..Len(table.items) BY <2>3 DEF ControllerInv, TablesFit
    <3> QED BY <2>1, <3>1 DEF Ids
  <2>6. DOMAIN table.items = Ids(table) BY <2>2, TableFields
  <2> QED BY <2>1, <2>4, <2>5, <2>6 DEF ControllerInv, MutesReachRouter
<1> QED BY <1>1, ControllerInvHolds, PTL

\* ItemStateTable::Sync and Reset, and the snapshots of RouterController for HttpServer: a state
\* that the router thread has set, or an activity at an end of a route, is in the controller's
\* table or still to be passed on, and the browser was sent the states of that table unless
\* they are about to be sent, or a start has cleared them.
THEOREM StatesReachTheBrowsers == Spec => []StatesAreShown
<1>1. ControllerInv => StatesAreShown BY DEF ControllerInv, StatesAreShown
<1> QED BY <1>1, ControllerInvHolds, PTL

-----------------------------------------------------------------------------
(* The desktop application: its rows, and the ids that they take.          *)

Row == [in: InAddrs \cup {NoAddr}, out: OutAddrs, mute: BOOLEAN, outId: Nat]
Content == Seq([in: InAddrs \cup {NoAddr}, out: OutAddrs, mute: BOOLEAN])
Ends == {"in", "out"}

\* Two tables of the same addresses.
SameRows(rs, qs) == DOMAIN rs = DOMAIN qs /\ \A i \in DOMAIN rs : rs[i].in = qs[i].in /\ rs[i].out = qs[i].out

\* How many of a set of row numbers are not behind one of them.
Rank(T, i) == Cardinality({j \in T : j <= i})

LEMMA RanksGrow ==
  ASSUME NEW n \in Nat, NEW T, T \subseteq 1..n
  PROVE  /\ IsFiniteSet(T) /\ Cardinality(T) \in Nat
         /\ \A i \in T : Rank(T, i) \in 1..Cardinality(T)
         /\ \A i, j \in T : i < j => Rank(T, i) < Rank(T, j)
<1>1. IsFiniteSet(1..n) BY FS_Interval
<1>2. IsFiniteSet(T) /\ Cardinality(T) \in Nat BY <1>1, FS_Subset, FS_CardinalityType
<1>3. ASSUME NEW U, U \subseteq T PROVE IsFiniteSet(U) /\ Cardinality(U) \in Nat /\ Cardinality(U) <= Cardinality(T)
  BY <1>2, <1>3, FS_Subset, FS_CardinalityType
<1>4. \A i \in T : Rank(T, i) \in 1..Cardinality(T)
  <2> SUFFICES ASSUME NEW i \in T PROVE Rank(T, i) \in 1..Cardinality(T) OBVIOUS
  <2> DEFINE U == {j \in T : j <= i}
  <2>1. U \subseteq T /\ i \in U OBVIOUS
  <2>2. Cardinality(U) # 0 BY <1>3, <2>1, FS_EmptySet
  <2>3. Cardinality(U) \in Nat /\ Cardinality(U) <= Cardinality(T) BY <1>3, <2>1
  <2> QED BY <1>2, <2>2, <2>3 DEF Rank
<1>5. \A i, j \in T : i < j => Rank(T, i) < Rank(T, j)
  <2> SUFFICES ASSUME NEW i \in T, NEW j \in T, i < j PROVE Rank(T, i) < Rank(T, j) OBVIOUS
  <2> DEFINE U == {k \in T : k <= i}
             V == {k \in T : k <= j}
  <2>0. i \in Int /\ j \in Int /\ \A k \in T : k \in Int OBVIOUS
  <2>6. ASSUME NEW k \in U PROVE k \in V \ {j}
    <3>1. k \in T /\ k <= i /\ k \in Int BY <2>0, <2>6
    <3>2. k <= j /\ k # j BY <2>0, <3>1
    <3> QED BY <3>1, <3>2
  <2>7. j <= j BY <2>0
  <2>1. U \subseteq V \ {j} /\ j \in V /\ V \subseteq T /\ U \subseteq T BY <2>6, <2>7
  <2>2. IsFiniteSet(V) /\ Cardinality(V) \in Nat /\ Cardinality(U) \in Nat BY <1>3, <2>1
  <2>3. IsFiniteSet(V \ {j}) /\ Cardinality(V \ {j}) = Cardinality(V) - 1 BY <2>1, <2>2, FS_RemoveElement
  <2>4. Cardinality(U) <= Cardinality(V \ {j}) BY <2>1, <2>3, FS_Subset
  <2> HIDE DEF U, V
  <2>5. Cardinality(U) < Cardinality(V) BY <2>2, <2>3, <2>4
  <2> QED BY <2>5 DEF U, V, Rank
<1> QED BY <1>2, <1>4, <1>5

\* Every rank is one row's.
LEMMA RanksReached ==
  ASSUME NEW n \in Nat, NEW T, T \subseteq 1..n
  PROVE  \A k \in 1..Cardinality(T) : \E i \in T : Rank(T, i) = k
<1> DEFINE m == Cardinality(T)
           f == [i \in T |-> Rank(T, i)]
<1>1. /\ IsFiniteSet(T) /\ m \in Nat /\ \A i \in T : Rank(T, i) \in 1..m
      /\ \A i, j \in T : i < j => Rank(T, i) < Rank(T, j)
  BY RanksGrow
<1>2. f \in [T -> 1..m] BY <1>1
<1>3. \A i, j \in T : f[i] = f[j] => i = j
  <2> SUFFICES ASSUME NEW i \in T, NEW j \in T, i # j PROVE Rank(T, i) # Rank(T, j) OBVIOUS
  <2>1. Rank(T, i) \in Int /\ Rank(T, j) \in Int BY <1>1
  <2>2. i < j \/ j < i OBVIOUS
  <2> QED BY <1>1, <2>1, <2>2
<1>4. f \in Injection(T, 1..m) BY <1>2, <1>3 DEF Injection, IsInjective
<1>5. IsFiniteSet(1..m) /\ Cardinality(1..m) = m
  <2>1. 1 \in Int /\ m \in Int BY <1>1
  <2>2. \A a, b \in Int : IsFiniteSet(a..b) /\ Cardinality(a..b) = IF a > b THEN 0 ELSE b - a + 1 BY FS_Interval
  <2>3. IsFiniteSet(1..m) /\ Cardinality(1..m) = IF 1 > m THEN 0 ELSE m - 1 + 1 BY <2>1, <2>2
  <2>4. \A k \in Nat : (IF 1 > k THEN 0 ELSE k - 1 + 1) = k OBVIOUS
  <2> QED BY <1>1, <2>3, <2>4
<1>6. f \in Surjection(T, 1..m) BY <1>4, <1>5, FS_Injection
<1>7. \A k \in 1..m : \E i \in T : f[i] = k BY <1>6 DEF Surjection
<1> QED BY <1>7

LEMMA KeptSome ==
  ASSUME NEW R, NEW rs \in Seq(R)
  PROVE  /\ KeptRows(rs) \subseteq 1..Len(rs) /\ Len(rs) \in Nat /\ DOMAIN rs = 1..Len(rs)
         /\ IsFiniteSet(KeptRows(rs)) /\ Cardinality(KeptRows(rs)) \in Nat
<1>1. KeptRows(rs) \subseteq 1..Len(rs) /\ Len(rs) \in Nat /\ DOMAIN rs = 1..Len(rs) BY DEF KeptRows
<1> QED BY <1>1, RanksGrow

\* The rows that are saved are different kept ones.
LEMMA NthKeptIs ==
  ASSUME NEW R, NEW rs \in Seq(R)
  PROVE  /\ \A k \in 1..Cardinality(KeptRows(rs)) : NthKept(rs, k) \in KeptRows(rs)
         /\ \A j, k \in 1..Cardinality(KeptRows(rs)) : NthKept(rs, j) = NthKept(rs, k) => j = k
<1> DEFINE T == KeptRows(rs)
<1>1. T \subseteq 1..Len(rs) /\ Len(rs) \in Nat BY KeptSome
<1>2. \A k \in 1..Cardinality(T) : \E i \in T : Rank(T, i) = k BY <1>1, RanksReached
<1>3. \A k : NthKept(rs, k) = CHOOSE i \in T : Rank(T, i) = k BY DEF NthKept, Rank
<1> HIDE DEF T
<1>4. \A k \in 1..Cardinality(T) : NthKept(rs, k) \in T /\ Rank(T, NthKept(rs, k)) = k BY <1>2, <1>3
<1>5. \A j, k \in 1..Cardinality(T) : NthKept(rs, j) = NthKept(rs, k) => j = k BY <1>4
<1> QED BY <1>4, <1>5 DEF T

LEMMA SavedIs ==
  ASSUME NEW rs \in Seq(Row)
  PROVE  /\ Saved(rs) \in Content /\ Len(Saved(rs)) = Cardinality(KeptRows(rs))
         /\ \A k \in 1..Len(Saved(rs)) :
              Saved(rs)[k] = [in |-> rs[NthKept(rs, k)].in, out |-> rs[NthKept(rs, k)].out, mute |-> rs[NthKept(rs, k)].mute]
<1> DEFINE n == Cardinality(KeptRows(rs))
           E == [in: InAddrs \cup {NoAddr}, out: OutAddrs, mute: BOOLEAN]
           Of(k) == [in |-> rs[NthKept(rs, k)].in, out |-> rs[NthKept(rs, k)].out, mute |-> rs[NthKept(rs, k)].mute]
<1>1. n \in Nat /\ KeptRows(rs) \subseteq 1..Len(rs) BY KeptSome
<1>2. \A k \in 1..n : NthKept(rs, k) \in 1..Len(rs) BY <1>1, NthKeptIs
<1>3. \A i \in 1..Len(rs) : rs[i] \in Row OBVIOUS
<1>4. \A k \in 1..n : Of(k) \in E BY <1>2, <1>3 DEF Row
<1>5. Saved(rs) = [k \in 1..n |-> Of(k)] BY DEF Saved
<1> HIDE DEF n, Of, E
<1>6. Saved(rs) \in Seq(E) /\ Len(Saved(rs)) = n /\ \A k \in 1..n : Saved(rs)[k] = Of(k)
  <2>1. [k \in 1..n |-> Of(k)] \in [1..n -> E] BY <1>4
  <2>2. \A s \in [1..n -> E] : s \in Seq(E) /\ Len(s) = n BY <1>1
  <2> QED BY <1>5, <2>1, <2>2
<1> QED BY <1>6 DEF n, Of, E, Content

LEMMA LoadedIs ==
  ASSUME NEW c \in Content
  PROVE  /\ Loaded(c) \in Seq(Row) /\ Len(Loaded(c)) = Len(c)
         /\ \A k \in 1..Len(c) : Loaded(c)[k] = [in |-> c[k].in, out |-> c[k].out, mute |-> c[k].mute, outId |-> 0]
<1> DEFINE n == Len(c)
           Of(k) == [in |-> c[k].in, out |-> c[k].out, mute |-> c[k].mute, outId |-> 0]
<1>1. n \in Nat /\ DOMAIN c = 1..n BY DEF Content
<1>2. \A k \in 1..n : Of(k) \in Row
  <2> DEFINE E == [in: InAddrs \cup {NoAddr}, out: OutAddrs, mute: BOOLEAN]
  <2>3. c \in Seq(E) BY DEF Content
  <2>4. \A s \in Seq(E) : \A k \in 1..Len(s) : s[k] \in E
    <3> HIDE DEF E
    <3> QED OBVIOUS
  <2>1. \A k \in 1..n : c[k] \in E BY <2>3, <2>4
  <2>2. \A e \in E : [in |-> e.in, out |-> e.out, mute |-> e.mute, outId |-> 0] \in Row BY DEF Row
  <2> HIDE DEF E, n
  <2> QED BY <2>1, <2>2
<1>3. Loaded(c) = [k \in 1..n |-> Of(k)] BY <1>1 DEF Loaded
<1> HIDE DEF n, Of
<1>4. [k \in 1..n |-> Of(k)] \in [1..n -> Row] BY <1>2
<1>5. \A s \in [1..n -> Row] : s \in Seq(Row) /\ Len(s) = n BY <1>1
<1> QED BY <1>3, <1>4, <1>5 DEF n, Of

\* Rows with a valid port each and no address twice.
AllKept(rs) == KeptRows(rs) = DOMAIN rs

\* What is saved and loaded again is kept whole.
LEMMA SavedAllKept ==
  ASSUME NEW rs \in Seq(Row)
  PROVE  Loaded(Saved(rs)) \in Seq(Row) /\ AllKept(Loaded(Saved(rs)))
<1> DEFINE n == Len(Saved(rs))
           qs == Loaded(Saved(rs))
<1>1. Saved(rs) \in Content /\ n = Cardinality(KeptRows(rs)) /\ n \in Nat BY SavedIs, KeptSome
<1>2. qs \in Seq(Row) /\ Len(qs) = n /\ DOMAIN qs = 1..n BY <1>1, LoadedIs
<1>3. \A k \in 1..n : qs[k].in = rs[NthKept(rs, k)].in /\ qs[k].out = rs[NthKept(rs, k)].out
  <2>1. \A k \in 1..n : qs[k] = [in |-> Saved(rs)[k].in, out |-> Saved(rs)[k].out, mute |-> Saved(rs)[k].mute, outId |-> 0]
    BY <1>1, LoadedIs
  <2>2. \A k \in 1..n :
          Saved(rs)[k] = [in |-> rs[NthKept(rs, k)].in, out |-> rs[NthKept(rs, k)].out, mute |-> rs[NthKept(rs, k)].mute]
    BY SavedIs
  <2> HIDE DEF qs, n
  <2> SUFFICES ASSUME NEW k \in 1..n PROVE qs[k].in = rs[NthKept(rs, k)].in /\ qs[k].out = rs[NthKept(rs, k)].out
    OBVIOUS
  <2> DEFINE s == Saved(rs)[k]
             r == rs[NthKept(rs, k)]
  <2>3. qs[k] = [in |-> s.in, out |-> s.out, mute |-> s.mute, outId |-> 0] BY <2>1
  <2>4. s = [in |-> r.in, out |-> r.out, mute |-> r.mute] BY <2>2
  <2> HIDE DEF s, r
  <2>5. s.in = r.in /\ s.out = r.out BY <2>4
  <2>6. qs[k].in = r.in /\ qs[k].out = r.out BY <2>3, <2>5
  <2> QED BY <2>6 DEF r
<1>4. \A k \in 1..n : NthKept(rs, k) \in KeptRows(rs) BY <1>1, NthKeptIs
<1>5. \A j, k \in 1..n : NthKept(rs, j) = NthKept(rs, k) => j = k BY <1>1, NthKeptIs
<1>6. KeptRows(rs) \subseteq 1..Len(rs) BY KeptSome
<1>7. \A i, j \in KeptRows(rs) : i < j => ~(rs[i].in = rs[j].in /\ rs[i].out = rs[j].out)
  BY <1>6 DEF KeptRows
<1> HIDE DEF qs, n
<1>8. \A j, k \in 1..n : j # k => ~(qs[j].in = qs[k].in /\ qs[j].out = qs[k].out)
  <2> SUFFICES ASSUME NEW j \in 1..n, NEW k \in 1..n, j # k
               PROVE  ~(qs[j].in = qs[k].in /\ qs[j].out = qs[k].out)
    OBVIOUS
  <2> DEFINE a == NthKept(rs, j)
             b == NthKept(rs, k)
  <2>1. a \in KeptRows(rs) /\ b \in KeptRows(rs) /\ a # b BY <1>4, <1>5
  <2>2. a < b \/ b < a BY <1>6, <2>1
  <2>3. ~(rs[a].in = rs[b].in /\ rs[a].out = rs[b].out) BY <1>7, <2>1, <2>2
  <2> QED BY <1>3, <2>3
<1>9. \A k \in 1..n : Valid(qs[k])
  <2>1. \A i \in KeptRows(rs) : Valid(rs[i]) BY DEF KeptRows
  <2> QED BY <1>3, <1>4, <2>1 DEF Valid
<1>10. \A k \in 1..n : \A j \in 1..(k - 1) : j \in 1..n /\ j # k BY <1>1
<1>11. KeptRows(qs) = 1..n BY <1>2, <1>8, <1>9, <1>10 DEF KeptRows
<1> QED BY <1>2, <1>11 DEF AllKept, qs

\* Rows of the same addresses keep the same ones, and give them the same ids.
LEMMA SameRowsSameIds ==
  ASSUME NEW rs \in Seq(Row), NEW qs \in Seq(Row), SameRows(rs, qs)
  PROVE  /\ KeptRows(qs) = KeptRows(rs)
         /\ \A i \in KeptRows(rs), side \in Ends : IdOf(qs, i, side) = IdOf(rs, i, side)
<1> DEFINE n == Len(rs)
<1>1. n \in Nat /\ DOMAIN rs = 1..n /\ DOMAIN qs = 1..n /\ \A i \in 1..n : rs[i].in = qs[i].in /\ rs[i].out = qs[i].out
  BY DEF SameRows
<1>2. \A i \in 1..n : \A j \in 1..(i - 1) : j \in 1..n BY <1>1
<1> HIDE DEF n
<1>3. KeptRows(qs) = KeptRows(rs)
  <2>1. \A i \in 1..n : Valid(rs[i]) <=> Valid(qs[i]) BY <1>1 DEF Valid
  <2>2. \A i \in 1..n : (\E j \in 1..(i - 1) : rs[j].in = rs[i].in /\ rs[j].out = rs[i].out)
                    <=> (\E j \in 1..(i - 1) : qs[j].in = qs[i].in /\ qs[j].out = qs[i].out)
    <3> SUFFICES ASSUME NEW i \in 1..n
                 PROVE  (\E j \in 1..(i - 1) : rs[j].in = rs[i].in /\ rs[j].out = rs[i].out)
                    <=> (\E j \in 1..(i - 1) : qs[j].in = qs[i].in /\ qs[j].out = qs[i].out)
      OBVIOUS
    <3>1. \A j \in 1..(i - 1) : rs[j].in = qs[j].in /\ rs[j].out = qs[j].out BY <1>1, <1>2
    <3>2. rs[i].in = qs[i].in /\ rs[i].out = qs[i].out BY <1>1
    <3> QED BY <3>1, <3>2
  <2>3. KeptRows(rs) = {i \in 1..n : Valid(rs[i]) /\ ~\E j \in 1..(i - 1) : rs[j].in = rs[i].in /\ rs[j].out = rs[i].out}
    BY <1>1 DEF KeptRows
  <2>4. KeptRows(qs) = {i \in 1..n : Valid(qs[i]) /\ ~\E j \in 1..(i - 1) : qs[j].in = qs[i].in /\ qs[j].out = qs[i].out}
    BY <1>1 DEF KeptRows
  <2> QED BY <2>1, <2>2, <2>3, <2>4
<1>4. KeptRows(rs) \subseteq 1..n BY <1>1 DEF KeptRows
<1>5. \A i \in KeptRows(rs), side \in Ends : EndOf(qs[i], side) = EndOf(rs[i], side) BY <1>1, <1>4 DEF EndOf
<1>6. \A side \in Ends : FirstOf(qs, side) = FirstOf(rs, side) /\ FirstOf(rs, side) \subseteq KeptRows(rs)
  BY <1>3, <1>5 DEF FirstOf
<1>7. ASSUME NEW i \in KeptRows(rs), NEW side \in Ends PROVE IdOf(qs, i, side) = IdOf(rs, i, side)
  <2> DEFINE IsFirst(j) == EndOf(rs[j], side) = EndOf(rs[i], side)
             WasFirst(j) == EndOf(qs[j], side) = EndOf(qs[i], side)
  <2>1. \A j \in FirstOf(rs, side) : WasFirst(j) <=> IsFirst(j) BY <1>5, <1>6
  <2>2. (CHOOSE j \in FirstOf(rs, side) : WasFirst(j)) = (CHOOSE j \in FirstOf(rs, side) : IsFirst(j))
    <3> HIDE DEF WasFirst, IsFirst
    <3>1. \A j : (j \in FirstOf(rs, side) /\ WasFirst(j)) <=> (j \in FirstOf(rs, side) /\ IsFirst(j)) BY <2>1
    <3> QED BY <3>1
  <2>3. FirstOf(qs, "in") = FirstOf(rs, "in") /\ FirstOf(qs, "out") = FirstOf(rs, "out")
        /\ FirstOf(qs, side) = FirstOf(rs, side)
    BY <1>6 DEF Ends
  <2> QED BY <2>2, <2>3 DEF IdOf
<1> QED BY <1>3, <1>7

\* The first row of an address is the one that it stands for.
LEMMA FirstIs ==
  ASSUME NEW rs \in Seq(Row), NEW side \in Ends, NEW i \in KeptRows(rs)
  PROVE  LET first == CHOOSE j \in FirstOf(rs, side) : EndOf(rs[j], side) = EndOf(rs[i], side)
         IN first \in FirstOf(rs, side) /\ EndOf(rs[first], side) = EndOf(rs[i], side)
<1> DEFINE Same == {j \in KeptRows(rs) : EndOf(rs[j], side) = EndOf(rs[i], side)}
           n == Len(rs)
<1>1. n \in Nat /\ KeptRows(rs) \subseteq 1..n BY KeptSome
<1>2. Same \subseteq 0..n /\ Same # {} /\ \A j \in Same : j \in Int BY <1>1
<1>3. PICK j \in Same : \A k \in Same : j <= k
  <2> HIDE DEF Same, n
  <2> QED BY <1>1, <1>2, LeastNumber
<1>4. \A k \in KeptRows(rs) : k < j => EndOf(rs[k], side) # EndOf(rs[j], side)
  <2> SUFFICES ASSUME NEW k \in KeptRows(rs), k < j, EndOf(rs[k], side) = EndOf(rs[j], side) PROVE FALSE
    OBVIOUS
  <2>1. k \in Same BY <1>3
  <2>2. j <= k /\ j \in Int /\ k \in Int BY <1>2, <1>3, <2>1
  <2> QED BY <2>2
<1>5. j \in FirstOf(rs, side) /\ EndOf(rs[j], side) = EndOf(rs[i], side) BY <1>3, <1>4 DEF FirstOf
<1> QED BY <1>5

\* How many ids come before that of a destination whose first row is this one.
Before(rs, first, side) ==
  Cardinality({j \in FirstOf(rs, "in") : j < first \/ (j = first /\ side = "out")})
    + Cardinality({j \in FirstOf(rs, "out") : j < first})

\* Ids are numbers up to a bound, and a destination has one of its own.
LEMMA IdsAreBounded ==
  ASSUME NEW rs \in Seq(Row)
  PROVE  \E top \in Nat : \A i, side : IdOf(rs, i, side) \in 1..top
<1> DEFINE n == Cardinality(KeptRows(rs))
<1>1. IsFiniteSet(KeptRows(rs)) /\ n \in Nat BY KeptSome
<1>2. \A U : U \subseteq KeptRows(rs) => Cardinality(U) \in Nat /\ Cardinality(U) <= n
  BY <1>1, FS_Subset, FS_CardinalityType
<1>3. ASSUME NEW first, NEW side PROVE Before(rs, first, side) + 1 \in 1..(n + n + 1)
  <2> DEFINE A == {j \in FirstOf(rs, "in") : j < first \/ (j = first /\ side = "out")}
             B == {j \in FirstOf(rs, "out") : j < first}
  <2>1. A \subseteq KeptRows(rs) /\ B \subseteq KeptRows(rs) BY DEF FirstOf
  <2>2. Cardinality(A) \in Nat /\ Cardinality(A) <= n BY <1>2, <2>1
  <2>3. Cardinality(B) \in Nat /\ Cardinality(B) <= n BY <1>2, <2>1
  <2>4. \A a, b, c \in Nat : a <= c /\ b <= c => a + b + 1 \in 1..(c + c + 1) OBVIOUS
  <2>5. Cardinality(A) + Cardinality(B) + 1 \in 1..(n + n + 1)
    <3> HIDE DEF A, B, n
    <3> QED BY <1>1, <2>2, <2>3, <2>4
  <2> QED BY <2>5 DEF Before
<1>4. \A i, side : IdOf(rs, i, side) \in 1..(n + n + 1)
  <2> TAKE i, side
  <2> DEFINE first == CHOOSE j \in FirstOf(rs, side) : EndOf(rs[j], side) = EndOf(rs[i], side)
  <2>1. IdOf(rs, i, side) = Before(rs, first, side) + 1 BY DEF IdOf, Before
  <2> HIDE DEF first
  <2> QED BY <1>3, <2>1
<1> QED BY <1>1, <1>4

LEMMA IdsTellDestinations ==
  ASSUME NEW rs \in Seq(Row), NEW i \in KeptRows(rs), NEW j \in KeptRows(rs), IdOf(rs, i, "out") = IdOf(rs, j, "out")
  PROVE  rs[i].out = rs[j].out
<1> DEFINE FirstLike(k) == CHOOSE f \in FirstOf(rs, "out") : EndOf(rs[f], "out") = EndOf(rs[k], "out")
           n == Len(rs)
<1>1. ASSUME NEW k \in KeptRows(rs) PROVE /\ FirstLike(k) \in FirstOf(rs, "out")
                                          /\ EndOf(rs[FirstLike(k)], "out") = EndOf(rs[k], "out")
                                          /\ IdOf(rs, k, "out") = Before(rs, FirstLike(k), "out") + 1
  <2>1. "out" \in Ends BY DEF Ends
  <2>2. FirstLike(k) \in FirstOf(rs, "out") /\ EndOf(rs[FirstLike(k)], "out") = EndOf(rs[k], "out")
    BY <2>1, FirstIs
  <2>3. IdOf(rs, k, "out") = Before(rs, FirstLike(k), "out") + 1 BY DEF IdOf, Before
  <2> QED BY <2>2, <2>3
<1> HIDE DEF FirstLike
<1>2. n \in Nat /\ KeptRows(rs) \subseteq 1..n BY KeptSome
<1>3. FirstOf(rs, "in") \subseteq 1..n /\ FirstOf(rs, "out") \subseteq 1..n BY <1>2 DEF FirstOf
<1> HIDE DEF n
<1>4. IsFiniteSet(1..n) BY <1>2, FS_Interval
<1>5. \A U : U \subseteq 1..n => IsFiniteSet(U) /\ Cardinality(U) \in Nat BY <1>4, FS_Subset, FS_CardinalityType
<1>6. ASSUME NEW a \in FirstOf(rs, "out"), NEW b \in FirstOf(rs, "out"), a < b
      PROVE  Before(rs, a, "out") + 1 < Before(rs, b, "out") + 1
  <2> DEFINE A == {k \in FirstOf(rs, "in") : k < a \/ (k = a /\ "out" = "out")}
             B == {k \in FirstOf(rs, "out") : k < a}
             C == {k \in FirstOf(rs, "in") : k < b \/ (k = b /\ "out" = "out")}
             D == {k \in FirstOf(rs, "out") : k < b}
  <2>1. a \in 1..n /\ b \in 1..n /\ a \in Int /\ b \in Int BY <1>3
  <2>2. \A k \in 1..n : (k < a => k < b /\ k # a) /\ (k = a => k < b) BY <2>1, <1>6
  <2>3. A \subseteq C BY <1>3, <2>2
  <2>4. B \subseteq D \ {a} /\ a \in D BY <1>3, <1>6, <2>2
  <2>5. A \subseteq 1..n /\ B \subseteq 1..n /\ C \subseteq 1..n /\ D \subseteq 1..n /\ D \ {a} \subseteq 1..n BY <1>3
  <2> HIDE DEF A, B, C, D
  <2>6. /\ IsFiniteSet(C) /\ Cardinality(A) \in Nat /\ Cardinality(C) \in Nat
        /\ IsFiniteSet(D) /\ Cardinality(B) \in Nat /\ Cardinality(D) \in Nat
        /\ IsFiniteSet(D \ {a}) /\ Cardinality(D \ {a}) \in Nat
    BY <1>5, <2>5
  <2>7. Cardinality(A) <= Cardinality(C) BY <2>3, <2>6, FS_Subset
  <2>8. Cardinality(B) <= Cardinality(D \ {a}) BY <2>4, <2>6, FS_Subset
  <2>9. Cardinality(D \ {a}) = Cardinality(D) - 1 BY <2>4, <2>6, FS_RemoveElement
  <2>10. \A p, q, r, s, t \in Nat : p <= r /\ q <= t /\ t = s - 1 => p + q + 1 < r + s + 1 OBVIOUS
  <2>11. Cardinality(A) + Cardinality(B) + 1 < Cardinality(C) + Cardinality(D) + 1
    BY <2>6, <2>7, <2>8, <2>9, <2>10
  <2>12. Before(rs, a, "out") = Cardinality(A) + Cardinality(B) BY DEF Before, A, B
  <2>13. Before(rs, b, "out") = Cardinality(C) + Cardinality(D) BY DEF Before, C, D
  <2> QED BY <2>11, <2>12, <2>13
<1>7. FirstLike(i) = FirstLike(j)
  <2> DEFINE a == FirstLike(i)
             b == FirstLike(j)
  <2>1. a \in FirstOf(rs, "out") /\ b \in FirstOf(rs, "out") BY <1>1
  <2>2. Before(rs, a, "out") + 1 = Before(rs, b, "out") + 1 BY <1>1
  <2>3. a \in Int /\ b \in Int BY <1>3, <2>1
  <2>4. \E top \in Nat : Before(rs, a, "out") + 1 \in 1..top /\ Before(rs, b, "out") + 1 \in 1..top
    BY <1>1, IdsAreBounded
  <2> HIDE DEF a, b
  <2>5. ~(a < b) BY <1>6, <2>1, <2>2, <2>4
  <2>6. ~(b < a) BY <1>6, <2>1, <2>2, <2>4
  <2>7. a = b BY <2>3, <2>5, <2>6
  <2> QED BY <2>7 DEF a, b
<1>8. EndOf(rs[i], "out") = EndOf(rs[j], "out") BY <1>1, <1>7
<1> QED BY <1>8 DEF EndOf

\* A row has the id that it would be given.
IdsTaken(rs) == \A i \in KeptRows(rs) : rs[i].outId = IdOf(rs, i, "out")

\* The id of each row is that of its destination in what was started.
StartedAs(rs, running) == \A i \in DOMAIN rs : rs[i].outId \in DOMAIN running /\ running[rs[i].outId] = rs[i].out

LEMMA RegisteredIs ==
  ASSUME NEW rs \in Seq(Row)
  PROVE  /\ Registered(rs) \in Seq(Row) /\ SameRows(rs, Registered(rs))
         /\ KeptRows(Registered(rs)) = KeptRows(rs) /\ IdsTaken(Registered(rs))
         /\ \A i \in KeptRows(rs) : Registered(rs)[i].outId = IdOf(rs, i, "out")
<1> DEFINE n == Len(rs)
           Of(i) == IF i \in KeptRows(rs) THEN [rs[i] EXCEPT !.outId = IdOf(rs, i, "out")] ELSE rs[i]
           qs == Registered(rs)
<1>1. n \in Nat /\ DOMAIN rs = 1..n /\ KeptRows(rs) \subseteq 1..n BY KeptSome
<1>2. PICK top \in Nat : \A i, side : IdOf(rs, i, side) \in 1..top BY IdsAreBounded
<1>3. qs = [i \in 1..n |-> Of(i)] BY <1>1 DEF Registered
<1>4. \A i \in 1..n : rs[i] \in Row BY <1>1
<1>5. ASSUME NEW i \in 1..n PROVE /\ Of(i) \in Row /\ Of(i).in = rs[i].in /\ Of(i).out = rs[i].out
                                  /\ i \in KeptRows(rs) => Of(i).outId = IdOf(rs, i, "out")
  <2> DEFINE r == rs[i]
             id == IdOf(rs, i, "out")
  <2>1. r \in Row /\ id \in Nat BY <1>2, <1>4
  <2>2. Of(i) = (IF i \in KeptRows(rs) THEN [r EXCEPT !.outId = id] ELSE r) OBVIOUS
  <2> HIDE DEF r, id, Of
  <2>3. [r EXCEPT !.outId = id] \in Row /\ [r EXCEPT !.outId = id].in = r.in
        /\ [r EXCEPT !.outId = id].out = r.out /\ [r EXCEPT !.outId = id].outId = id
    BY <2>1 DEF Row
  <2>4. Of(i) \in Row /\ Of(i).in = r.in /\ Of(i).out = r.out /\ (i \in KeptRows(rs) => Of(i).outId = id)
    BY <2>1, <2>2, <2>3
  <2> QED BY <2>4 DEF r, id
<1> HIDE DEF n, Of, qs
<1>6. qs \in Seq(Row) /\ DOMAIN qs = 1..n
  <2>1. [i \in 1..n |-> Of(i)] \in [1..n -> Row] BY <1>5
  <2>2. \A s \in [1..n -> Row] : s \in Seq(Row) /\ DOMAIN s = 1..n BY <1>1
  <2> QED BY <1>3, <2>1, <2>2
<1>7. SameRows(rs, qs) BY <1>1, <1>3, <1>5, <1>6 DEF SameRows
<1>8. \A i \in KeptRows(rs) : qs[i].outId = IdOf(rs, i, "out") BY <1>1, <1>3, <1>5
<1>9. KeptRows(qs) = KeptRows(rs) /\ \A i \in KeptRows(rs) : IdOf(qs, i, "out") = IdOf(rs, i, "out")
  <2>1. "out" \in Ends BY DEF Ends
  <2>2. /\ KeptRows(qs) = KeptRows(rs)
        /\ \A i \in KeptRows(rs), side \in Ends : IdOf(qs, i, side) = IdOf(rs, i, side)
    BY <1>6, <1>7, SameRowsSameIds
  <2> QED BY <2>1, <2>2
<1>10. IdsTaken(qs) BY <1>8, <1>9 DEF IdsTaken
<1> QED BY <1>6, <1>7, <1>8, <1>9, <1>10 DEF qs

\* Saving rows that were started, whatever their mutes are by now, keeps their ids.
LEMMA RegisteredAsStarted ==
  ASSUME NEW rs \in Seq(Row), NEW qs \in Seq(Row), SameRows(rs, qs), AllKept(rs), IdsTaken(rs)
  PROVE  /\ Registered(qs) \in Seq(Row) /\ AllKept(Registered(qs)) /\ IdsTaken(Registered(qs))
         /\ \A running : StartedAs(rs, running) => StartedAs(Registered(qs), running)
<1> DEFINE new == Registered(qs)
<1>1. /\ new \in Seq(Row) /\ SameRows(qs, new) /\ KeptRows(new) = KeptRows(qs) /\ IdsTaken(new)
      /\ \A i \in KeptRows(qs) : new[i].outId = IdOf(qs, i, "out")
  BY RegisteredIs
<1>2. /\ KeptRows(qs) = KeptRows(rs)
      /\ \A i \in KeptRows(rs), side \in Ends : IdOf(qs, i, side) = IdOf(rs, i, side)
  BY SameRowsSameIds
<1>3. DOMAIN new = DOMAIN rs /\ DOMAIN rs = KeptRows(rs) /\ \A i \in DOMAIN rs : new[i].out = rs[i].out
  BY <1>1 DEF SameRows, AllKept
<1>4. AllKept(new) BY <1>1, <1>2, <1>3 DEF AllKept
<1>5. \A i \in DOMAIN rs : new[i].outId = rs[i].outId
  <2>1. "out" \in Ends BY DEF Ends
  <2> QED BY <1>1, <1>2, <1>3, <2>1 DEF IdsTaken
<1> HIDE DEF new
<1>6. \A running : StartedAs(rs, running) => StartedAs(new, running) BY <1>3, <1>5 DEF StartedAs
<1> QED BY <1>1, <1>4, <1>6 DEF new

-----------------------------------------------------------------------------
(* What BuildRoutes starts.                                                *)

LEMMA GreatestIs ==
  ASSUME NEW top \in Nat, NEW S, S \subseteq 0..top, S # {}
  PROVE  Max(S) \in S /\ \A y \in S : y <= Max(S)
<1> DEFINE T == {top - x : x \in S}
<1>1. T \subseteq 0..top /\ T # {}
  <2>1. \A x \in 0..top : top - x \in 0..top OBVIOUS
  <2> QED BY <2>1
<1>2. PICK t \in T : \A m \in T : t <= m BY <1>1, LeastNumber
<1>3. PICK x \in S : t = top - x BY <1>2
<1>4. \A y \in S : x >= y
  <2> TAKE y \in S
  <2>1. top - x <= top - y BY <1>2, <1>3
  <2>2. x \in Int /\ y \in Int OBVIOUS
  <2> QED BY <2>1, <2>2
<1>5. Max(S) \in S /\ \A y \in S : Max(S) >= y BY <1>4 DEF Max
<1>6. \A y \in S : y \in Int OBVIOUS
<1> QED BY <1>5, <1>6

LEMMA LeastIs ==
  ASSUME NEW top \in Nat, NEW S, S \subseteq 0..top, S # {}
  PROVE  Min(S) \in S
<1>1. \E x \in S : \A y \in S : x <= y BY LeastNumber
<1> QED BY <1>1 DEF Min

LastId(rs) ==
  IF KeptRows(rs) = {} THEN 0 ELSE Max({IdOf(rs, i, side) : i \in KeptRows(rs), side \in {"in", "out"}})
RowsWith(rs, id) == {i \in KeptRows(rs) : Registered(rs)[i].outId = id}
Started(rs) ==
  [id \in 1..LastId(rs) |-> IF RowsWith(rs, id) # {} THEN rs[Min(RowsWith(rs, id))].out ELSE NoAddr]

LEMMA BuiltAsShown ==
  ASSUME NEW rs \in Seq(Row)
  PROVE  /\ Range(Started(rs)) \subseteq OutAddrs \cup {NoAddr}
         /\ AllKept(rs) => StartedAs(Registered(rs), Started(rs))
<1> DEFINE n == Len(rs)
<1>1. n \in Nat /\ DOMAIN rs = 1..n /\ KeptRows(rs) \subseteq 1..n BY KeptSome
<1>2. \A i \in 1..n : rs[i].out \in OutAddrs
  <2>1. \A i \in 1..n : rs[i] \in Row BY <1>1
  <2> QED BY <2>1 DEF Row
<1> HIDE DEF n
<1>3. ASSUME NEW id, RowsWith(rs, id) # {}
      PROVE  Min(RowsWith(rs, id)) \in RowsWith(rs, id) /\ Min(RowsWith(rs, id)) \in 1..n
  <2>1. RowsWith(rs, id) \subseteq 1..n BY <1>1 DEF RowsWith
  <2>2. 1..n \subseteq 0..n BY <1>1
  <2>3. Min(RowsWith(rs, id)) \in RowsWith(rs, id) BY <1>1, <1>3, <2>1, <2>2, LeastIs
  <2> QED BY <2>1, <2>3
<1>4. Range(Started(rs)) \subseteq OutAddrs \cup {NoAddr} BY <1>2, <1>3 DEF Started, Range
<1>5. ASSUME AllKept(rs) PROVE StartedAs(Registered(rs), Started(rs))
  <2>1. /\ SameRows(rs, Registered(rs))
        /\ \A i \in KeptRows(rs) : Registered(rs)[i].outId = IdOf(rs, i, "out")
    BY RegisteredIs
  <2> SUFFICES ASSUME NEW i \in 1..n
               PROVE  /\ Registered(rs)[i].outId \in DOMAIN Started(rs)
                      /\ Started(rs)[Registered(rs)[i].outId] = Registered(rs)[i].out
    BY <1>1, <2>1 DEF StartedAs, SameRows
  <2> DEFINE id == IdOf(rs, i, "out")
             given == {IdOf(rs, k, side) : k \in KeptRows(rs), side \in {"in", "out"}}
             first == Min(RowsWith(rs, id))
  <2>2. i \in KeptRows(rs) BY <1>1, <1>5 DEF AllKept
  <2>3. Registered(rs)[i].outId = id /\ Registered(rs)[i].out = rs[i].out BY <1>1, <2>1, <2>2 DEF SameRows
  <2>4. id \in 1..LastId(rs)
    <3>1. PICK top \in Nat : \A k, side : IdOf(rs, k, side) \in 1..top BY IdsAreBounded
    <3>2. given \subseteq 0..top /\ id \in given /\ id \in 1..top BY <2>2, <3>1
    <3>3. LastId(rs) = Max(given) BY <2>2 DEF LastId
    <3> HIDE DEF given, id
    <3>4. Max(given) \in given /\ \A y \in given : y <= Max(given) BY <3>2, GreatestIs
    <3>5. Max(given) \in Int
      <4>1. Max(given) \in 0..top BY <3>2, <3>4
      <4>2. \A x \in 0..top : x \in Int BY <3>1
      <4> QED BY <4>1, <4>2
    <3> QED BY <3>2, <3>3, <3>4, <3>5
  <2>5. i \in RowsWith(rs, id) BY <2>2, <2>3 DEF RowsWith
  <2>6. first \in RowsWith(rs, id) BY <1>3, <2>5
  <2>7. first \in KeptRows(rs) /\ IdOf(rs, first, "out") = id BY <2>1, <2>6 DEF RowsWith
  <2>8. rs[first].out = rs[i].out BY <2>2, <2>7, IdsTellDestinations
  <2>9. Started(rs)[id] = rs[first].out BY <2>4, <2>5 DEF Started
  <2>10. DOMAIN Started(rs) = 1..LastId(rs) BY DEF Started
  <2> HIDE DEF id, first
  <2> QED BY <2>3, <2>4, <2>8, <2>9, <2>10
<1> QED BY <1>4, <1>5

-----------------------------------------------------------------------------
(* The inductive invariant of the desktop application.                     *)

DeskTypes ==
  /\ rows \in Seq(Row) /\ fileContents \in Content /\ persistent \in Content \cup {NoAddr}
  /\ disk \in [FilePaths -> Content \cup {NoAddr}]
  /\ filePath \in FilePaths \cup {NoAddr} /\ spoiled \subseteq FilePaths \cup {NoAddr} /\ edits \in 0..MaxEdits
  /\ Range(itemTable) \subseteq BOOLEAN /\ Range(routerThread) \subseteq OutAddrs \cup {NoAddr}
  /\ building \in BOOLEAN /\ unsavedRows \in BOOLEAN /\ open \in BOOLEAN /\ touched \in BOOLEAN /\ told \in BOOLEAN

\* What was started is what the rows stand for.
RowsStarted(rs, running) == AllKept(rs) /\ IdsTaken(rs) /\ (running = <<>> \/ StartedAs(rs, running))
ShownIsStarted == ~touched => RowsStarted(rows, routerThread)

\* Without unsaved rows what was applied is what is in the file, unless a write to it failed.
Remembered(path, files, bad, content, unsaved, last) ==
  /\ ~unsaved => last = content
  /\ path # NoAddr /\ path \notin bad /\ files[path] # NoAddr => files[path] = content
FilesRemembered == ~told => Remembered(filePath, disk, spoiled, fileContents, unsavedRows, lastApplied)

\* When the program has been left, what was shown is kept, and all that was applied is in the file:
\* both but for writes that failed.
LeftIsKept == ~open => (NoAddr \notin spoiled => persistent = left) /\ (~told => ~unsavedRows)

DeskInv == DeskTypes /\ ShownIsStarted /\ FilesRemembered /\ LeftIsKept /\ MutesReachStarted

LEMMA RegisteredRows == ASSUME NEW rs \in Seq(Row) PROVE Registered(rs) \in Seq(Row)
  BY RegisteredIs

LEMMA LoadedRows == ASSUME NEW c \in Content PROVE Registered(Loaded(c)) \in Seq(Row)
  BY LoadedIs, RegisteredIs

LEMMA ChangedRow ==
  ASSUME NEW rs \in Seq(Row), NEW i \in DOMAIN rs, NEW a \in RowAddrs
  PROVE  [rs EXCEPT ![i].in = a.in, ![i].out = a.out] \in Seq(Row)
<1> DEFINE new == [rs EXCEPT ![i].in = a.in, ![i].out = a.out]
           r == [rs[i] EXCEPT !.in = a.in, !.out = a.out]
<1>1. rs[i] \in Row /\ a.in \in InAddrs \cup {NoAddr} /\ a.out \in OutAddrs BY DEF RowAddrs
<1>2. r \in Row BY <1>1 DEF Row
<1>3. new = [rs EXCEPT ![i] = r] OBVIOUS
<1> HIDE DEF r, new
<1> QED BY <1>2, <1>3 DEF new

LEMMA AppendedRow ==
  ASSUME NEW rs \in Seq(Row), NEW a \in RowAddrs
  PROVE  Append(rs, [in |-> a.in, out |-> a.out, mute |-> FALSE, outId |-> 0]) \in Seq(Row)
<1>1. [in |-> a.in, out |-> a.out, mute |-> FALSE, outId |-> 0] \in Row BY DEF RowAddrs, Row
<1> QED BY <1>1

LEMMA RemovedRow ==
  ASSUME NEW rs \in Seq(Row), NEW i \in DOMAIN rs
  PROVE  RemoveAt(rs, i) \in Seq(Row)
<1>1. \A k \in 1..Len(rs) : rs[k] \in Row OBVIOUS
<1>2. i \in 1..Len(rs) /\ Len(rs) \in Nat OBVIOUS
<1>3. SubSeq(rs, 1, i - 1) \in Seq(Row)
  <2>1. \A k \in 1..(i - 1) : rs[k] \in Row BY <1>1, <1>2
  <2>2. 1 \in Int /\ i - 1 \in Int BY <1>2
  <2> QED BY <2>1, <2>2, SubSeqProperties
<1>4. SubSeq(rs, i + 1, Len(rs)) \in Seq(Row)
  <2>1. \A k \in (i + 1)..Len(rs) : rs[k] \in Row BY <1>1, <1>2
  <2>2. i + 1 \in Int /\ Len(rs) \in Int BY <1>2
  <2> QED BY <2>1, <2>2, SubSeqProperties
<1> QED BY <1>3, <1>4, ConcatProperties DEF RemoveAt

LEMMA ToggledRow ==
  ASSUME NEW rs \in Seq(Row), NEW i \in DOMAIN rs
  PROVE  [rs EXCEPT ![i].mute = ~@] \in Seq(Row) /\ SameRows(rs, [rs EXCEPT ![i].mute = ~@])
<1> DEFINE new == [rs EXCEPT ![i].mute = ~@]
           r == [rs[i] EXCEPT !.mute = ~@]
<1>1. rs[i] \in Row OBVIOUS
<1>2. r \in Row /\ r.in = rs[i].in /\ r.out = rs[i].out BY <1>1 DEF Row
<1>3. new = [rs EXCEPT ![i] = r] OBVIOUS
<1> HIDE DEF r
<1>4. new \in Seq(Row) /\ DOMAIN new = DOMAIN rs /\ \A k \in DOMAIN rs : new[k] = IF k = i THEN r ELSE rs[k]
  <2> HIDE DEF new
  <2> QED BY <1>2, <1>3
<1> HIDE DEF new
<1>5. SameRows(rs, new) BY <1>2, <1>4 DEF SameRows
<1> QED BY <1>4, <1>5 DEF new

\* An edit touches the rows, and changes nothing else.
LEMMA EditKeeps ==
  ASSUME DeskInv, Edited, rows' \in Seq(Row)
  PROVE  DeskInv'
<1>1. DeskTypes'
  <2>1. edits' \in 0..MaxEdits BY DeskAssumption DEF DeskInv, DeskTypes, Edited
  <2> QED BY <2>1 DEF DeskInv, DeskTypes, Edited
<1>2. ShownIsStarted' BY DEF Edited, ShownIsStarted
<1>3. FilesRemembered' BY DEF DeskInv, Edited, FilesRemembered, Remembered
<1>4. LeftIsKept' BY DEF DeskInv, Edited, LeftIsKept
<1>5. MutesReachStarted' BY DEF DeskInv, Edited, MutesReachStarted
<1> QED BY <1>1, <1>2, <1>3, <1>4, <1>5 DEF DeskInv

LEMMA EditsKeep ==
  ASSUME DeskInv,
         \/ \E i \in DOMAIN rows : RemoveRow(i) \/ \E a \in RowAddrs : Edit(i, a)
         \/ \E a \in RowAddrs : AddRow(a)
  PROVE  DeskInv'
<1>1. rows \in Seq(Row) BY DEF DeskInv, DeskTypes
<1>2. ASSUME NEW i \in DOMAIN rows, RemoveRow(i) PROVE DeskInv'
  <2>1. RemoveAt(rows, i) \in Seq(Row) BY <1>1, RemovedRow
  <2>2. Loaded(Saved(RemoveAt(rows, i))) \in Seq(Row) BY <2>1, SavedAllKept
  <2>3. Edited /\ rows' = Loaded(Saved(RemoveAt(rows, i))) BY <1>2 DEF RemoveRow
  <2> QED BY <2>2, <2>3, EditKeeps
<1>3. ASSUME NEW i \in DOMAIN rows, NEW a \in RowAddrs, Edit(i, a) PROVE DeskInv'
  <2> DEFINE new == [rows EXCEPT ![i].in = a.in, ![i].out = a.out]
  <2>1. new \in Seq(Row) BY <1>1, ChangedRow
  <2>2. Edited /\ rows' = Registered(new) BY <1>3 DEF Edit
  <2> HIDE DEF new
  <2>3. Registered(new) \in Seq(Row) BY <2>1, RegisteredRows
  <2> QED BY <2>2, <2>3, EditKeeps
<1>4. ASSUME NEW a \in RowAddrs, AddRow(a) PROVE DeskInv'
  <2> DEFINE new == Append(rows, [in |-> a.in, out |-> a.out, mute |-> FALSE, outId |-> 0])
  <2>1. new \in Seq(Row) BY <1>1, AppendedRow
  <2>2. Edited /\ rows' = Loaded(Saved(new)) BY <1>4 DEF AddRow
  <2> HIDE DEF new
  <2>3. Loaded(Saved(new)) \in Seq(Row) BY <2>1, SavedAllKept
  <2> QED BY <2>2, <2>3, EditKeeps
<1> QED BY <1>2, <1>3, <1>4

\* The mute of a row whose destination is running reaches it.
LEMMA ToggleKeeps ==
  ASSUME DeskInv, NEW i \in DOMAIN rows, ToggleMute(i)
  PROVE  DeskInv'
<1> DEFINE toggled == [rows EXCEPT ![i].mute = ~@]
           id == rows[i].outId
<1>1. rows \in Seq(Row) BY DEF DeskInv, DeskTypes
<1>2. toggled \in Seq(Row) /\ SameRows(rows, toggled) BY <1>1, ToggledRow
<1>3. rows' = Registered(toggled) /\ UNCHANGED <<routerThread, building, filePath, fileContents, disk, persistent, spoiled,
                                                open, touched, left, told>>
  BY DEF ToggleMute
<1>4. lastApplied' = Saved(toggled) /\ unsavedRows' = (fileContents # Saved(toggled)) BY DEF ToggleMute, Compared
<1>5. /\ muting'.asked = IF rows[i].out \in ToSet(routerThread) THEN rows[i].out ELSE NoAddr
      /\ muting'.hit = IF id \in DOMAIN routerThread THEN routerThread[id] ELSE NoAddr
      /\ muting'.touched = touched
  BY DEF ToggleMute
<1>6. Range(itemTable') \subseteq BOOLEAN
  <2>1. Range(itemTable) \subseteq BOOLEAN BY DEF DeskInv, DeskTypes
  <2>2. itemTable' = IF id \in DOMAIN itemTable THEN [itemTable EXCEPT ![id] = ~rows[i].mute] ELSE itemTable
    BY DEF ToggleMute
  <2> HIDE DEF id
  <2>3. CASE id \in DOMAIN itemTable
    <3>1. itemTable' = [itemTable EXCEPT ![id] = ~rows[i].mute] BY <2>2, <2>3
    <3>2. (~rows[i].mute) \in BOOLEAN OBVIOUS
    <3> QED BY <2>1, <3>1, <3>2 DEF Range
  <2>4. CASE id \notin DOMAIN itemTable BY <2>1, <2>2, <2>4
  <2> QED BY <2>3, <2>4
<1> HIDE DEF toggled, id
<1>7. edits' \in 0..MaxEdits BY DeskAssumption DEF DeskInv, DeskTypes, ToggleMute
<1>8. rows' \in Seq(Row) BY <1>2, <1>3, RegisteredRows
<1>9. DeskTypes' BY <1>3, <1>4, <1>6, <1>7, <1>8 DEF DeskInv, DeskTypes
<1>10. ShownIsStarted'
  <2> SUFFICES ASSUME ~touched PROVE RowsStarted(rows', routerThread) BY <1>3 DEF ShownIsStarted
  <2>1. AllKept(rows) /\ IdsTaken(rows) /\ (routerThread = <<>> \/ StartedAs(rows, routerThread))
    BY DEF DeskInv, ShownIsStarted, RowsStarted
  <2>2. /\ AllKept(Registered(toggled)) /\ IdsTaken(Registered(toggled))
        /\ \A running : StartedAs(rows, running) => StartedAs(Registered(toggled), running)
    BY <1>1, <1>2, <2>1, RegisteredAsStarted
  <2> QED BY <1>3, <2>1, <2>2 DEF RowsStarted
<1>11. FilesRemembered' BY <1>3, <1>4 DEF DeskInv, FilesRemembered, Remembered
<1>12. LeftIsKept'
  <2>1. open BY DEF ToggleMute
  <2> QED BY <1>3, <2>1 DEF LeftIsKept
<1>13. MutesReachStarted'
  <2> SUFFICES ASSUME ~touched, rows[i].out \in ToSet(routerThread)
               PROVE  id \in DOMAIN routerThread /\ routerThread[id] = rows[i].out
    BY <1>5 DEF MutesReachStarted
  <2>1. routerThread # <<>> BY DEF ToSet
  <2>2. StartedAs(rows, routerThread) BY <2>1 DEF DeskInv, ShownIsStarted, RowsStarted
  <2> QED BY <2>2 DEF StartedAs, id
<1> QED BY <1>9, <1>10, <1>11, <1>12, <1>13 DEF DeskInv

\* Rows are shown again as they are saved, before they are started.
LEMMA StartKeepsRows ==
  ASSUME DeskInv, StartClicked
  PROVE  DeskInv'
<1>1. rows \in Seq(Row) BY DEF DeskInv, DeskTypes
<1>2. Loaded(Saved(rows)) \in Seq(Row) /\ AllKept(Loaded(Saved(rows))) BY <1>1, SavedAllKept
<1>3. rows' = Registered(Loaded(Saved(rows))) /\ routerThread = <<>> /\ unsavedRows' = (fileContents # Saved(rows))
      /\ lastApplied' = Saved(rows)
  BY DEF StartClicked, Routing, Compared
<1>4. building' = TRUE /\ touched' = FALSE
      /\ UNCHANGED <<itemTable, routerThread, filePath, fileContents, disk, persistent, spoiled, open, edits, left, told,
                     muting>>
  BY DEF StartClicked
<1>5. rows' \in Seq(Row) BY <1>2, <1>3, RegisteredRows
<1>6. DeskTypes' BY <1>3, <1>4, <1>5 DEF DeskInv, DeskTypes
<1>7. ShownIsStarted'
  <2> DEFINE new == Loaded(Saved(rows))
  <2>1. new \in Seq(Row) /\ AllKept(new) BY <1>2
  <2> HIDE DEF new
  <2>2. /\ SameRows(new, Registered(new)) /\ KeptRows(Registered(new)) = KeptRows(new) /\ IdsTaken(Registered(new))
    BY <2>1, RegisteredIs
  <2>3. AllKept(Registered(new)) BY <2>1, <2>2 DEF AllKept, SameRows
  <2>4. rows' = Registered(new) BY <1>3 DEF new
  <2> QED BY <1>3, <1>4, <2>2, <2>3, <2>4 DEF ShownIsStarted, RowsStarted
<1>8. FilesRemembered' BY <1>3, <1>4 DEF DeskInv, FilesRemembered, Remembered
<1>9. LeftIsKept'
  <2>1. open BY DEF StartClicked
  <2> QED BY <1>4, <2>1 DEF LeftIsKept
<1>10. MutesReachStarted' BY <1>4 DEF DeskInv, MutesReachStarted
<1> QED BY <1>6, <1>7, <1>8, <1>9, <1>10 DEF DeskInv

LEMMA BuildKeeps ==
  ASSUME DeskInv, BuildRoutes
  PROVE  DeskInv'
<1>1. rows \in Seq(Row) BY DEF DeskInv, DeskTypes
<1>2. rows' = Registered(rows) /\ routerThread' = Started(rows)
  BY DEF BuildRoutes, Started, LastId, RowsWith
<1>3. building' = FALSE
      /\ UNCHANGED <<filePath, fileContents, unsavedRows, disk, persistent, spoiled, open, touched, edits, lastApplied,
                     left, told, muting>>
  BY DEF BuildRoutes
<1>4. Range(itemTable') \subseteq BOOLEAN
  <2> DEFINE Mutes(id) == RowsWith(rows, id) # {} /\ rows[Min(RowsWith(rows, id))].mute
  <2>1. itemTable' = [id \in 1..LastId(rows) |-> Mutes(id)] BY DEF BuildRoutes, LastId, RowsWith
  <2>2. \A id : Mutes(id) \in BOOLEAN OBVIOUS
  <2> HIDE DEF Mutes
  <2> QED BY <2>1, <2>2 DEF Range
<1>5. /\ Range(Started(rows)) \subseteq OutAddrs \cup {NoAddr}
      /\ AllKept(rows) => StartedAs(Registered(rows), Started(rows))
  BY <1>1, BuiltAsShown
<1>6. rows' \in Seq(Row) BY <1>1, <1>2, RegisteredRows
<1>7. DeskTypes' BY <1>2, <1>3, <1>4, <1>5, <1>6 DEF DeskInv, DeskTypes
<1>8. ShownIsStarted'
  <2> SUFFICES ASSUME ~touched PROVE RowsStarted(rows', routerThread') BY <1>3 DEF ShownIsStarted
  <2>1. AllKept(rows) /\ IdsTaken(rows) BY DEF DeskInv, ShownIsStarted, RowsStarted
  <2>2. SameRows(rows, rows) BY DEF SameRows
  <2>3. AllKept(Registered(rows)) /\ IdsTaken(Registered(rows)) BY <1>1, <2>1, <2>2, RegisteredAsStarted
  <2> QED BY <1>2, <1>5, <2>1, <2>3 DEF RowsStarted
<1>9. FilesRemembered' BY <1>3 DEF DeskInv, FilesRemembered, Remembered
<1>10. LeftIsKept'
  <2>1. open BY DEF BuildRoutes
  <2> QED BY <1>3, <2>1 DEF LeftIsKept
<1>11. MutesReachStarted' BY <1>3 DEF DeskInv, MutesReachStarted
<1> QED BY <1>7, <1>8, <1>9, <1>10, <1>11 DEF DeskInv

LEMMA StopKeepsRows ==
  ASSUME DeskInv, StopClicked
  PROVE  DeskInv'
<1>1. routerThread' = <<>> /\ open
      /\ UNCHANGED <<rows, itemTable, building, filePath, fileContents, unsavedRows, disk, persistent, spoiled,
                     open, touched, edits, lastApplied, left, told, muting>>
  BY DEF StopClicked
<1>2. DeskTypes' BY <1>1, RangeEmpty DEF DeskInv, DeskTypes
<1>3. ShownIsStarted' BY <1>1 DEF DeskInv, ShownIsStarted, RowsStarted
<1>4. FilesRemembered' BY <1>1 DEF DeskInv, FilesRemembered, Remembered
<1>5. LeftIsKept' BY <1>1 DEF LeftIsKept
<1>6. MutesReachStarted' BY <1>1 DEF DeskInv, MutesReachStarted
<1> QED BY <1>2, <1>3, <1>4, <1>5, <1>6 DEF DeskInv

\* A file in which a write failed still loads.
LEMMA CutOffLoads == ASSUME NEW c \in Content, NEW after \in CutOff(c) PROVE after \in Content
<1> DEFINE E == [in: InAddrs \cup {NoAddr}, out: OutAddrs, mute: BOOLEAN]
<1>1. c \in Seq(E) BY DEF Content
<1> HIDE DEF E
<1>2. \A k \in 0..Len(c) : SubSeq(c, 1, k) \in Seq(E) /\ DOMAIN SubSeq(c, 1, k) = 1..k
  BY <1>1
<1>3. CASE \E k \in 0..Len(c) - 1 : after = SubSeq(c, 1, k) BY <1>1, <1>2, <1>3 DEF Content, E
<1>4. CASE \E k \in DOMAIN c : after = [SubSeq(c, 1, k) EXCEPT ![k].mute = FALSE]
  <2> DOMAIN c = 1..Len(c) BY <1>1
  <2>1. PICK k \in 1..Len(c) : after = [SubSeq(c, 1, k) EXCEPT ![k].mute = FALSE] BY <1>4
  <2> DEFINE part == SubSeq(c, 1, k)
             last == [part[k] EXCEPT !.mute = FALSE]
  <2>2. part \in Seq(E) /\ k \in DOMAIN part /\ part[k] \in E
    <3>1. part \in Seq(E) /\ DOMAIN part = 1..k BY <1>1, <1>2
    <3> HIDE DEF part
    <3> QED BY <1>1, <3>1
  <2>3. after = [part EXCEPT ![k] = last] BY <2>1
  <2> HIDE DEF part
  <2>4. last \in E BY <2>2 DEF E
  <2> HIDE DEF last
  <2>5. after \in Seq(E) BY <2>2, <2>3, <2>4
  <2> QED BY <2>5 DEF Content, E
<1> QED BY <1>3, <1>4 DEF CutOff

LEMMA SaveKeeps ==
  ASSUME DeskInv, NEW path \in FilePaths, NEW opens \in BOOLEAN, SaveClicked(path, opens)
  PROVE  DeskInv'
<1>1. rows \in Seq(Row) /\ disk \in [FilePaths -> Content \cup {NoAddr}] /\ fileContents \in Content
  BY DEF DeskInv, DeskTypes
<1>2. /\ filePath' = path /\ rows' = Registered(rows) /\ open
      /\ UNCHANGED <<itemTable, routerThread, building, persistent, open, touched, edits, left, muting>>
  BY DEF SaveClicked, SaveToFile
<1>3. Saved(rows) \in Content BY <1>1, SavedIs
<1>4. rows' \in Seq(Row) BY <1>1, <1>2, RegisteredRows
<1>5. ShownIsStarted'
  <2> SUFFICES ASSUME ~touched PROVE RowsStarted(rows', routerThread) BY <1>2 DEF ShownIsStarted
  <2>1. AllKept(rows) /\ IdsTaken(rows) /\ (routerThread = <<>> \/ StartedAs(rows, routerThread))
    BY DEF DeskInv, ShownIsStarted, RowsStarted
  <2>2. SameRows(rows, rows) BY DEF SameRows
  <2>3. /\ AllKept(Registered(rows)) /\ IdsTaken(Registered(rows))
        /\ \A running : StartedAs(rows, running) => StartedAs(Registered(rows), running)
    BY <1>1, <2>1, <2>2, RegisteredAsStarted
  <2> QED BY <1>2, <2>1, <2>3 DEF RowsStarted
<1>6. LeftIsKept' BY <1>2 DEF LeftIsKept
<1>7. MutesReachStarted' BY <1>2 DEF DeskInv, MutesReachStarted
<1>8. DeskTypes' /\ FilesRemembered'
  <2>1. CASE opens
    <3>1. fileContents' = Saved(rows) /\ unsavedRows' = FALSE /\ lastApplied' = Saved(rows) /\ told' = FALSE
      BY <2>1 DEF SaveClicked, SaveToFile
    <3>2. PICK after \in {Saved(rows)} \cup CutOff(Saved(rows)) :
            disk' = [disk EXCEPT ![path] = after] /\ spoiled' = Noted(path, after = Saved(rows))
      BY <2>1 DEF SaveClicked, SaveToFile
    <3>3. after \in Content BY <1>3, <3>2, CutOffLoads
    <3>4. disk' \in [FilePaths -> Content \cup {NoAddr}] /\ disk'[path] = after BY <1>1, <3>2, <3>3
    <3>5. spoiled \subseteq FilePaths \cup {NoAddr} BY DEF DeskInv, DeskTypes
    <3>6. spoiled' \subseteq FilePaths \cup {NoAddr} /\ (path \notin spoiled' => after = Saved(rows))
      BY <3>2, <3>5 DEF Noted
    <3>7. DeskTypes' BY <1>2, <1>3, <1>4, <3>1, <3>4, <3>6 DEF DeskInv, DeskTypes
    <3>8. FilesRemembered' BY <1>2, <3>1, <3>4, <3>6 DEF FilesRemembered, Remembered
    <3> QED BY <3>7, <3>8
  <2>2. CASE ~opens
    <3>1. told' = TRUE /\ UNCHANGED <<disk, spoiled, fileContents, unsavedRows, lastApplied>>
      BY <2>2 DEF SaveClicked, SaveToFile
    <3>2. DeskTypes' BY <1>2, <1>4, <3>1 DEF DeskInv, DeskTypes
    <3>3. FilesRemembered' BY <3>1 DEF FilesRemembered
    <3> QED BY <3>2, <3>3
  <2> QED BY <2>1, <2>2
<1> QED BY <1>5, <1>6, <1>7, <1>8 DEF DeskInv

\* What has been loaded is what is in the file, and its rows have yet to be started.
LEMMA LoadKeeps ==
  ASSUME DeskInv, NEW content \in Content, NEW file, LoadInto(content, file),
         filePath' \in FilePaths \cup {NoAddr}, persistent' \in Content \cup {NoAddr}, building' \in BOOLEAN, open' = TRUE,
         Range(itemTable') \subseteq BOOLEAN, UNCHANGED <<disk, edits>>,
         filePath' # NoAddr /\ disk[filePath'] # NoAddr => content = disk[filePath']
  PROVE  DeskInv'
<1>1. rows' = Registered(Loaded(content)) /\ fileContents' = content /\ unsavedRows' = FALSE /\ lastApplied' = content
      /\ routerThread' = <<>> /\ touched' = TRUE /\ told' = FALSE /\ spoiled' \subseteq spoiled /\ muting' = Unmuted
  BY DEF LoadInto
<1>2. rows' \in Seq(Row) BY <1>1, LoadedRows
<1>3. DeskTypes' BY <1>1, <1>2, RangeEmpty DEF DeskInv, DeskTypes
<1>4. ShownIsStarted' BY <1>1 DEF ShownIsStarted
<1>5. FilesRemembered' BY <1>1 DEF FilesRemembered, Remembered
<1>6. LeftIsKept' BY DEF LeftIsKept
<1>7. MutesReachStarted' BY <1>1 DEF MutesReachStarted, Unmuted
<1> QED BY <1>3, <1>4, <1>5, <1>6, <1>7 DEF DeskInv

LEMMA NoRows == <<>> \in Content
  BY DEF Content

LEMMA NewKeeps == ASSUME DeskInv, New PROVE DeskInv'
<1>1. /\ LoadInto(<<>>, NoAddr) /\ filePath' = NoAddr /\ persistent' \in {NoAddr, persistent} /\ open' = TRUE
      /\ UNCHANGED <<itemTable, building, disk, edits>>
  BY DEF New
<1>2. building' \in BOOLEAN /\ Range(itemTable') \subseteq BOOLEAN /\ persistent' \in Content \cup {NoAddr}
  BY <1>1 DEF DeskInv, DeskTypes
<1> QED BY <1>1, <1>2, LoadKeeps, NoRows

LEMMA OpenKeeps ==
  ASSUME DeskInv, NEW path \in FilePaths, Open(path)
  PROVE  DeskInv'
<1>1. /\ filePath' = path /\ open
      /\ UNCHANGED <<itemTable, building, disk, persistent, open, edits>>
  BY DEF Open
<1>2. disk \in [FilePaths -> Content \cup {NoAddr}] /\ building \in BOOLEAN /\ Range(itemTable) \subseteq BOOLEAN
      /\ persistent \in Content \cup {NoAddr}
  BY DEF DeskInv, DeskTypes
<1>3. CASE disk[path] # NoAddr
  <2>1. LoadInto(disk[path], path) BY <1>3 DEF Open
  <2>2. disk[path] \in Content BY <1>2, <1>3
  <2>3. open' = TRUE BY <1>1 DEF DeskInv, DeskTypes
  <2> QED BY <1>1, <1>2, <2>1, <2>2, <2>3, LoadKeeps
<1>4. CASE disk[path] = NoAddr
  <2>1. UNCHANGED <<rows, fileContents, unsavedRows, lastApplied, routerThread, touched, told, spoiled, left,
                   muting>>
    BY <1>4 DEF Open
  <2>2. DeskTypes' BY <1>1, <2>1 DEF DeskInv, DeskTypes
  <2>3. ShownIsStarted' BY <2>1 DEF DeskInv, ShownIsStarted
  <2>4. FilesRemembered' BY <1>1, <1>4, <2>1 DEF DeskInv, FilesRemembered, Remembered
  <2>5. LeftIsKept' BY <1>1 DEF LeftIsKept
  <2>6. MutesReachStarted' BY <2>1 DEF DeskInv, MutesReachStarted
  <2> QED BY <2>2, <2>3, <2>4, <2>5, <2>6 DEF DeskInv
<1> QED BY <1>3, <1>4

LEMMA CloseKeeps == ASSUME DeskInv, Close PROVE DeskInv'
<1>1. rows \in Seq(Row) /\ unsavedRows \in BOOLEAN /\ told \in BOOLEAN BY DEF DeskInv, DeskTypes
<1>2. /\ told' = (told \/ unsavedRows) /\ open' = FALSE /\ routerThread' = <<>>
      /\ building' = FALSE /\ left' = Saved(rows)
      /\ UNCHANGED <<rows, itemTable, filePath, fileContents, unsavedRows, disk, touched, edits, lastApplied, muting>>
  BY DEF Close
<1>3. PICK after \in {Saved(rows), persistent} \cup CutOff(Saved(rows)) :
        persistent' = after /\ spoiled' = Noted(NoAddr, after = Saved(rows))
  BY DEF Close
<1>4. persistent' \in Content \cup {NoAddr}
  <2>1. Saved(rows) \in Content BY <1>1, SavedIs
  <2>2. persistent \in Content \cup {NoAddr} BY DEF DeskInv, DeskTypes
  <2> QED BY <1>3, <2>1, <2>2, CutOffLoads
<1>5. /\ spoiled' \subseteq FilePaths \cup {NoAddr}
      /\ \A path : path # NoAddr /\ path \notin spoiled' => path \notin spoiled
      /\ NoAddr \notin spoiled' => persistent' = Saved(rows)
  <2>1. spoiled \subseteq FilePaths \cup {NoAddr} BY DEF DeskInv, DeskTypes
  <2> QED BY <1>3, <2>1 DEF Noted
<1>6. told' \in BOOLEAN BY <1>1, <1>2
<1>7. DeskTypes' BY <1>2, <1>4, <1>5, <1>6, RangeEmpty DEF DeskInv, DeskTypes
<1>8. ShownIsStarted' BY <1>2 DEF DeskInv, ShownIsStarted, RowsStarted
<1>9. FilesRemembered'
  <2> SUFFICES ASSUME ~told' PROVE Remembered(filePath, disk, spoiled', fileContents, unsavedRows, lastApplied)
    BY <1>2 DEF FilesRemembered
  <2>1. Remembered(filePath, disk, spoiled, fileContents, unsavedRows, lastApplied)
    BY <1>2 DEF DeskInv, FilesRemembered
  <2> QED BY <1>5, <2>1 DEF Remembered
<1>10. LeftIsKept' BY <1>2, <1>5 DEF LeftIsKept
<1>11. MutesReachStarted' BY <1>2 DEF DeskInv, MutesReachStarted
<1> QED BY <1>7, <1>8, <1>9, <1>10, <1>11 DEF DeskInv

LEMMA ReopenKeeps == ASSUME DeskInv, Reopen PROVE DeskInv'
<1> DEFINE content == IF Restored = NoAddr THEN <<>> ELSE Restored
<1>1. /\ LoadInto(content, RestoredFrom) /\ open' = TRUE /\ itemTable' = <<>> /\ building' = FALSE
      /\ UNCHANGED <<filePath, disk, persistent, edits>>
  BY DEF Reopen
<1>2. disk \in [FilePaths -> Content \cup {NoAddr}] /\ filePath \in FilePaths \cup {NoAddr}
      /\ persistent \in Content \cup {NoAddr}
  BY DEF DeskInv, DeskTypes
<1>3. content \in Content
  <2>1. Restored \in Content \cup {NoAddr}
    <3>1. CASE filePath # NoAddr /\ disk[filePath] # NoAddr
      <4>1. filePath \in FilePaths BY <1>2, <3>1
      <4> QED BY <1>2, <3>1, <4>1 DEF Restored, RestoredFrom
    <3>2. CASE ~(filePath # NoAddr /\ disk[filePath] # NoAddr) BY <1>2, <3>2 DEF Restored, RestoredFrom
    <3> QED BY <3>1, <3>2
  <2> QED BY <2>1, NoRows
<1>4. filePath # NoAddr /\ disk[filePath] # NoAddr => content = disk[filePath] BY DEF Restored, RestoredFrom
<1>5. filePath' # NoAddr /\ disk[filePath'] # NoAddr => content = disk[filePath'] BY <1>1, <1>4
<1>6. filePath' \in FilePaths \cup {NoAddr} /\ persistent' \in Content \cup {NoAddr} /\ building' \in BOOLEAN
      /\ Range(itemTable') \subseteq BOOLEAN
  BY <1>1, <1>2, RangeEmpty
<1>7. UNCHANGED <<disk, edits>> BY <1>1
<1> HIDE DEF content
<1> QED BY <1>1, <1>3, <1>5, <1>6, <1>7, LoadKeeps

LEMMA DeskInitFits == DeskInit => DeskInv
<1> SUFFICES ASSUME DeskInit PROVE DeskInv OBVIOUS
<1> DEFINE row == [in |-> CHOOSE a \in InAddrs : TRUE, out |-> CHOOSE a \in OutAddrs : TRUE, mute |-> FALSE]
           E == [in: InAddrs \cup {NoAddr}, out: OutAddrs, mute: BOOLEAN]
<1>1. rows = <<>> /\ itemTable = <<>> /\ routerThread = <<>> /\ building = FALSE
      /\ filePath = NoAddr /\ fileContents = <<>> /\ unsavedRows = FALSE
      /\ disk \in [FilePaths -> {NoAddr, <<row>>}] /\ persistent = NoAddr /\ spoiled = {} /\ open = TRUE
      /\ touched = FALSE /\ edits = 0 /\ lastApplied = <<>> /\ told = FALSE
      /\ muting = [asked |-> NoAddr, hit |-> NoAddr, touched |-> FALSE]
  BY DEF DeskInit, Unmuted
<1>2. row \in E BY DeskAssumption
<1>3. <<row>> \in Seq(E)
  <2> HIDE DEF row, E
  <2> QED BY <1>2
<1>4. disk \in [FilePaths -> Content \cup {NoAddr}]
  <2>1. <<row>> \in Content BY <1>3 DEF Content
  <2> HIDE DEF row
  <2> QED BY <1>1, <2>1
<1>5. rows \in Seq(Row) /\ Len(rows) = 0 BY <1>1
<1>6. DeskTypes
  <2>1. edits \in 0..MaxEdits BY <1>1, DeskAssumption
  <2>2. Range(itemTable) \subseteq BOOLEAN /\ Range(routerThread) \subseteq OutAddrs \cup {NoAddr} BY <1>1, RangeEmpty
  <2>3. fileContents \in Content /\ persistent \in Content \cup {NoAddr} /\ filePath \in FilePaths \cup {NoAddr}
    BY <1>1, NoRows
  <2>4. building \in BOOLEAN /\ unsavedRows \in BOOLEAN /\ open \in BOOLEAN /\ touched \in BOOLEAN /\ told \in BOOLEAN
    BY <1>1
  <2>5. spoiled \subseteq FilePaths \cup {NoAddr} BY <1>1
  <2> QED BY <1>4, <1>5, <2>1, <2>2, <2>3, <2>4, <2>5 DEF DeskTypes
<1>7. KeptRows(rows) = {} /\ DOMAIN rows = {}
  <2>1. KeptRows(rows) \subseteq 1..Len(rows) /\ DOMAIN rows = 1..Len(rows) BY <1>5, KeptSome
  <2>2. 1..0 = {} OBVIOUS
  <2> QED BY <1>5, <2>1, <2>2
<1>8. ShownIsStarted BY <1>1, <1>7 DEF ShownIsStarted, RowsStarted, AllKept, IdsTaken
<1>9. FilesRemembered BY <1>1 DEF FilesRemembered, Remembered
<1>10. LeftIsKept BY <1>1 DEF LeftIsKept
<1>11. MutesReachStarted BY <1>1 DEF MutesReachStarted
<1> QED BY <1>6, <1>8, <1>9, <1>10, <1>11 DEF DeskInv

LEMMA DeskStepKeeps == DeskInv /\ [DeskNext]_deskVars => DeskInv'
<1> SUFFICES ASSUME DeskInv, [DeskNext]_deskVars PROVE DeskInv' OBVIOUS
<1>1. CASE \/ \E i \in DOMAIN rows : RemoveRow(i) \/ \E a \in RowAddrs : Edit(i, a)
           \/ \E a \in RowAddrs : AddRow(a)
  BY <1>1, EditsKeep
<1>2. CASE \E i \in DOMAIN rows : ToggleMute(i) BY <1>2, ToggleKeeps
<1>3. CASE StartClicked BY <1>3, StartKeepsRows
<1>4. CASE BuildRoutes BY <1>4, BuildKeeps
<1>5. CASE StopClicked BY <1>5, StopKeepsRows
<1>6. CASE \E path \in FilePaths : \E opens \in BOOLEAN : SaveClicked(path, opens) BY <1>6, SaveKeeps
<1>7. CASE \E path \in FilePaths : Open(path) BY <1>7, OpenKeeps
<1>8. CASE New BY <1>8, NewKeeps
<1>9. CASE Close BY <1>9, CloseKeeps
<1>10. CASE Reopen BY <1>10, ReopenKeeps
<1>11. CASE UNCHANGED deskVars
  BY <1>11 DEF deskVars, DeskInv, DeskTypes, ShownIsStarted, FilesRemembered, LeftIsKept, MutesReachStarted
<1> QED BY <1>1, <1>2, <1>3, <1>4, <1>5, <1>6, <1>7, <1>8, <1>9, <1>10, <1>11 DEF DeskNext

LEMMA DeskInvHolds == DeskSpec => []DeskInv
  BY DeskInitFits, DeskStepKeeps, PTL DEF DeskSpec

\* The variables of the desktop application keep their types (MainWindow).
THEOREM DesktopTypes == DeskSpec => []DeskTypeOK
<1>1. DeskInv => DeskTypeOK
  <2> SUFFICES ASSUME DeskInv PROVE DeskTypeOK OBVIOUS
  <2>1. DeskTypes BY DEF DeskInv
  <2>2. \A r \in ToSet(rows) : r \in Row
    <3>1. \A i \in DOMAIN rows : rows[i] \in Row BY <2>1 DEF DeskTypes
    <3> QED BY <3>1 DEF ToSet
  <2> QED BY <2>1, <2>2 DEF DeskTypes, DeskTypeOK, Row
<1> QED BY <1>1, DeskInvHolds, PTL

\* The mute of a row reaches the destination that was started from it as long as the rows are
\* those that were started, and what was applied or shown comes back after the program was left,
\* whenever the user has not been told of an error and no write to the file restored has failed
\* (SaveRoutes, onMuteRouteToggled, closeEvent, RestoreLastFile).
THEOREM AppliedAndMutesAreKept == DeskSpec => []DesktopKeeps
<1>1. DeskInv => DesktopKeeps
  <2> SUFFICES ASSUME DeskInv, ~open, ~told, RestoredFrom \notin spoiled PROVE Restored \in {lastApplied, left}
    BY DEF DeskInv, DesktopKeeps, AppliedReturns
  <2>1. (NoAddr \notin spoiled => persistent = left) /\ ~unsavedRows BY DEF DeskInv, LeftIsKept
  <2>2. Remembered(filePath, disk, spoiled, fileContents, unsavedRows, lastApplied) BY DEF DeskInv, FilesRemembered
  <2>3. CASE filePath # NoAddr /\ disk[filePath] # NoAddr
    BY <2>1, <2>2, <2>3 DEF Restored, RestoredFrom, Remembered
  <2>4. CASE ~(filePath # NoAddr /\ disk[filePath] # NoAddr) BY <2>1, <2>4 DEF Restored, RestoredFrom
  <2> QED BY <2>3, <2>4
<1> QED BY <1>1, DeskInvHolds, PTL

-----------------------------------------------------------------------------
(* HttpServer's connections: every answer is the one to its request.  What *)
(* has been read of a connection, answered or not, is a prefix of what was *)
(* sent, cut at its requests.                                              *)

Headers == [complete: BOOLEAN, header: Nat, content: Nat]

\* Where the headers of a request end, and what it is answered.
HeadOf(r) == Len(r.bytes) - r.length
AnswerOf(r) ==
  IF Len(r.bytes) > MaxRequestBytes THEN Refusal(413)
  ELSE IF ~r.wellFormed THEN Refusal(400)
  ELSE Handled(SubSeq(r.bytes, Len(r.bytes) - r.length + 1, Len(r.bytes)))

\* What is known of the headers after k bytes.
HeadersAfter(r, k) ==
  IF k < HeadOf(r) THEN NoHeaders ELSE [complete |-> TRUE, header |-> HeadOf(r), content |-> r.length]

\* A connection with request r, of which `rest` has not been read.
Collects(r, state, rest, buffer, headers, answers) ==
  LET k == Len(r.bytes) - Len(rest)
  IN  /\ Len(rest) <= Len(r.bytes)
      /\ rest = SubSeq(r.bytes, k + 1, Len(r.bytes))
      /\ answers = <<>> =>
           /\ state = "open" /\ k < Len(r.bytes) /\ k <= MaxRequestBytes
           /\ buffer = SubSeq(r.bytes, 1, k) /\ headers = HeadersAfter(r, k)
      /\ answers # <<>> => rest = <<>> \/ (Len(buffer) > MaxRequestBytes /\ Len(r.bytes) > MaxRequestBytes)

\* What a request was answered is what its answer is.
Answered(r, answers) ==
  /\ \A i \in DOMAIN answers : answers[i] = AnswerOf(r)
  /\ AnswerOf(r).status = 200 => Len(answers) <= 1

HttpInv ==
  /\ httpState \in [Connection -> {"open", "closing", "closed"}]
  /\ httpRequest \in [Connection -> Requests]
  /\ httpWire \in [Connection -> Seq(Byte)] /\ httpBuffer \in [Connection -> Seq(Byte)]
  /\ httpHeaders \in [Connection -> Headers]
  /\ httpAnswers \in [Connection -> Seq([status: Nat, body: Seq(Byte)])]
  /\ \A c \in Connection :
       /\ Answered(httpRequest[c], httpAnswers[c])
       /\ httpState[c] # "closed" =>
            Collects(httpRequest[c], httpState[c], httpWire[c], httpBuffer[c], httpHeaders[c], httpAnswers[c])

LEMMA RequestShape ==
  ASSUME NEW r \in Requests
  PROVE  /\ r.bytes \in Seq(Byte) /\ r.length \in Nat /\ r.wellFormed \in BOOLEAN /\ r.stream \in BOOLEAN
         /\ HeadOf(r) \in 1..Len(r.bytes) /\ HeadOf(r) + r.length = Len(r.bytes) /\ Len(r.bytes) \in Nat
         /\ r.bytes[HeadOf(r)] = "end" /\ \A i \in 1..HeadOf(r) - 1 : r.bytes[i] = "head"
<1>1. r \in [bytes: Seq(Byte), length: Nat, wellFormed: BOOLEAN, stream: BOOLEAN] BY HttpAssumption
<1>2. PICK head \in DOMAIN r.bytes :
        /\ r.bytes[head] = "end" /\ \A i \in 1..head - 1 : r.bytes[i] = "head"
        /\ head + r.length = Len(r.bytes)
  BY HttpAssumption
<1>3. r.bytes \in Seq(Byte) /\ r.length \in Nat /\ r.wellFormed \in BOOLEAN /\ r.stream \in BOOLEAN
      /\ Len(r.bytes) \in Nat /\ head \in 1..Len(r.bytes)
  BY <1>1, <1>2
<1>4. HeadOf(r) = head BY <1>2, <1>3 DEF HeadOf
<1> QED BY <1>2, <1>3, <1>4

LEMMA AnswerShape ==
  ASSUME NEW r \in Requests
  PROVE  AnswerOf(r) \in [status: Nat, body: Seq(Byte)]
<1>1. SubSeq(r.bytes, Len(r.bytes) - r.length + 1, Len(r.bytes)) \in Seq(Byte)
  <2> DEFINE h == HeadOf(r)
             s == r.bytes
  <2>1. s \in Seq(Byte) /\ h \in 1..Len(s) /\ Len(s) - r.length = h BY RequestShape DEF HeadOf
  <2> HIDE DEF h, s
  <2>2. SubSeq(s, h + 1, Len(s)) \in Seq(Byte)
    <3>1. \A i \in h + 1 .. Len(s) : s[i] \in Byte BY <2>1
    <3> QED BY <2>1, <3>1, SubSeqProperties
  <2> QED BY <2>1, <2>2 DEF s
<1>2. <<>> \in Seq(Byte) OBVIOUS
<1> QED BY <1>1, <1>2 DEF AnswerOf, Refusal, Handled

\* Some more of a request has been read.
LEMMA MoreRead ==
  ASSUME NEW s \in Seq(Byte), NEW k \in Nat, k <= Len(s), NEW n \in 1..Len(s) - k
  PROVE  /\ SubSeq(s, 1, k) \o SubSeq(SubSeq(s, k + 1, Len(s)), 1, n) = SubSeq(s, 1, k + n)
         /\ SubSeq(SubSeq(s, k + 1, Len(s)), n + 1, Len(SubSeq(s, k + 1, Len(s)))) = SubSeq(s, k + n + 1, Len(s))
         /\ Len(SubSeq(s, 1, k + n)) = k + n /\ SubSeq(s, 1, k + n) \in Seq(Byte)
         /\ \A i \in 1..k + n : SubSeq(s, 1, k + n)[i] = s[i]
         /\ Len(SubSeq(s, k + n + 1, Len(s))) = Len(s) - (k + n) /\ SubSeq(s, k + n + 1, Len(s)) \in Seq(Byte)
<1> DEFINE rest == SubSeq(s, k + 1, Len(s))
           a == SubSeq(s, 1, k)
           b == SubSeq(rest, 1, n)
           d == SubSeq(s, 1, k + n)
           e == SubSeq(rest, n + 1, Len(rest))
           g == SubSeq(s, k + n + 1, Len(s))
<1>0. n \in Nat /\ Len(s) \in Nat OBVIOUS
<1>1. rest \in Seq(Byte) /\ Len(rest) = Len(s) - k /\ \A i \in 1..Len(s) - k : rest[i] = s[k + i]
  BY SubSeqProperties
<1>2. a \in Seq(Byte) /\ Len(a) = k /\ \A i \in 1..k : a[i] = s[i] BY SubSeqProperties
<1>3. d \in Seq(Byte) /\ Len(d) = k + n /\ \A i \in 1..k + n : d[i] = s[i] BY SubSeqProperties
<1>4. g \in Seq(Byte) /\ Len(g) = Len(s) - (k + n) /\ \A i \in 1..Len(s) - (k + n) : g[i] = s[k + n + i]
  BY SubSeqProperties
<1>5. b \in Seq(Byte) /\ Len(b) = n /\ \A i \in 1..n : b[i] = rest[i]
  <2> HIDE DEF rest
  <2> QED BY <1>1, SubSeqProperties
<1>6. e \in Seq(Byte) /\ Len(e) = Len(rest) - n /\ \A i \in 1..Len(rest) - n : e[i] = rest[n + i]
  <2> HIDE DEF rest
  <2>1. n + 1 \in 1..Len(rest) + 1 /\ Len(rest) \in Nat BY <1>1
  <2> QED BY <1>1, <2>1, SubSeqProperties
<1> HIDE DEF rest, a, b, d, e, g
<1>7. a \o b = d
  <2>1. a \o b \in Seq(Byte) /\ Len(a \o b) = k + n BY <1>2, <1>5, ConcatProperties
  <2>2. ASSUME NEW i \in 1..k + n PROVE (a \o b)[i] = d[i]
    <3>1. CASE i <= k BY <1>2, <1>3, <1>5, <3>1
    <3>2. CASE i > k
      <4>1. (a \o b)[i] = b[i - k] BY <1>2, <1>5, <3>2
      <4>2. i - k \in 1..n BY <3>2
      <4>3. b[i - k] = rest[i - k] BY <1>5, <4>2
      <4>4. i - k \in 1..Len(s) - k BY <4>2
      <4>5. rest[i - k] = s[k + (i - k)] BY <1>1, <4>4
      <4>6. k + (i - k) = i OBVIOUS
      <4> QED BY <1>3, <4>1, <4>3, <4>5, <4>6
    <3>3. i <= k \/ i > k BY <1>0
    <3> HIDE DEF d
    <3> QED BY <3>1, <3>2, <3>3
  <2> QED BY <1>3, <2>1, <2>2, SeqEqual
<1>8. e = g
  <2>1. Len(e) = Len(s) - (k + n) BY <1>1, <1>6
  <2>2. ASSUME NEW i \in 1..Len(s) - (k + n) PROVE e[i] = g[i]
    <3>1. e[i] = rest[n + i] BY <1>6, <1>1
    <3>2. n + i \in 1..Len(s) - k OBVIOUS
    <3>3. rest[n + i] = s[k + (n + i)] BY <1>1, <3>2
    <3>4. k + (n + i) = k + n + i OBVIOUS
    <3> QED BY <1>4, <3>1, <3>3, <3>4
  <2> QED BY <1>4, <1>6, <2>1, <2>2, SeqEqual
<1> QED BY <1>3, <1>4, <1>7, <1>8 DEF rest, a, b, d, e, g

\* The headers of what has been read, known or not.
LEMMA HeadersRead ==
  ASSUME HttpInv, NEW c \in Connection, NEW k \in Nat, NEW m \in Nat, k <= m,
         m <= Len(httpRequest[c].bytes), httpHeaders[c] = HeadersAfter(httpRequest[c], k)
  PROVE  ReadHeaders(c, SubSeq(httpRequest[c].bytes, 1, m)) = HeadersAfter(httpRequest[c], m)
<1> DEFINE r == httpRequest[c]
           h == HeadOf(r)
           b == SubSeq(r.bytes, 1, m)
           ends == {i \in DOMAIN b : b[i] = "end"}
<1> SUFFICES ReadHeaders(c, b) = HeadersAfter(r, m) OBVIOUS
<1>0. m <= Len(r.bytes) OBVIOUS
<1>1. r \in Requests BY DEF HttpInv
<1>2. r.bytes \in Seq(Byte) /\ Len(r.bytes) \in Nat /\ h \in 1..Len(r.bytes) /\ r.bytes[h] = "end"
      /\ \A i \in 1..h - 1 : r.bytes[i] = "head"
  BY <1>1, RequestShape
<1>3. b \in Seq(Byte) /\ DOMAIN b = 1..m /\ \A i \in 1..m : b[i] = r.bytes[i]
  <2> HIDE DEF r, h
  <2>1. b \in Seq(Byte) /\ Len(b) = m /\ \A i \in 1..m : b[i] = r.bytes[i] BY <1>0, <1>2, SubSeqProperties
  <2> HIDE DEF b
  <2> QED BY <2>1
<1>4. ReadHeaders(c, b) = IF httpHeaders[c].complete \/ ends = {} THEN httpHeaders[c]
                          ELSE [complete |-> TRUE, header |-> CHOOSE i \in ends : \A j \in ends : i <= j,
                                content |-> r.length]
  BY DEF ReadHeaders
<1>5. httpHeaders[c] = HeadersAfter(r, k) OBVIOUS
<1>6. CASE m < h
  <2>1. ends = {}
    <3> HIDE DEF b, h, r
    <3> QED BY <1>2, <1>3, <1>6
  <2>2. k < h BY <1>6, <1>2
  <2> HIDE DEF ends, b, h, r
  <2> QED BY <1>4, <1>5, <1>6, <2>1, <2>2 DEF HeadersAfter, h
<1>7. CASE h <= m /\ h <= k
  <2>1. httpHeaders[c].complete
    <3> HIDE DEF r
    <3> QED BY <1>5, <1>7, <1>2 DEF HeadersAfter, h
  <2> HIDE DEF ends, b, r
  <2> QED BY <1>2, <1>4, <1>5, <1>7, <2>1 DEF HeadersAfter, h
<1>8. CASE h <= m /\ k < h
  <2>1. ~httpHeaders[c].complete
    <3> HIDE DEF r
    <3> QED BY <1>5, <1>8, <1>2 DEF HeadersAfter, h, NoHeaders
  <2>2. h \in ends /\ \A j \in ends : h <= j
    <3> HIDE DEF b, h, r
    <3> QED BY <1>2, <1>3, <1>8
  <2>3. ends \subseteq Nat
    <3> HIDE DEF b, h, r
    <3> QED BY <1>3
  <2>4. (CHOOSE i \in ends : \A j \in ends : i <= j) = h
    <3> HIDE DEF ends, h
    <3>1. \A i \in ends : (\A j \in ends : i <= j) => i = h BY <2>2, <2>3
    <3> QED BY <2>2, <3>1
  <2> DEFINE first == CHOOSE i \in ends : \A j \in ends : i <= j
  <2>5. ends # {} BY <2>2
  <2>6. ReadHeaders(c, b) = [complete |-> TRUE, header |-> first, content |-> r.length]
    <3> HIDE DEF ends, b, r, first
    <3> QED BY <1>4, <2>1, <2>5 DEF first
  <2>7. first = HeadOf(r) BY <2>4
  <2>8. ~(m < HeadOf(r)) BY <1>2, <1>8
  <2> HIDE DEF ends, b, r, first, h
  <2> QED BY <2>6, <2>7, <2>8 DEF HeadersAfter
<1> HIDE DEF b, r, ends
<1>9. m < h \/ (h <= m /\ h <= k) \/ (h <= m /\ k < h) BY <1>2
<1> QED BY <1>6, <1>7, <1>8, <1>9

\* One connection is another one afterwards.
LEMMA ConnectionKeeps ==
  ASSUME HttpInv, NEW c \in Connection,
         NEW st \in {"open", "closing", "closed"}, NEW r \in Requests, NEW rest \in Seq(Byte),
         NEW buf \in Seq(Byte), NEW hd \in Headers, NEW ans \in Seq([status: Nat, body: Seq(Byte)]),
         httpState' = [httpState EXCEPT ![c] = st], httpRequest' = [httpRequest EXCEPT ![c] = r],
         httpWire' = [httpWire EXCEPT ![c] = rest], httpBuffer' = [httpBuffer EXCEPT ![c] = buf],
         httpHeaders' = [httpHeaders EXCEPT ![c] = hd], httpAnswers' = [httpAnswers EXCEPT ![c] = ans],
         Answered(r, ans), st # "closed" => Collects(r, st, rest, buf, hd, ans)
  PROVE  HttpInv'
<1>1. /\ httpState' \in [Connection -> {"open", "closing", "closed"}]
      /\ httpRequest' \in [Connection -> Requests]
      /\ httpWire' \in [Connection -> Seq(Byte)] /\ httpBuffer' \in [Connection -> Seq(Byte)]
      /\ httpHeaders' \in [Connection -> Headers]
      /\ httpAnswers' \in [Connection -> Seq([status: Nat, body: Seq(Byte)])]
  BY DEF HttpInv
<1>2. ASSUME NEW d \in Connection
      PROVE  /\ Answered(httpRequest'[d], httpAnswers'[d])
             /\ httpState'[d] # "closed" =>
                  Collects(httpRequest'[d], httpState'[d], httpWire'[d], httpBuffer'[d], httpHeaders'[d], httpAnswers'[d])
  <2>1. CASE d = c BY <2>1 DEF HttpInv
  <2>2. CASE d # c BY <2>2 DEF HttpInv
  <2> QED BY <2>1, <2>2
<1> QED BY <1>1, <1>2 DEF HttpInv

LEMMA IncomingKeeps ==
  ASSUME HttpInv, NEW c \in Connection, NEW r \in Requests, IncomingConnection(c, r)
  PROVE  HttpInv'
<1>1. r.bytes \in Seq(Byte) /\ Len(r.bytes) \in Nat /\ HeadOf(r) \in 1..Len(r.bytes) BY RequestShape
<1>2. NoHeaders \in Headers BY DEF NoHeaders, Headers
<1>3. <<>> \in Seq(Byte) /\ <<>> \in Seq([status: Nat, body: Seq(Byte)]) OBVIOUS
<1>4. Answered(r, <<>>) BY DEF Answered
<1>5. Collects(r, "open", r.bytes, <<>>, NoHeaders, <<>>)
  <2> DEFINE s == r.bytes
  <2>1. s \in Seq(Byte) /\ Len(s) \in Nat /\ Len(s) - Len(s) = 0 /\ 0 < Len(s) /\ 0 <= MaxRequestBytes
    BY <1>1, HttpAssumption
  <2>2. s = SubSeq(s, 1, Len(s)) /\ <<>> = SubSeq(s, 1, 0)
    <3> HIDE DEF s
    <3> QED BY <2>1, SubSeqFull, SubSeqEmpty
  <2>3. HeadersAfter(r, 0) = NoHeaders BY <1>1 DEF HeadersAfter
  <2>4. 0 + 1 = 1 OBVIOUS
  <2> HIDE DEF s
  <2> QED BY <2>1, <2>2, <2>3, <2>4 DEF Collects, s
<1> QED BY <1>1, <1>2, <1>3, <1>4, <1>5, ConnectionKeeps DEF IncomingConnection

LEMMA DisconnectedKeeps ==
  ASSUME HttpInv, NEW c \in Connection, OnDisconnected(c)
  PROVE  HttpInv'
<1>1. httpState' \in [Connection -> {"open", "closing", "closed"}] BY DEF OnDisconnected, HttpInv
<1>2. \A d \in Connection : httpState'[d] # "closed" => httpState'[d] = httpState[d]
  BY DEF OnDisconnected, HttpInv
<1> QED BY <1>1, <1>2 DEF OnDisconnected, HttpInv

LEMMA ReadKeeps ==
  ASSUME HttpInv, NEW c \in Connection, NEW n \in DOMAIN httpWire[c], OnReadyRead(c, n)
  PROVE  HttpInv'
<1> DEFINE r == httpRequest[c]
           s == r.bytes
           k == Len(s) - Len(httpWire[c])
           h == HeadOf(r)
           ans == httpAnswers[c]
           buf == httpBuffer[c] \o SubSeq(httpWire[c], 1, n)
           rest == SubSeq(httpWire[c], n + 1, Len(httpWire[c]))
           hd == ReadHeaders(c, buf)
           whole == hd.header + hd.content
<1>1. r \in Requests /\ httpState[c] \in {"open", "closing"} BY DEF HttpInv, OnReadyRead
<1>2. s \in Seq(Byte) /\ Len(s) \in Nat /\ r.length \in Nat /\ r.wellFormed \in BOOLEAN /\ r.stream \in BOOLEAN
      /\ h \in 1..Len(s) /\ h + r.length = Len(s) /\ MaxRequestBytes \in Nat
  BY <1>1, RequestShape, HttpAssumption
<1>3. Collects(r, httpState[c], httpWire[c], httpBuffer[c], httpHeaders[c], ans) /\ Answered(r, ans)
  BY <1>1 DEF HttpInv
<1>4. httpWire[c] \in Seq(Byte) /\ httpBuffer[c] \in Seq(Byte) /\ httpHeaders[c] \in Headers
      /\ ans \in Seq([status: Nat, body: Seq(Byte)]) /\ httpState \in [Connection -> {"open", "closing", "closed"}]
      /\ httpRequest \in [Connection -> Requests] /\ httpAnswers \in [Connection -> Seq([status: Nat, body: Seq(Byte)])]
      /\ httpBuffer \in [Connection -> Seq(Byte)] /\ httpHeaders \in [Connection -> Headers]
      /\ httpWire \in [Connection -> Seq(Byte)]
  BY DEF HttpInv
<1>5. Len(httpWire[c]) <= Len(s) /\ httpWire[c] = SubSeq(s, k + 1, Len(s)) BY <1>3 DEF Collects
<1>6. k \in Nat /\ k <= Len(s) /\ n \in 1..Len(s) - k
  <2> DEFINE w == Len(httpWire[c])
             L == Len(s)
  <2>1. n \in 1..w /\ w \in Nat /\ L \in Nat /\ w <= L /\ k = L - w BY <1>2, <1>4, <1>5
  <2> HIDE DEF k, w, L
  <2>2. k \in Nat /\ k <= L /\ n \in 1..L - k BY <2>1
  <2> QED BY <2>2 DEF L
<1>61. n \in Nat /\ k + n \in Nat /\ k <= k + n /\ k + n <= Len(s) /\ n >= 1 /\ k < Len(s)
  <2> DEFINE L == Len(s)
  <2>1. k \in Nat /\ k <= L /\ n \in 1..L - k /\ L \in Nat BY <1>2, <1>6
  <2> HIDE DEF k, L
  <2>2. n \in Nat /\ k + n \in Nat /\ k <= k + n /\ k + n <= L /\ n >= 1 /\ k < L BY <2>1
  <2> QED BY <2>2 DEF L
<1>7. rest = SubSeq(s, k + n + 1, Len(s)) /\ rest \in Seq(Byte) /\ Len(rest) = Len(s) - (k + n)
      /\ Len(SubSeq(s, 1, k + n)) = k + n /\ SubSeq(s, 1, k + n) \in Seq(Byte)
      /\ SubSeq(s, 1, k) \o SubSeq(httpWire[c], 1, n) = SubSeq(s, 1, k + n)
  <2>1. httpWire[c] = SubSeq(s, k + 1, Len(s)) /\ s \in Seq(Byte) /\ k \in Nat /\ k <= Len(s) /\ n \in 1..Len(s) - k
    BY <1>2, <1>5, <1>6
  <2> HIDE DEF s, k
  <2>2. SubSeq(s, 1, k) \o SubSeq(httpWire[c], 1, n) = SubSeq(s, 1, k + n) BY <2>1, MoreRead
  <2>3. rest = SubSeq(s, k + n + 1, Len(s))
    <3> DEFINE w == SubSeq(s, k + 1, Len(s))
    <3>1. rest = SubSeq(w, n + 1, Len(w)) BY <2>1
    <3>2. SubSeq(w, n + 1, Len(w)) = SubSeq(s, k + n + 1, Len(s)) BY <2>1, MoreRead
    <3> HIDE DEF rest, w
    <3> QED BY <3>1, <3>2
  <2> HIDE DEF rest
  <2>4. Len(SubSeq(s, 1, k + n)) = k + n /\ SubSeq(s, 1, k + n) \in Seq(Byte)
        /\ Len(SubSeq(s, k + n + 1, Len(s))) = Len(s) - (k + n) /\ SubSeq(s, k + n + 1, Len(s)) \in Seq(Byte)
    BY <2>1, MoreRead
  <2> QED BY <2>2, <2>3, <2>4
<1>71. Len(rest) \in Nat /\ Len(s) - Len(rest) = k + n /\ Len(s) - Len(rest) + 1 = k + n + 1
       /\ Len(rest) <= Len(s) /\ (k + n = Len(s) => Len(rest) = 0)
  <2> DEFINE L == Len(s)
             m == k + n
             w == Len(rest)
  <2>1. L \in Nat /\ m \in Nat /\ m <= L /\ w = L - m BY <1>2, <1>61, <1>7
  <2> HIDE DEF L, m, w
  <2>2. w \in Nat /\ L - w = m /\ L - w + 1 = m + 1 /\ w <= L /\ (m = L => w = 0) BY <2>1
  <2>3. m + 1 = k + n + 1 BY DEF m
  <2> QED BY <2>2, <2>3 DEF L, m, w
<1>72. k + n = Len(s) => rest = <<>>
  <2> HIDE DEF rest, k, s
  <2>1. rest \in Seq(Byte) BY <1>7
  <2>2. k + n = Len(s) => Len(rest) = 0 BY <1>71
  <2> QED BY <2>1, <2>2
<1>8. httpWire' = [httpWire EXCEPT ![c] = rest] /\ httpRequest' = [httpRequest EXCEPT ![c] = r]
  BY <1>4 DEF OnReadyRead
<1>9. buf \in Seq(Byte) /\ Len(buf) = Len(httpBuffer[c]) + n
  <2>1. SubSeq(httpWire[c], 1, n) \in Seq(Byte) /\ Len(SubSeq(httpWire[c], 1, n)) = n
    <3> DEFINE w == httpWire[c]
    <3>1. w \in Seq(Byte) /\ n \in 1..Len(w) BY <1>4
    <3> HIDE DEF w
    <3>2. SubSeq(w, 1, n) \in Seq(Byte) /\ Len(SubSeq(w, 1, n)) = n BY <3>1, SubSeqProperties
    <3> QED BY <3>2 DEF w
  <2> QED BY <1>4, <2>1, ConcatProperties
<1>10. ASSUME NEW new \in {Refusal(413), Refusal(400)}, new = AnswerOf(r), NEW hh \in Headers,
              Refuses(c, new.status, buf, hh), rest = <<>> \/ (Len(buf) > MaxRequestBytes /\ Len(s) > MaxRequestBytes)
       PROVE  HttpInv'
  <2>1. new.status \in {413, 400} /\ Refusal(new.status) = new BY DEF Refusal
  <2>2. PICK st \in {"closing", "closed"} : httpState' = [httpState EXCEPT ![c] = st]
    BY <1>10 DEF Refuses, Responds
  <2>3. httpAnswers' = [httpAnswers EXCEPT ![c] = Append(ans, new)] BY <1>10, <2>1 DEF Refuses, Responds
  <2>4. new \in [status: Nat, body: Seq(Byte)] BY <1>1, <1>10, AnswerShape
  <2>5. Append(ans, new) \in Seq([status: Nat, body: Seq(Byte)]) /\ Append(ans, new) # <<>>
        /\ \A i \in DOMAIN Append(ans, new) :
             (i \in DOMAIN ans /\ Append(ans, new)[i] = ans[i]) \/ Append(ans, new)[i] = new
    <3>1. ans \in Seq([status: Nat, body: Seq(Byte)]) BY <1>4
    <3> HIDE DEF ans
    <3> DEFINE T == [status: Nat, body: Seq(Byte)]
    <3>2. ans \in Seq(T) /\ new \in T BY <3>1, <2>4
    <3> HIDE DEF T
    <3>3. Append(ans, new) \in Seq(T) /\ Append(ans, new) # <<>> /\ DOMAIN Append(ans, new) = 1..Len(ans) + 1
          /\ Append(ans, new)[Len(ans) + 1] = new /\ \A i \in 1..Len(ans) : Append(ans, new)[i] = ans[i]
          /\ Len(ans) \in Nat /\ DOMAIN ans = 1..Len(ans)
      BY <3>2, AppendProperties
    <3>4. ASSUME NEW i \in 1..Len(ans) + 1
          PROVE  (i \in DOMAIN ans /\ Append(ans, new)[i] = ans[i]) \/ Append(ans, new)[i] = new
      <4>1. i \in 1..Len(ans) \/ i = Len(ans) + 1 BY <3>3
      <4> QED BY <3>3, <4>1
    <3> QED BY <3>3, <3>4 DEF T
  <2>6. Answered(r, Append(ans, new))
    <3>1. AnswerOf(r).status # 200 BY <1>10, <2>1
    <3>2. \A i \in DOMAIN Append(ans, new) : Append(ans, new)[i] = AnswerOf(r)
      BY <1>3, <1>10, <2>5 DEF Answered
    <3> QED BY <3>1, <3>2 DEF Answered
  <2>7. Collects(r, st, rest, buf, hh, Append(ans, new))
    <3>1. Len(rest) <= Len(s) /\ rest = SubSeq(s, Len(s) - Len(rest) + 1, Len(s))
      <4> HIDE DEF rest, k, s
      <4> QED BY <1>7, <1>71
    <3> HIDE DEF rest, buf, ans
    <3> QED BY <1>10, <2>5, <3>1 DEF Collects
  <2>8. httpBuffer' = [httpBuffer EXCEPT ![c] = buf] /\ httpHeaders' = [httpHeaders EXCEPT ![c] = hh]
    BY <1>10 DEF Refuses
  <2>9. st \in {"open", "closing", "closed"} /\ hh \in Headers /\ rest \in Seq(Byte) /\ buf \in Seq(Byte) BY <1>7, <1>9
  <2> DEFINE all == Append(ans, new)
  <2>10. all \in Seq([status: Nat, body: Seq(Byte)]) BY <2>5
  <2>11. httpAnswers' = [httpAnswers EXCEPT ![c] = all] BY <2>3
  <2>12. Answered(r, all) /\ (st # "closed" => Collects(r, st, rest, buf, hh, all)) BY <2>6, <2>7
  <2>13. httpWire' = [httpWire EXCEPT ![c] = rest] /\ httpRequest' = [httpRequest EXCEPT ![c] = r] /\ r \in Requests
    BY <1>1, <1>8
  <2> HIDE DEF r, rest, buf, ans, all
  <2> QED BY <2>2, <2>8, <2>9, <2>10, <2>11, <2>12, <2>13, ConnectionKeeps
<1>11. CASE ans # <<>>
  <2>1. Len(httpBuffer[c]) > MaxRequestBytes /\ Len(s) > MaxRequestBytes
    <3>1. httpWire[c] # <<>> BY <1>4
    <3> QED BY <1>3, <1>11, <3>1 DEF Collects
  <2>2. Len(buf) > MaxRequestBytes
    <3> DEFINE b == Len(httpBuffer[c])
    <3>1. b \in Nat /\ b > MaxRequestBytes /\ Len(buf) = b + n /\ n \in Nat BY <1>4, <1>6, <1>9, <2>1
    <3> HIDE DEF b, buf
    <3> QED BY <1>2, <3>1
  <2>3. Refuses(c, 413, buf, httpHeaders[c]) BY <2>2 DEF OnReadyRead
  <2>4. Refusal(413) = AnswerOf(r) /\ Refusal(413).status = 413 BY <2>1 DEF AnswerOf, Refusal
  <2> HIDE DEF buf, rest, r
  <2> QED BY <1>4, <1>10, <2>1, <2>2, <2>3, <2>4
<1>12. CASE ans = <<>>
  <2>1. httpState[c] = "open" /\ k < Len(s) /\ k <= MaxRequestBytes /\ httpBuffer[c] = SubSeq(s, 1, k)
        /\ httpHeaders[c] = HeadersAfter(r, k)
    BY <1>3, <1>12 DEF Collects
  <2>2. buf = SubSeq(s, 1, k + n) /\ Len(buf) = k + n BY <1>7, <2>1
  <2>3. hd = HeadersAfter(r, k + n)
    <3>1. k + n \in Nat /\ k <= k + n /\ k + n <= Len(s) BY <1>61
    <3> HIDE DEF k
    <3> QED BY <1>6, <2>1, <2>2, <3>1, HeadersRead
  <2>4. CASE Len(buf) > MaxRequestBytes
    <3>1. Len(s) > MaxRequestBytes
      <4> HIDE DEF buf, k
      <4> QED BY <1>2, <1>6, <2>2, <2>4
    <3>2. Refuses(c, 413, buf, httpHeaders[c]) BY <2>4 DEF OnReadyRead
    <3>3. Refusal(413) = AnswerOf(r) /\ Refusal(413).status = 413 BY <3>1 DEF AnswerOf, Refusal
    <3> HIDE DEF buf, rest, r
    <3> QED BY <1>4, <1>10, <2>4, <3>1, <3>2, <3>3
  <2>5. CASE ~(Len(buf) > MaxRequestBytes) /\ k + n < Len(s)
    <3>1. ~hd.complete \/ Len(buf) < whole
      <4>1. CASE k + n < h BY <2>3, <4>1 DEF HeadersAfter, NoHeaders
      <4>2. CASE ~(k + n < h)
        <5>1. hd.header = h /\ hd.content = r.length BY <2>3, <4>2 DEF HeadersAfter
        <5>2. whole = Len(s) BY <1>2, <5>1
        <5> HIDE DEF whole, buf
        <5> QED BY <2>2, <2>5, <5>2
      <4> QED BY <4>1, <4>2
    <3>2. Waits(c, buf, hd) BY <2>5, <3>1 DEF OnReadyRead
    <3>3. httpBuffer' = [httpBuffer EXCEPT ![c] = buf] /\ httpHeaders' = [httpHeaders EXCEPT ![c] = hd]
          /\ httpState' = [httpState EXCEPT ![c] = httpState[c]] /\ httpAnswers' = [httpAnswers EXCEPT ![c] = ans]
      BY <1>4, <3>2 DEF Waits
    <3>4. hd \in Headers
      <4> HIDE DEF hd
      <4>1. HeadersAfter(r, k + n) \in Headers
        <5>1. HeadOf(r) \in Nat /\ r.length \in Nat BY <1>2
        <5> HIDE DEF r, k
        <5> QED BY <5>1 DEF HeadersAfter, Headers, NoHeaders
      <4> QED BY <2>3, <4>1
    <3>5. Collects(r, httpState[c], rest, buf, hd, ans)
      <4> DEFINE j == k + n
      <4>1. j \in Nat /\ j < Len(s) /\ Len(buf) = j BY <1>61, <2>2, <2>5
      <4>2. Len(rest) = Len(s) - j /\ rest = SubSeq(s, j + 1, Len(s)) BY <1>7
      <4>3. buf = SubSeq(s, 1, j) /\ hd = HeadersAfter(r, j) BY <2>2, <2>3
      <4> HIDE DEF j, rest, buf, hd, ans
      <4>4. Len(s) - Len(rest) = j /\ Len(rest) <= Len(s) BY <1>71 DEF j
      <4>5. j <= MaxRequestBytes BY <1>2, <2>5, <4>1
      <4> QED BY <1>12, <2>1, <4>1, <4>2, <4>3, <4>4, <4>5 DEF Collects
    <3>6. httpState[c] \in {"open", "closing", "closed"} BY <1>1
    <3> HIDE DEF r, rest, buf, ans, hd
    <3> QED BY <1>1, <1>3, <1>4, <1>7, <1>8, <1>9, <3>3, <3>4, <3>5, <3>6, ConnectionKeeps
  <2>6. CASE ~(Len(buf) > MaxRequestBytes) /\ ~(k + n < Len(s))
    <3>1. k + n = Len(s) /\ Len(s) <= MaxRequestBytes
      <4> DEFINE L == Len(s)
                 m == k + n
      <4>1. L \in Nat /\ m \in Nat /\ m <= L /\ Len(buf) = m /\ ~(Len(buf) > MaxRequestBytes) /\ ~(m < L)
        BY <1>2, <1>61, <2>2, <2>6
      <4> HIDE DEF L, m, buf
      <4>2. m = L /\ L <= MaxRequestBytes BY <1>2, <4>1
      <4> QED BY <4>2 DEF L, m
    <3>2. hd = [complete |-> TRUE, header |-> h, content |-> r.length]
      <4>1. ~(Len(s) < HeadOf(r)) BY <1>2
      <4>2. hd = HeadersAfter(r, Len(s)) BY <2>3, <3>1
      <4> QED BY <4>1, <4>2 DEF HeadersAfter
    <3>3. hd.complete /\ whole = Len(s) /\ Len(buf) = Len(s) /\ hd \in Headers /\ hd.header = h
      <4>1. Len(buf) = Len(s) BY <2>2, <3>1
      <4>2. h \in Nat /\ r.length \in Nat /\ h + r.length = Len(s) BY <1>2
      <4> HIDE DEF hd, h, buf
      <4> QED BY <3>2, <4>1, <4>2 DEF Headers
    <3>4. rest = <<>>
      BY <1>72, <3>1
    <3>5. ~(Len(buf) < whole)
      <4> HIDE DEF buf, whole
      <4> QED BY <1>2, <3>3
    <3>6. CASE ~r.wellFormed
      <4>1. Refuses(c, 400, buf, hd) BY <2>6, <3>3, <3>5, <3>6 DEF OnReadyRead
      <4>2. Refusal(400) = AnswerOf(r) /\ Refusal(400).status = 400
        <5>1. ~(Len(s) > MaxRequestBytes) BY <1>2, <3>1
        <5> QED BY <3>6, <5>1 DEF AnswerOf, Refusal
      <4> HIDE DEF buf, rest, r, hd
      <4> QED BY <1>10, <3>3, <3>4, <4>1, <4>2
    <3>7. CASE r.wellFormed
      <4> DEFINE body == SubSeq(buf, hd.header + 1, whole)
                 new == Handled(body)
      <4>1. HandleRequest(c, body) BY <2>6, <3>3, <3>5, <3>7 DEF OnReadyRead
      <4>2. buf = s
        <5> HIDE DEF s, buf
        <5> QED BY <1>2, <2>2, <3>1, SubSeqFull
      <4>3. new = AnswerOf(r)
        <5>1. ~(Len(s) > MaxRequestBytes) BY <1>2, <3>1
        <5>2. hd.header + 1 = Len(s) - r.length + 1 BY <1>2, <3>3
        <5>3. body = SubSeq(s, Len(s) - r.length + 1, Len(s)) BY <3>3, <4>2, <5>2
        <5> HIDE DEF body
        <5> QED BY <3>7, <5>1, <5>3 DEF AnswerOf
      <4> HIDE DEF body, new
      <4>4. httpAnswers' = [httpAnswers EXCEPT ![c] = Append(ans, new)] /\ httpBuffer' = [httpBuffer EXCEPT ![c] = <<>>]
            /\ httpHeaders' = [httpHeaders EXCEPT ![c] = NoHeaders]
        BY <4>1 DEF HandleRequest, Responds, new
      <4>5. PICK st \in {"open", "closing", "closed"} : httpState' = [httpState EXCEPT ![c] = st]
        <5>1. CASE r.stream
          <6>1. httpState' = [httpState EXCEPT ![c] = httpState[c]] BY <1>4, <4>1, <5>1 DEF HandleRequest
          <6> QED BY <1>1, <6>1
        <5>2. CASE ~r.stream BY <4>1, <5>2 DEF HandleRequest, Responds
        <5> QED BY <5>1, <5>2
      <4>6. new \in [status: Nat, body: Seq(Byte)] BY <1>1, <4>3, AnswerShape
      <4>7. Append(ans, new) = <<new>> /\ <<new>> \in Seq([status: Nat, body: Seq(Byte)]) /\ <<new>> # <<>>
            /\ Len(<<new>>) = 1 /\ \A i \in DOMAIN <<new>> : <<new>>[i] = new
        <5> HIDE DEF ans
        <5> QED BY <1>12, <4>6
      <4>8. Answered(r, <<new>>) BY <4>3, <4>7 DEF Answered
      <4>9. Collects(r, st, rest, <<>>, NoHeaders, <<new>>)
        <5>1. Len(rest) <= Len(s) /\ rest = SubSeq(s, Len(s) - Len(rest) + 1, Len(s)) BY <1>7, <1>71
        <5> HIDE DEF rest, k
        <5> QED BY <3>4, <4>7, <5>1 DEF Collects
      <4>10. NoHeaders \in Headers /\ <<>> \in Seq(Byte) BY DEF NoHeaders, Headers
      <4> HIDE DEF r, rest, ans
      <4> QED BY <1>1, <1>7, <1>8, <4>4, <4>5, <4>7, <4>8, <4>9, <4>10, ConnectionKeeps
    <3> QED BY <1>2, <3>6, <3>7
  <2> QED BY <2>4, <2>5, <2>6
<1> QED BY <1>11, <1>12

LEMMA HttpStarts == HttpInit => HttpInv
<1> SUFFICES ASSUME HttpInit PROVE HttpInv OBVIOUS
<1>1. (CHOOSE r \in Requests : TRUE) \in Requests BY HttpAssumption
<1>2. <<>> \in Seq(Byte) /\ <<>> \in Seq([status: Nat, body: Seq(Byte)]) /\ NoHeaders \in Headers
  BY DEF NoHeaders, Headers
<1>3. \A r : Answered(r, <<>>) BY DEF Answered
<1> QED BY <1>1, <1>2, <1>3 DEF HttpInit, HttpInv

LEMMA HttpStays == HttpInv /\ [HttpNext]_httpVars => HttpInv'
<1> SUFFICES ASSUME HttpInv, [HttpNext]_httpVars PROVE HttpInv' OBVIOUS
<1>1. CASE UNCHANGED httpVars BY <1>1 DEF httpVars, HttpInv
<1>2. CASE HttpNext BY <1>2, IncomingKeeps, ReadKeeps, DisconnectedKeeps DEF HttpNext
<1> QED BY <1>1, <1>2

LEMMA HttpAnswers == HttpInv => AnsweredAsSent
<1> SUFFICES ASSUME HttpInv, NEW c \in Connection
             PROVE  /\ ToSet(httpAnswers[c]) \subseteq {AnswerOf(httpRequest[c])}
                    /\ AnswerOf(httpRequest[c]).status = 200 => Len(httpAnswers[c]) <= 1
                    /\ httpState[c] = "open" /\ httpWire[c] = <<>> => httpAnswers[c] # <<>>
  BY DEF AnsweredAsSent, AnswerOf
<1>1. Answered(httpRequest[c], httpAnswers[c]) BY DEF HttpInv
<1>2. ASSUME httpState[c] = "open", httpWire[c] = <<>>, httpAnswers[c] = <<>> PROVE FALSE
  <2>1. Collects(httpRequest[c], httpState[c], httpWire[c], httpBuffer[c], httpHeaders[c], httpAnswers[c])
    BY <1>2 DEF HttpInv
  <2> DEFINE L == Len(httpRequest[c].bytes)
  <2>2. L - Len(httpWire[c]) < L /\ Len(httpWire[c]) = 0 BY <1>2, <2>1 DEF Collects
  <2>3. L \in Nat BY RequestShape DEF HttpInv
  <2> HIDE DEF L
  <2> QED BY <2>2, <2>3
<1> QED BY <1>1, <1>2 DEF Answered, ToSet

LEMMA HttpKept == HttpSpec => []AnsweredAsSent
  BY HttpStarts, HttpStays, HttpAnswers, PTL DEF HttpSpec

-----------------------------------------------------------------------------
(* The log in the browsers: what the pane and the way hold is, line by     *)
(* line, what the process and the ones before it have logged.              *)

Line == [run: Nat, id: Nat]

\* The lines of a browser: none, then those of its pane, then those on the way.
At(p, w, i) == IF i = 0 THEN NoEvent ELSE IF i <= Len(p) THEN p[i] ELSE w[i - Len(p)]

\* Follows, for any process and number.
FollowsAt(d, e, run, next) ==
  LET before == IF d.run = e.run THEN d.id ELSE 0
  IN  /\ d.run <= e.run /\ before < e.id
      /\ e.id = before + 1 \/ (e.run = run => e.id + HistorySize <= next)

Behind(e, run, next) == e.run <= run /\ (e.run = run => e.id < next)

InOrderTo(run, next, p, w) ==
  /\ \A i \in 1..Len(p) + Len(w) : FollowsAt(At(p, w, i - 1), At(p, w, i), run, next)
  /\ \A i \in 0..Len(p) + Len(w) : Behind(At(p, w, i), run, next)

OnWay(s) == IF s = NoStream THEN <<>> ELSE s

\* A browser with the pane p and w on the way.
LogRight(run, next, p, w, connected, last) ==
  /\ last = At(p, <<>>, Len(p))
  /\ InOrderTo(run, next, p, w)
  /\ connected /\ next > 1 => At(p, w, Len(p) + Len(w)) = Event(run, next - 1)

HistoryRight(history, next) ==
  /\ history \in Seq(Nat)
  /\ Len(history) = IF next - 1 < HistorySize THEN next - 1 ELSE HistorySize
  /\ \A i \in 1..Len(history) : history[i] = (next - 1 - Len(history)) + i

EventInv ==
  /\ runId \in Nat \ {0} /\ nextLogId \in Nat \ {0}
  /\ HistoryRight(logHistory, nextLogId)
  /\ stream \in [Browsers -> Seq(Line) \cup {NoStream}]
  /\ lastEvent \in [Browsers -> Line] /\ pane \in [Browsers -> Seq(Line)]
  /\ \A b \in Browsers :
       LogRight(runId, nextLogId, pane[b], OnWay(stream[b]), stream[b] # NoStream, lastEvent[b])

LEMMA EventIsLine == NoEvent \in Line /\ \A run \in Nat, id \in Nat : Event(run, id) \in Line
  BY DEF NoEvent, Event, Line

LEMMA WayIsSeq ==
  ASSUME NEW s \in Seq(Line) \cup {NoStream} PROVE OnWay(s) \in Seq(Line)
  BY DEF OnWay

LEMMA AtIsLine ==
  ASSUME NEW p \in Seq(Line), NEW w \in Seq(Line), NEW i \in 0..Len(p) + Len(w)
  PROVE  At(p, w, i) \in Line
<1> DEFINE n == Len(p)
           m == Len(w)
<1>1. n \in Nat /\ m \in Nat /\ i \in 0..n + m OBVIOUS
<1>2. CASE i = 0 BY <1>2, EventIsLine DEF At
<1>3. CASE i # 0 /\ i <= n
  <2>1. i \in 1..n
    <3> HIDE DEF n, m
    <3> QED BY <1>1, <1>3
  <2> QED BY <1>3, <2>1 DEF At
<1>4. CASE i # 0 /\ ~(i <= n)
  <2>1. i - n \in 1..m
    <3> HIDE DEF n, m
    <3> QED BY <1>1, <1>4
  <2> QED BY <1>4, <2>1 DEF At
<1> QED BY <1>2, <1>3, <1>4

\* Less on the way, or less in the pane with nothing on the way, is in order as well.
LEMMA LessOnWay ==
  ASSUME NEW run, NEW next, NEW p \in Seq(Line), NEW w \in Seq(Line), InOrderTo(run, next, p, w)
  PROVE  InOrderTo(run, next, p, <<>>)
<1>1. Len(p) \in Nat /\ Len(w) \in Nat /\ Len(<<>>) = 0 OBVIOUS
<1>2. \A i \in 0..Len(p) : At(p, <<>>, i) = At(p, w, i) BY <1>1 DEF At
<1>3. ASSUME NEW i \in 1..Len(p) PROVE FollowsAt(At(p, <<>>, i - 1), At(p, <<>>, i), run, next)
  <2>1. i \in 1..Len(p) + Len(w) /\ i \in 0..Len(p) /\ i - 1 \in 0..Len(p) BY <1>1
  <2> QED BY <1>2, <2>1 DEF InOrderTo
<1>4. ASSUME NEW i \in 0..Len(p) PROVE Behind(At(p, <<>>, i), run, next)
  <2>1. i \in 0..Len(p) + Len(w) BY <1>1
  <2> QED BY <1>2, <2>1 DEF InOrderTo
<1>5. Len(p) + Len(<<>>) = Len(p) BY <1>1
<1> QED BY <1>3, <1>4, <1>5 DEF InOrderTo

\* More on the way.
LEMMA MoreOnWay ==
  ASSUME NEW run, NEW next, NEW p \in Seq(Line), NEW w \in Seq(Line), NEW e \in Line,
         InOrderTo(run, next, p, w), FollowsAt(At(p, w, Len(p) + Len(w)), e, run, next), Behind(e, run, next)
  PROVE  /\ InOrderTo(run, next, p, Append(w, e))
         /\ At(p, Append(w, e), Len(p) + Len(Append(w, e))) = e
<1> DEFINE n == Len(p)
           m == Len(w)
           v == Append(w, e)
<1>1. n \in Nat /\ m \in Nat /\ Len(v) = m + 1 /\ v[m + 1] = e /\ \A i \in 1..m : v[i] = w[i] OBVIOUS
<1>2. ASSUME NEW i \in 0..n + m PROVE At(p, v, i) = At(p, w, i)
  <2>1. CASE i <= n BY <2>1 DEF At
  <2>2. CASE ~(i <= n)
    <3>1. i - n \in 1..m
      <4> HIDE DEF n, m
      <4> QED BY <1>1, <2>2
    <3>2. v[i - n] = w[i - n] BY <1>1, <3>1
    <3> HIDE DEF v
    <3> QED BY <2>2, <3>2 DEF At
  <2> QED BY <2>1, <2>2
<1>3. At(p, v, n + (m + 1)) = e
  <2>1. n + (m + 1) # 0 /\ ~(n + (m + 1) <= n) /\ n + (m + 1) - n = m + 1
    <3> HIDE DEF n, m
    <3> QED BY <1>1
  <2> HIDE DEF v
  <2> QED BY <1>1, <2>1 DEF At
<1>4. FollowsAt(At(p, w, n + m), e, run, next) OBVIOUS
<1>5. \A i \in 1..n + m : FollowsAt(At(p, w, i - 1), At(p, w, i), run, next) BY DEF InOrderTo
<1>6. \A i \in 0..n + m : Behind(At(p, w, i), run, next) BY DEF InOrderTo
<1> HIDE DEF n, m, v
<1>7. ASSUME NEW i \in 1..n + (m + 1) PROVE FollowsAt(At(p, v, i - 1), At(p, v, i), run, next)
  <2>1. CASE i = n + (m + 1)
    <3>1. i - 1 = n + m /\ i - 1 \in 0..n + m BY <1>1, <2>1
    <3> QED BY <1>2, <1>3, <1>4, <2>1, <3>1
  <2>2. CASE i # n + (m + 1)
    <3>1. i \in 1..n + m /\ i \in 0..n + m /\ i - 1 \in 0..n + m BY <1>1, <2>2
    <3> QED BY <1>2, <1>5, <3>1
  <2> QED BY <2>1, <2>2
<1>8. ASSUME NEW i \in 0..n + (m + 1) PROVE Behind(At(p, v, i), run, next)
  <2>1. CASE i = n + (m + 1) BY <1>3, <2>1
  <2>2. CASE i # n + (m + 1)
    <3>1. n + m \in Nat /\ i \in Nat /\ i <= (n + m) + 1 /\ i # (n + m) + 1 BY <1>1, <2>2
    <3>2. i \in 0..n + m BY <3>1
    <3> QED BY <1>2, <1>6, <3>2
  <2> QED BY <2>1, <2>2
<1>9. InOrderTo(run, next, p, v) BY <1>1, <1>7, <1>8 DEF InOrderTo, n
<1> QED BY <1>1, <1>3, <1>9 DEF n, v

\* A line gets from the way to the pane.
LEMMA Shown ==
  ASSUME NEW run, NEW next, NEW p \in Seq(Line), NEW w \in Seq(Line), w # <<>>, InOrderTo(run, next, p, w)
  PROVE  /\ InOrderTo(run, next, Append(p, Head(w)), Tail(w))
         /\ Len(Append(p, Head(w))) + Len(Tail(w)) = Len(p) + Len(w)
         /\ \A i \in 0..Len(p) + Len(w) : At(Append(p, Head(w)), Tail(w), i) = At(p, w, i)
         /\ At(Append(p, Head(w)), <<>>, Len(Append(p, Head(w)))) = Head(w)
<1> DEFINE n == Len(p)
           m == Len(w)
           q == Append(p, Head(w))
           t == Tail(w)
<1>1. n \in Nat /\ m \in Nat /\ m >= 1 /\ Head(w) \in Line /\ Head(w) = w[1] OBVIOUS
<1>2. Len(q) = n + 1 /\ q[n + 1] = w[1] /\ \A i \in 1..n : q[i] = p[i] BY <1>1
<1>3. t \in Seq(Line) /\ Len(t) = m - 1 /\ \A i \in 1..m - 1 : t[i] = w[i + 1] OBVIOUS
<1> HIDE DEF q, t
<1>4. ASSUME NEW i \in 0..n + m PROVE At(q, t, i) = At(p, w, i)
  <2>1. CASE i = 0 BY <2>1 DEF At
  <2>2. CASE i # 0 /\ i <= n
    <3>1. i \in 1..n /\ i <= n + 1
      <4> HIDE DEF n, m
      <4> QED BY <1>1, <2>2
    <3> QED BY <1>2, <2>2, <3>1 DEF At
  <2>3. CASE i = n + 1
    <3>1. i # 0 /\ ~(i <= n) /\ i - n = 1 /\ i <= Len(q) BY <1>1, <1>2, <2>3
    <3> QED BY <1>2, <2>3, <3>1 DEF At
  <2>4. CASE i > n + 1
    <3>1. i # 0 /\ ~(i <= n) /\ ~(i <= Len(q)) /\ i - Len(q) = i - (n + 1) BY <1>1, <1>2, <2>4
    <3>2. i - (n + 1) \in 1..m - 1 /\ (i - (n + 1)) + 1 = i - n
      <4> HIDE DEF n, m
      <4> QED BY <1>1, <2>4
    <3>3. t[i - (n + 1)] = w[i - n] BY <1>3, <3>2
    <3> QED BY <3>1, <3>3 DEF At
  <2>5. i = 0 \/ (i # 0 /\ i <= n) \/ i = n + 1 \/ i > n + 1
    <3> HIDE DEF n, m
    <3> QED BY <1>1
  <2> QED BY <2>1, <2>2, <2>3, <2>4, <2>5
<1>5. Len(q) + Len(t) = n + m
  <2> HIDE DEF n, m
  <2> QED BY <1>1, <1>2, <1>3
<1>6. InOrderTo(run, next, q, t)
  <2>1. \A i \in 1..n + m : FollowsAt(At(p, w, i - 1), At(p, w, i), run, next) BY DEF InOrderTo
  <2>2. \A i \in 0..n + m : Behind(At(p, w, i), run, next) BY DEF InOrderTo
  <2> HIDE DEF n, m
  <2>3. \A i \in 1..n + m : i \in 0..n + m /\ i - 1 \in 0..n + m BY <1>1
  <2>4. \A i \in 1..n + m : FollowsAt(At(q, t, i - 1), At(q, t, i), run, next) BY <1>4, <2>1, <2>3
  <2>5. \A i \in 0..n + m : Behind(At(q, t, i), run, next) BY <1>4, <2>2
  <2> QED BY <1>5, <2>4, <2>5 DEF InOrderTo
<1>7. At(q, <<>>, Len(q)) = Head(w)
  <2>1. Len(q) # 0 /\ Len(q) <= Len(q) BY <1>1, <1>2
  <2> QED BY <1>1, <1>2, <2>1 DEF At
<1> QED BY <1>4, <1>5, <1>6, <1>7 DEF q, t

\* The lines that are sent to a browser that connects, counted from the last.
Missing(since, L, next) ==
  IF next - 1 <= since THEN 0 ELSE IF since < (next - 1) - L THEN L ELSE (next - 1) - since

LEMMA ReplayedIs ==
  ASSUME EventInv, NEW last \in Line
  PROVE  LET since == IF last.run = runId THEN last.id ELSE 0
             c == Missing(since, Len(logHistory), nextLogId)
         IN  Replayed(last) = [i \in 1..c |-> ((nextLogId - 1) - c) + i]
<1> DEFINE N == Len(logHistory)
           f == (nextLogId - 1) - N
           since == IF last.run = runId THEN last.id ELSE 0
           Goes(g) ==
             g = [n \in 0..N |->
                    IF n = 0 THEN <<>>
                    ELSE IF logHistory[n] <= since THEN g[n - 1] ELSE Append(g[n - 1], logHistory[n])]
           kept == CHOOSE g : Goes(g)
           M(k) == IF f + k <= since THEN 0 ELSE IF since < f THEN k ELSE (f + k) - since
           Is(k) == [i \in 1..M(k) |-> ((f + k) - M(k)) + i]
           g0 == [k \in 0..N |-> Is(k)]
<1>1. /\ N \in Nat /\ f \in Nat /\ since \in Nat /\ nextLogId \in Nat \ {0} /\ N <= nextLogId - 1
      /\ \A n \in 1..N : logHistory[n] = f + n
  <2>1. /\ HistoryRight(logHistory, nextLogId) /\ nextLogId \in Nat \ {0} /\ HistorySize \in Nat
    BY EventAssumption DEF EventInv
  <2>2. N \in Nat /\ (N = IF nextLogId - 1 < HistorySize THEN nextLogId - 1 ELSE HistorySize)
    BY <2>1 DEF HistoryRight
  <2>3. \A n \in 1..N : logHistory[n] = f + n BY <2>1 DEF HistoryRight
  <2>4. since \in Nat BY DEF Line
  <2> HIDE DEF N, since
  <2>5. f \in Nat /\ N <= nextLogId - 1 BY <2>1, <2>2
  <2> QED BY <2>1, <2>2, <2>3, <2>4, <2>5
<1>2. Replayed(last) = kept[N] BY DEF Replayed
<1> HIDE DEF f, since
<1>3. Is(0) = <<>>
  <2>1. M(0) = 0 BY <1>1
  <2> HIDE DEF M
  <2>2. Is(0) = [i \in 1..0 |-> ((f + 0) - 0) + i] BY <2>1
  <2> QED BY <2>2
<1>4. \A k \in 0..N : M(k) \in 0..k BY <1>1
<1>5. \A k \in 1..N : Is(k) = IF logHistory[k] <= since THEN Is(k - 1) ELSE Append(Is(k - 1), logHistory[k])
  <2> SUFFICES ASSUME NEW k \in 1..N
               PROVE  Is(k) = IF logHistory[k] <= since THEN Is(k - 1) ELSE Append(Is(k - 1), logHistory[k])
    OBVIOUS
  <2>1. logHistory[k] = f + k /\ k \in Nat /\ k - 1 \in Nat BY <1>1
  <2>2. CASE f + k <= since
    <3>1. M(k) = 0 /\ M(k - 1) = 0 BY <1>1, <2>1, <2>2
    <3> HIDE DEF M
    <3>2. Is(k) = [i \in 1..0 |-> ((f + k) - 0) + i] /\ Is(k - 1) = [i \in 1..0 |-> ((f + (k - 1)) - 0) + i] BY <3>1
    <3>3. Is(k) = <<>> /\ Is(k - 1) = <<>> BY <3>2
    <3> HIDE DEF Is
    <3> QED BY <2>1, <2>2, <3>3
  <2>3. CASE ~(f + k <= since)
    <3> DEFINE m == M(k - 1)
    <3>1. M(k) = m + 1 /\ m \in Nat BY <1>1, <2>1, <2>3
    <3>2. (f + k) - (m + 1) = (f + (k - 1)) - m /\ ((f + k) - (m + 1)) + (m + 1) = f + k BY <1>1, <2>1, <3>1
    <3>3. (f + k) - (m + 1) \in Nat BY <1>1, <2>1, <2>3
    <3> HIDE DEF M, m
    <3> DEFINE d == (f + k) - (m + 1)
    <3>4. d \in Nat /\ d + (m + 1) = f + k BY <3>2, <3>3
    <3>5. Is(k) = [i \in 1..m + 1 |-> d + i] BY <3>1
    <3>6. Is(k - 1) = [i \in 1..m |-> d + i] BY <3>2 DEF m
    <3> HIDE DEF Is, d
    <3>7. Append(Is(k - 1), f + k) = [i \in 1..m + 1 |-> d + i]
      <4> DEFINE s == Is(k - 1)
                 t == Append(s, f + k)
      <4>1. s \in Seq(Nat) /\ Len(s) = m BY <3>1, <3>4, <3>6
      <4>2. \A i \in 1..m : s[i] = d + i BY <3>6
      <4>3. f + k \in Nat BY <3>1, <3>4
      <4> HIDE DEF s
      <4>4. t \in Seq(Nat) /\ Len(t) = m + 1 /\ t[m + 1] = f + k /\ \A i \in 1..m : t[i] = s[i] BY <4>1, <4>3
      <4>5. DOMAIN t = 1..m + 1 /\ t = [i \in DOMAIN t |-> t[i]] BY <4>4
      <4>6. \A i \in 1..m + 1 : i = m + 1 \/ i \in 1..m BY <3>1
      <4>7. \A i \in 1..m + 1 : t[i] = d + i BY <3>4, <4>2, <4>4, <4>6
      <4> HIDE DEF t
      <4>8. t = [i \in 1..m + 1 |-> d + i] BY <4>5, <4>7
      <4> QED BY <4>8 DEF t, s
    <3> QED BY <2>1, <2>3, <3>5, <3>7
  <2> QED BY <2>2, <2>3
<1> HIDE DEF Is
<1>6. Goes(g0)
  <2>1. \A k \in 0..N : k # 0 => k \in 1..N /\ k - 1 \in 0..N BY <1>1
  <2>2. \A k \in 0..N : g0[k] = Is(k) OBVIOUS
  <2>3. \A k \in 0..N : Is(k) = IF k = 0 THEN <<>>
                               ELSE IF logHistory[k] <= since THEN g0[k - 1] ELSE Append(g0[k - 1], logHistory[k])
    BY <1>3, <1>5, <2>1, <2>2
  <2> HIDE DEF N
  <2> QED BY <2>3
<1>7. Goes(kept)
  <2> HIDE DEF Goes, g0
  <2> QED BY <1>6
<1> HIDE DEF kept, N
<1>8. kept[0] = Is(0) BY <1>1, <1>3, <1>7
<1>9. ASSUME NEW k \in 1..N, kept[k - 1] = Is(k - 1) PROVE kept[k] = Is(k)
  <2>1. k \in 0..N /\ k # 0 BY <1>1
  <2>2. kept[k] = IF logHistory[k] <= since THEN kept[k - 1] ELSE Append(kept[k - 1], logHistory[k])
    BY <1>7, <2>1
  <2> QED BY <1>5, <1>9, <2>2
<1> DEFINE T == {k \in 0..N : kept[k] = Is(k)}
<1>10. 0..N \subseteq T
  <2>1. 0 \in T BY <1>1, <1>8
  <2>2. ASSUME NEW k \in 0..N, k # N /\ k \in T PROVE k + 1 \in T
    <3>1. k + 1 \in 1..N /\ k + 1 \in 0..N /\ (k + 1) - 1 = k BY <1>1, <2>2
    <3> QED BY <1>9, <2>2, <3>1
  <2> HIDE DEF T
  <2> QED BY <1>1, <2>1, <2>2, InductionUpTo
<1>11. kept[N] = Is(N) BY <1>1, <1>10
<1>12. f + N = nextLogId - 1 BY <1>1 DEF f
<1>13. M(N) = Missing(since, N, nextLogId) BY <1>1, <1>12 DEF Missing, f
<1> HIDE DEF M
<1>14. Is(N) = [i \in 1..Missing(since, N, nextLogId) |-> ((nextLogId - 1) - Missing(since, N, nextLogId)) + i]
  BY <1>12, <1>13 DEF Is
<1> QED BY <1>2, <1>11, <1>14 DEF N, since

\* With more lines logged, or in the next process, what is in order stays so.
LEMMA LaterInOrder ==
  ASSUME NEW run, NEW next \in Nat, NEW p \in Seq(Line), NEW w \in Seq(Line), InOrderTo(run, next, p, w)
  PROVE  InOrderTo(run, next + 1, p, w)
<1>0. HistorySize \in Nat BY EventAssumption
<1>1. ASSUME NEW d \in Line, NEW e \in Line, FollowsAt(d, e, run, next) PROVE FollowsAt(d, e, run, next + 1)
  BY <1>0, <1>1 DEF FollowsAt, Line
<1>2. ASSUME NEW e \in Line, Behind(e, run, next) PROVE Behind(e, run, next + 1)
  BY <1>2 DEF Behind, Line
<1>3. Len(p) \in Nat /\ Len(w) \in Nat OBVIOUS
<1>4. \A i \in 1..Len(p) + Len(w) : i \in 0..Len(p) + Len(w) /\ i - 1 \in 0..Len(p) + Len(w) BY <1>3
<1>5. \A i \in 0..Len(p) + Len(w) : At(p, w, i) \in Line BY AtIsLine
<1>6. \A i \in 1..Len(p) + Len(w) : FollowsAt(At(p, w, i - 1), At(p, w, i), run, next + 1)
  BY <1>1, <1>4, <1>5 DEF InOrderTo
<1>7. \A i \in 0..Len(p) + Len(w) : Behind(At(p, w, i), run, next + 1) BY <1>2, <1>5 DEF InOrderTo
<1> QED BY <1>6, <1>7 DEF InOrderTo

LEMMA NextProcessInOrder ==
  ASSUME NEW run \in Nat, NEW next, NEW p \in Seq(Line), NEW w \in Seq(Line), InOrderTo(run, next, p, w)
  PROVE  InOrderTo(run + 1, 1, p, w)
<1>1. ASSUME NEW d \in Line, NEW e \in Line, FollowsAt(d, e, run, next), Behind(e, run, next)
      PROVE  FollowsAt(d, e, run + 1, 1)
  BY <1>1 DEF FollowsAt, Behind, Line
<1>2. ASSUME NEW e \in Line, Behind(e, run, next) PROVE Behind(e, run + 1, 1)
  BY <1>2 DEF Behind, Line
<1>3. Len(p) \in Nat /\ Len(w) \in Nat OBVIOUS
<1>4. \A i \in 1..Len(p) + Len(w) : i \in 0..Len(p) + Len(w) /\ i - 1 \in 0..Len(p) + Len(w) BY <1>3
<1>5. \A i \in 0..Len(p) + Len(w) : At(p, w, i) \in Line BY AtIsLine
<1>6. \A i \in 1..Len(p) + Len(w) : FollowsAt(At(p, w, i - 1), At(p, w, i), run + 1, 1)
  BY <1>1, <1>4, <1>5 DEF InOrderTo
<1>7. \A i \in 0..Len(p) + Len(w) : Behind(At(p, w, i), run + 1, 1) BY <1>2, <1>5 DEF InOrderTo
<1> QED BY <1>6, <1>7 DEF InOrderTo

\* What the last line of a browser says of the lines it has not got.
LEMMA LastBehind ==
  ASSUME NEW run, NEW next, NEW p \in Seq(Line), NEW w \in Seq(Line), InOrderTo(run, next, p, w)
  PROVE  /\ At(p, w, Len(p) + Len(w)) \in Line
         /\ Behind(At(p, w, Len(p) + Len(w)), run, next)
<1>1. Len(p) + Len(w) \in 0..Len(p) + Len(w)
  <2>1. Len(p) \in Nat /\ Len(w) \in Nat OBVIOUS
  <2> QED BY <2>1
<1> QED BY <1>1, AtIsLine DEF InOrderTo

\* A line that is logged, for a browser with a stream.
LEMMA LoggedInOrder ==
  ASSUME NEW run \in Nat \ {0}, NEW next \in Nat \ {0}, NEW p \in Seq(Line), NEW w \in Seq(Line),
         LogRight(run, next, p, w, TRUE, At(p, <<>>, Len(p)))
  PROVE  LogRight(run, next + 1, p, Append(w, Event(run, next)), TRUE, At(p, <<>>, Len(p)))
<1> DEFINE e == Event(run, next)
           d == At(p, w, Len(p) + Len(w))
<1>1. InOrderTo(run, next, p, w) /\ (next > 1 => d = Event(run, next - 1)) BY Zenon DEF LogRight
<1>2. InOrderTo(run, next + 1, p, w) BY <1>1, LaterInOrder
<1>3. d \in Line /\ Behind(d, run, next) BY <1>1, LastBehind
<1>4. e \in Line /\ e.run = run /\ e.id = next BY EventIsLine DEF Event
<1> HIDE DEF d, e
<1>5. FollowsAt(d, e, run, next + 1)
  <2>1. CASE next > 1
    <3>1. d.run = run /\ d.id = next - 1 BY <1>1, <2>1 DEF Event
    <3> QED BY <1>4, <3>1 DEF FollowsAt
  <2>2. CASE ~(next > 1)
    <3>1. next = 1 BY <2>2
    <3> QED BY <1>3, <1>4, <3>1 DEF FollowsAt, Behind, Line
  <2> QED BY <2>1, <2>2
<1>6. Behind(e, run, next + 1) BY <1>4 DEF Behind
<1>7. FollowsAt(At(p, w, Len(p) + Len(w)), e, run, next + 1) BY <1>5 DEF d
<1>8. /\ InOrderTo(run, next + 1, p, Append(w, e))
      /\ At(p, Append(w, e), Len(p) + Len(Append(w, e))) = e
  BY <1>2, <1>4, <1>6, <1>7, MoreOnWay
<1>9. (next + 1) - 1 = next OBVIOUS
<1> QED BY <1>8, <1>9 DEF LogRight, e

\* What a browser that connects is sent.
LEMMA ReplayInOrder ==
  ASSUME NEW run \in Nat \ {0}, NEW next \in Nat \ {0}, NEW p \in Seq(Line), NEW L \in Nat,
         L = IF next - 1 < HistorySize THEN next - 1 ELSE HistorySize,
         InOrderTo(run, next, p, <<>>)
  PROVE  LET last == At(p, <<>>, Len(p))
             since == IF last.run = run THEN last.id ELSE 0
             c == Missing(since, L, next)
             w == [i \in 1..c |-> Event(run, ((next - 1) - c) + i)]
         IN  w \in Seq(Line) /\ LogRight(run, next, p, w, TRUE, last)
<1> DEFINE last == At(p, <<>>, Len(p))
           since == IF last.run = run THEN last.id ELSE 0
           c == Missing(since, L, next)
           w == [i \in 1..c |-> Event(run, ((next - 1) - c) + i)]
           n == Len(p)
<1>0. HistorySize \in Nat \ {0} BY EventAssumption
<1>1. n \in Nat /\ n + Len(<<>>) = n OBVIOUS
<1>2. last \in Line /\ Behind(last, run, next)
  <2>1. <<>> \in Seq(Line) OBVIOUS
  <2>2. At(p, <<>>, n + Len(<<>>)) \in Line /\ Behind(At(p, <<>>, n + Len(<<>>)), run, next)
    BY <2>1, LastBehind
  <2> HIDE DEF n
  <2> QED BY <1>1, <2>2 DEF n
<1> HIDE DEF last, n
<1>3. since \in Nat /\ since <= next - 1 /\ last.run \in Nat /\ last.id \in Nat BY <1>2 DEF Behind, Line
<1> HIDE DEF since
<1>4. c \in Nat /\ c <= next - 1 /\ c <= L /\ (since < next - 1 => c >= 1)
  BY <1>0, <1>3 DEF Missing
<1>5. c >= 1 => since < next - c /\ (next - c = since + 1 \/ (next - c) + HistorySize <= next)
  BY <1>0, <1>3 DEF Missing
<1> HIDE DEF c
<1>6. \A i \in 1..c : ((next - 1) - c) + i \in Nat BY <1>4
<1>7. w \in Seq(Line) /\ Len(w) = c /\ \A i \in 1..c : w[i] = Event(run, ((next - 1) - c) + i)
  BY <1>4, <1>6, EventIsLine
<1> HIDE DEF w
<1>8. \A i \in 0..n : At(p, w, i) = At(p, <<>>, i) BY <1>1 DEF At, n
<1>9. ASSUME NEW i \in 1..c PROVE At(p, w, n + i) = Event(run, ((next - 1) - c) + i)
  <2>1. n + i # 0 /\ ~(n + i <= n) /\ (n + i) - n = i BY <1>1, <1>4
  <2> QED BY <1>7, <2>1 DEF At, n
<1>10. ASSUME NEW i \in 1..n PROVE FollowsAt(At(p, w, i - 1), At(p, w, i), run, next)
  <2>1. i \in 0..n /\ i - 1 \in 0..n BY <1>1
  <2>2. FollowsAt(At(p, <<>>, i - 1), At(p, <<>>, i), run, next) BY <1>1 DEF InOrderTo, n
  <2> QED BY <1>8, <2>1, <2>2
<1>11. At(p, w, n) = last
  <2>1. n \in 0..n BY <1>1
  <2> QED BY <1>8, <2>1 DEF last, n
<1>12. ASSUME NEW i \in 1..c PROVE FollowsAt(At(p, w, n + (i - 1)), At(p, w, n + i), run, next)
  <2> DEFINE e == At(p, w, n + i)
             d == At(p, w, n + (i - 1))
  <2>0. e = Event(run, ((next - 1) - c) + i) BY <1>9
  <2>1. e.run = run /\ e.id = ((next - 1) - c) + i
    <3> HIDE DEF e
    <3> QED BY <2>0 DEF Event
  <2>2. CASE i = 1
    <3>1. d = last BY <1>1, <1>11, <2>2
    <3>2. e.id = next - c /\ c >= 1 BY <1>4, <2>1, <2>2
    <3>3. since < e.id /\ (e.id = since + 1 \/ e.id + HistorySize <= next) BY <1>5, <3>2
    <3> HIDE DEF e, d
    <3>4. d.run <= run BY <1>2, <3>1 DEF Behind
    <3>5. since = IF d.run = e.run THEN d.id ELSE 0 BY <2>1, <3>1 DEF since
    <3>6. FollowsAt(d, e, run, next) BY <2>1, <3>3, <3>4, <3>5 DEF FollowsAt
    <3> QED BY <3>6 DEF d, e
  <2>3. CASE i # 1
    <3>1. i - 1 \in 1..c BY <1>4, <2>3
    <3>0. d = Event(run, ((next - 1) - c) + (i - 1)) BY <1>9, <3>1
    <3>2. d.run = run /\ d.id = ((next - 1) - c) + (i - 1)
      <4> HIDE DEF d
      <4> QED BY <3>0 DEF Event
    <3>3. d.id < e.id /\ e.id = d.id + 1
      <4> HIDE DEF e, d
      <4> QED BY <1>4, <2>1, <3>2
    <3> HIDE DEF e, d
    <3>4. d.id + 1 = e.id /\ d.run <= e.run BY <2>1, <3>2, <3>3
    <3>5. FollowsAt(d, e, run, next) BY <2>1, <3>2, <3>3, <3>4 DEF FollowsAt
    <3> QED BY <3>5 DEF d, e
  <2> QED BY <2>2, <2>3
<1>13. ASSUME NEW i \in 1..n + c PROVE FollowsAt(At(p, w, i - 1), At(p, w, i), run, next)
  <2>1. CASE i <= n
    <3>1. i \in 1..n BY <1>1, <2>1
    <3> QED BY <1>10, <3>1
  <2>2. CASE ~(i <= n)
    <3>1. i - n \in 1..c /\ n + (i - n) = i /\ n + ((i - n) - 1) = i - 1 BY <1>1, <1>4, <2>2
    <3>2. FollowsAt(At(p, w, n + ((i - n) - 1)), At(p, w, n + (i - n)), run, next) BY <1>12, <3>1
    <3> QED BY <3>1, <3>2
  <2> QED BY <2>1, <2>2
<1>14. ASSUME NEW i \in 0..n + c PROVE Behind(At(p, w, i), run, next)
  <2>1. CASE i <= n
    <3>1. i \in 0..n BY <1>1, <2>1
    <3>2. Behind(At(p, <<>>, i), run, next) BY <1>1, <3>1 DEF InOrderTo, n
    <3> QED BY <1>8, <3>1, <3>2
  <2>2. CASE ~(i <= n)
    <3>1. i - n \in 1..c /\ n + (i - n) = i BY <1>1, <1>4, <2>2
    <3>2. At(p, w, i) = Event(run, ((next - 1) - c) + (i - n))
      <4>1. At(p, w, n + (i - n)) = Event(run, ((next - 1) - c) + (i - n)) BY <1>9, <3>1
      <4> QED BY <3>1, <4>1
    <3>3. ((next - 1) - c) + (i - n) < next BY <1>1, <1>4, <3>1
    <3> QED BY <3>2, <3>3 DEF Behind, Event
  <2> QED BY <2>1, <2>2
<1>15. InOrderTo(run, next, p, w) BY <1>7, <1>13, <1>14 DEF InOrderTo, n
<1>16. ASSUME next > 1 PROVE At(p, w, n + c) = Event(run, next - 1)
  <2>1. CASE c = 0
    <3>1. since = next - 1 /\ since # 0 BY <1>3, <1>4, <1>16, <2>1
    <3>2. last.run = run /\ last.id = next - 1 BY <3>1 DEF since
    <3>3. last = Event(run, next - 1) BY <1>2, <3>2 DEF Line, Event
    <3>4. n + c = n BY <1>1, <2>1
    <3> QED BY <1>11, <3>3, <3>4
  <2>2. CASE c # 0
    <3>1. c \in 1..c /\ ((next - 1) - c) + c = next - 1 BY <1>4, <2>2
    <3>2. At(p, w, n + c) = Event(run, ((next - 1) - c) + c) BY <1>9, <3>1
    <3> QED BY <3>1, <3>2
  <2> QED BY <2>1, <2>2
<1>17. LogRight(run, next, p, w, TRUE, last) BY <1>7, <1>15, <1>16 DEF LogRight, last, n
<1> QED BY <1>7, <1>17 DEF w, c, since, last

-----------------------------------------------------------------------------
(* Init and the actions.                                                   *)

Browser(b) == LogRight(runId, nextLogId, pane[b], OnWay(stream[b]), stream[b] # NoStream, lastEvent[b])

LEMMA EventStarts == EventInit => EventInv
<1> SUFFICES ASSUME EventInit PROVE EventInv OBVIOUS
<1>0. HistorySize \in Nat \ {0} BY EventAssumption
<1>1. runId = 1 /\ nextLogId = 1 /\ logHistory = <<>> BY DEF EventInit
<1>2. HistoryRight(logHistory, nextLogId)
  <2>1. logHistory \in Seq(Nat) /\ Len(logHistory) = 0 BY <1>1
  <2> QED BY <1>0, <1>1, <2>1 DEF HistoryRight
<1>3. /\ stream \in [Browsers -> Seq(Line) \cup {NoStream}]
      /\ lastEvent \in [Browsers -> Line] /\ pane \in [Browsers -> Seq(Line)]
  BY EventIsLine DEF EventInit
<1>4. ASSUME NEW b \in Browsers PROVE Browser(b)
  <2>1. pane[b] = <<>> /\ OnWay(stream[b]) = <<>> /\ lastEvent[b] = NoEvent /\ stream[b] = NoStream
    BY DEF EventInit, OnWay
  <2>2. LogRight(1, 1, <<>>, <<>>, FALSE, NoEvent)
    <3>1. Len(<<>>) = 0 /\ 0 + 0 = 0 OBVIOUS
    <3>2. \A i \in 0..0 : i = 0 OBVIOUS
    <3>3. InOrderTo(1, 1, <<>>, <<>>) BY <3>1, <3>2 DEF InOrderTo, At, Behind, NoEvent
    <3> QED BY <3>1, <3>3 DEF LogRight, At
  <2> QED BY <1>1, <2>1, <2>2 DEF Browser
<1> QED BY <1>1, <1>2, <1>3, <1>4 DEF EventInv, Browser

LEMMA BrowserParts ==
  ASSUME EventInv, NEW b \in Browsers
  PROVE  /\ Browser(b) /\ pane[b] \in Seq(Line) /\ lastEvent[b] \in Line
         /\ OnWay(stream[b]) \in Seq(Line)
         /\ lastEvent[b] = At(pane[b], <<>>, Len(pane[b]))
         /\ InOrderTo(runId, nextLogId, pane[b], OnWay(stream[b]))
         /\ InOrderTo(runId, nextLogId, pane[b], <<>>)
<1>1. Browser(b) /\ pane[b] \in Seq(Line) /\ lastEvent[b] \in Line /\ stream[b] \in Seq(Line) \cup {NoStream}
  BY DEF EventInv, Browser
<1>2. OnWay(stream[b]) \in Seq(Line) BY <1>1, WayIsSeq
<1>3. /\ lastEvent[b] = At(pane[b], <<>>, Len(pane[b]))
      /\ InOrderTo(runId, nextLogId, pane[b], OnWay(stream[b]))
  BY <1>1 DEF Browser, LogRight
<1> QED BY <1>1, <1>2, <1>3, LessOnWay

\* A browser without a stream.
LEMMA WithoutStream ==
  ASSUME NEW run, NEW next, NEW p \in Seq(Line), NEW last, last = At(p, <<>>, Len(p)), InOrderTo(run, next, p, <<>>)
  PROVE  LogRight(run, next, p, OnWay(NoStream), NoStream # NoStream, last)
  BY DEF LogRight, OnWay

LEMMA LogMessageStays == EventInv /\ LogMessage => EventInv'
<1> SUFFICES ASSUME EventInv, LogMessage PROVE EventInv' OBVIOUS
<1>0. HistorySize \in Nat \ {0} /\ NoStream \notin Seq(Line) BY EventAssumption DEF Line
<1>1. /\ runId \in Nat \ {0} /\ nextLogId \in Nat \ {0} /\ nextLogId' = nextLogId + 1
      /\ UNCHANGED <<runId, lastEvent, pane>>
      /\ stream' = [b \in Browsers |-> IF stream[b] = NoStream THEN NoStream ELSE Append(stream[b], Event(runId, nextLogId))]
      /\ HistoryRight(logHistory, nextLogId)
      /\ logHistory' = IF Len(Append(logHistory, nextLogId)) > HistorySize THEN Tail(Append(logHistory, nextLogId))
                       ELSE Append(logHistory, nextLogId)
      /\ lastEvent \in [Browsers -> Line] /\ pane \in [Browsers -> Seq(Line)]
      /\ stream \in [Browsers -> Seq(Line) \cup {NoStream}]
  BY DEF EventInv, LogMessage, SendEvents
<1> DEFINE h == logHistory
           L == Len(h)
           a == Append(h, nextLogId)
<1>2. HistoryRight(logHistory', nextLogId')
  <2>1. /\ h \in Seq(Nat) /\ L \in Nat
        /\ (L = IF nextLogId - 1 < HistorySize THEN nextLogId - 1 ELSE HistorySize)
        /\ \A i \in 1..L : h[i] = ((nextLogId - 1) - L) + i
    BY <1>1 DEF HistoryRight
  <2>2. a \in Seq(Nat) /\ Len(a) = L + 1 /\ a[L + 1] = nextLogId /\ \A i \in 1..L : a[i] = h[i] BY <1>1, <2>1
  <2> HIDE DEF a, L, h
  <2>3. ASSUME NEW i \in 1..L + 1 PROVE a[i] = (nextLogId - (L + 1)) + i
    <3>1. CASE i = L + 1
      <4>1. (nextLogId - (L + 1)) + (L + 1) = nextLogId BY <1>1, <2>1
      <4> QED BY <2>2, <3>1, <4>1
    <3>2. CASE i # L + 1
      <4>1. i \in 1..L BY <2>1, <3>2
      <4>2. a[i] = ((nextLogId - 1) - L) + i BY <2>1, <2>2, <4>1
      <4> QED BY <1>1, <2>1, <4>2
    <3> QED BY <3>1, <3>2
  <2>4. CASE L + 1 > HistorySize
    <3>1. logHistory' = Tail(a) BY <1>1, <2>2, <2>4 DEF a, h
    <3>2. L = HistorySize /\ HistorySize <= nextLogId - 1 BY <1>0, <1>1, <2>1, <2>4
    <3>3. Tail(a) \in Seq(Nat) /\ Len(Tail(a)) = L /\ \A i \in 1..L : Tail(a)[i] = a[i + 1]
      <4>1. a # <<>> /\ (L + 1) - 1 = L BY <2>1, <2>2
      <4>2. Tail(a) \in Seq(Nat) /\ Len(Tail(a)) = Len(a) - 1 BY <2>2, <4>1
      <4>3. \A i \in 1..Len(a) - 1 : Tail(a)[i] = a[i + 1] BY <2>2, <4>1
      <4> QED BY <2>2, <4>1, <4>2, <4>3
    <3> DEFINE t == Tail(a)
    <3> HIDE DEF t
    <3>4. ASSUME NEW i \in 1..L PROVE t[i] = (nextLogId - L) + i
      <4>1. i + 1 \in 1..L + 1 BY <2>1
      <4>2. t[i] = (nextLogId - (L + 1)) + (i + 1) BY <2>3, <3>3, <4>1 DEF t
      <4>3. (nextLogId - (L + 1)) + (i + 1) = (nextLogId - L) + i
        <5>1. i \in Nat /\ L \in Nat /\ nextLogId \in Nat BY <1>1, <2>1
        <5>2. \A x, y, z \in Nat : (x - (y + 1)) + (z + 1) = (x - y) + z OBVIOUS
        <5> QED BY <5>1, <5>2
      <4> QED BY <4>2, <4>3
    <3>5. t \in Seq(Nat) /\ Len(t) = L BY <3>3 DEF t
    <3>6. (nextLogId + 1) - 1 = nextLogId /\ ~(nextLogId < HistorySize) BY <1>0, <1>1, <3>2
    <3>7. HistoryRight(t, nextLogId + 1) BY <3>2, <3>4, <3>5, <3>6 DEF HistoryRight
    <3> QED BY <1>1, <3>1, <3>7 DEF t
  <2>5. CASE ~(L + 1 > HistorySize)
    <3>1. logHistory' = a BY <1>1, <2>2, <2>5 DEF a, h
    <3>2. L = nextLogId - 1 /\ L + 1 = nextLogId /\ (nextLogId + 1) - 1 = nextLogId BY <1>0, <1>1, <2>1, <2>5
    <3>3. Len(a) = IF nextLogId < HistorySize THEN nextLogId ELSE HistorySize BY <1>0, <1>1, <2>2, <2>5, <3>2
    <3>4. \A i \in 1..Len(a) : a[i] = (nextLogId - Len(a)) + i BY <2>2, <2>3
    <3>5. HistoryRight(a, nextLogId + 1) BY <2>2, <3>2, <3>3, <3>4 DEF HistoryRight
    <3> QED BY <1>1, <3>1, <3>5
  <2> QED BY <2>4, <2>5
<1>3. Event(runId, nextLogId) \in Line BY <1>1, EventIsLine
<1>4. stream' \in [Browsers -> Seq(Line) \cup {NoStream}] BY <1>1, <1>3
<1>5. ASSUME NEW b \in Browsers PROVE Browser(b)'
  <2>1. /\ Browser(b) /\ pane[b] \in Seq(Line) /\ OnWay(stream[b]) \in Seq(Line)
        /\ lastEvent[b] = At(pane[b], <<>>, Len(pane[b]))
        /\ InOrderTo(runId, nextLogId, pane[b], <<>>)
    BY BrowserParts
  <2>2. CASE stream[b] = NoStream
    <3>1. <<>> \in Seq(Line) OBVIOUS
    <3>2. InOrderTo(runId, nextLogId + 1, pane[b], <<>>) BY <1>1, <2>1, <3>1, LaterInOrder
    <3>3. LogRight(runId, nextLogId + 1, pane[b], OnWay(NoStream), NoStream # NoStream, lastEvent[b])
      BY <2>1, <3>2, WithoutStream
    <3>4. stream'[b] = NoStream BY <1>1, <2>2
    <3> QED BY <1>1, <3>3, <3>4 DEF Browser
  <2>3. CASE stream[b] # NoStream
    <3>1. stream[b] \in Seq(Line) /\ OnWay(stream[b]) = stream[b] BY <1>1, <2>3 DEF OnWay
    <3>2. stream'[b] = Append(stream[b], Event(runId, nextLogId)) /\ stream'[b] \in Seq(Line) BY <1>1, <1>3, <2>3, <3>1
    <3>3. stream'[b] # NoStream /\ OnWay(stream'[b]) = stream'[b] BY <1>0, <3>2 DEF OnWay
    <3>4. LogRight(runId, nextLogId, pane[b], stream[b], TRUE, At(pane[b], <<>>, Len(pane[b])))
      BY <2>1, <2>3, <3>1 DEF Browser
    <3>5. LogRight(runId, nextLogId + 1, pane[b], stream'[b], TRUE, lastEvent[b])
      BY <1>1, <2>1, <3>1, <3>2, <3>4, LoggedInOrder
    <3> QED BY <1>1, <3>3, <3>5 DEF Browser
  <2> QED BY <2>2, <2>3
<1>6. runId' \in Nat \ {0} /\ nextLogId' \in Nat \ {0} BY <1>1
<1> QED BY <1>1, <1>2, <1>4, <1>5, <1>6 DEF EventInv, Browser

LEMMA NewProcessStays == EventInv /\ NewProcess => EventInv'
<1> SUFFICES ASSUME EventInv, NewProcess PROVE EventInv' OBVIOUS
<1>0. HistorySize \in Nat \ {0} BY EventAssumption
<1>1. /\ runId \in Nat \ {0} /\ runId' = runId + 1 /\ nextLogId' = 1 /\ logHistory' = <<>>
      /\ stream' = [b \in Browsers |-> NoStream] /\ UNCHANGED <<lastEvent, pane>>
      /\ lastEvent \in [Browsers -> Line] /\ pane \in [Browsers -> Seq(Line)]
  BY DEF EventInv, NewProcess
<1>2. HistoryRight(<<>>, 1)
  <2>1. <<>> \in Seq(Nat) /\ Len(<<>>) = 0 OBVIOUS
  <2> QED BY <1>0, <2>1 DEF HistoryRight
<1>3. ASSUME NEW b \in Browsers PROVE Browser(b)'
  <2>1. pane[b] \in Seq(Line) /\ lastEvent[b] = At(pane[b], <<>>, Len(pane[b])) /\ <<>> \in Seq(Line)
        /\ InOrderTo(runId, nextLogId, pane[b], <<>>)
    BY BrowserParts
  <2>2. InOrderTo(runId + 1, 1, pane[b], <<>>) BY <1>1, <2>1, NextProcessInOrder
  <2>3. LogRight(runId + 1, 1, pane[b], OnWay(NoStream), NoStream # NoStream, lastEvent[b])
    BY <2>1, <2>2, WithoutStream
  <2>4. stream'[b] = NoStream BY <1>1
  <2> QED BY <1>1, <2>3, <2>4 DEF Browser
<1>4. runId' \in Nat \ {0} /\ nextLogId' \in Nat \ {0} BY <1>1
<1> QED BY <1>1, <1>2, <1>3, <1>4 DEF EventInv, Browser

\* A step of one browser: the log itself and the others are left alone.
LEMMA BrowserStays ==
  ASSUME EventInv, NEW b \in Browsers, UNCHANGED <<runId, nextLogId, logHistory>>,
         NEW s \in Seq(Line) \cup {NoStream}, NEW l \in Line, NEW p \in Seq(Line),
         stream' = [stream EXCEPT ![b] = s], lastEvent' = [lastEvent EXCEPT ![b] = l],
         pane' = [pane EXCEPT ![b] = p],
         LogRight(runId, nextLogId, p, OnWay(s), s # NoStream, l)
  PROVE  EventInv'
<1>1. /\ runId \in Nat \ {0} /\ nextLogId \in Nat \ {0} /\ HistoryRight(logHistory, nextLogId)
      /\ lastEvent \in [Browsers -> Line] /\ pane \in [Browsers -> Seq(Line)]
      /\ stream \in [Browsers -> Seq(Line) \cup {NoStream}]
  BY DEF EventInv
<1>2. /\ lastEvent' \in [Browsers -> Line] /\ pane' \in [Browsers -> Seq(Line)]
      /\ stream' \in [Browsers -> Seq(Line) \cup {NoStream}]
  BY <1>1
<1>3. ASSUME NEW c \in Browsers PROVE Browser(c)'
  <2>1. CASE c = b
    <3>1. stream'[c] = s /\ lastEvent'[c] = l /\ pane'[c] = p BY <1>1, <2>1
    <3> QED BY <3>1 DEF Browser
  <2>2. CASE c # b
    <3>1. stream'[c] = stream[c] /\ lastEvent'[c] = lastEvent[c] /\ pane'[c] = pane[c] BY <1>1, <2>2
    <3>2. Browser(c) BY BrowserParts
    <3> QED BY <3>1, <3>2 DEF Browser
  <2> QED BY <2>1, <2>2
<1> QED BY <1>1, <1>2, <1>3 DEF EventInv, Browser

LEMMA BeginStays == ASSUME NEW b \in Browsers PROVE EventInv /\ BeginEventStream(b) => EventInv'
<1> SUFFICES ASSUME EventInv, BeginEventStream(b) PROVE EventInv' OBVIOUS
<1>0. NoStream \notin Seq(Line) BY EventAssumption DEF Line
<1>1. /\ pane[b] \in Seq(Line) /\ lastEvent[b] \in Line /\ lastEvent[b] = At(pane[b], <<>>, Len(pane[b]))
      /\ InOrderTo(runId, nextLogId, pane[b], <<>>)
  BY BrowserParts
<1>2. /\ runId \in Nat \ {0} /\ nextLogId \in Nat \ {0} /\ HistoryRight(logHistory, nextLogId)
      /\ lastEvent \in [Browsers -> Line] /\ pane \in [Browsers -> Seq(Line)]
  BY DEF EventInv
<1> DEFINE L == Len(logHistory)
           last == At(pane[b], <<>>, Len(pane[b]))
           since == IF last.run = runId THEN last.id ELSE 0
           c == Missing(since, L, nextLogId)
           resent == Replayed(lastEvent[b])
           w == [i \in 1..c |-> Event(runId, ((nextLogId - 1) - c) + i)]
<1>3. L \in Nat /\ (L = IF nextLogId - 1 < HistorySize THEN nextLogId - 1 ELSE HistorySize)
  BY <1>2 DEF HistoryRight
<1>4. resent = [i \in 1..c |-> ((nextLogId - 1) - c) + i] BY <1>1, ReplayedIs
<1>5. w \in Seq(Line) /\ LogRight(runId, nextLogId, pane[b], w, TRUE, last)
  <2>1. pane[b] \in Seq(Line) /\ InOrderTo(runId, nextLogId, pane[b], <<>>) BY <1>1
  <2>2. runId \in Nat \ {0} /\ nextLogId \in Nat \ {0} BY <1>2
  <2> HIDE DEF L
  <2> QED BY <1>3, <2>1, <2>2, ReplayInOrder
<1>6. stream' = [stream EXCEPT ![b] = [i \in DOMAIN resent |-> Event(runId, resent[i])]]
      /\ UNCHANGED <<runId, nextLogId, logHistory, lastEvent, pane>>
  BY DEF BeginEventStream
<1> HIDE DEF c, resent
<1>7. [i \in DOMAIN resent |-> Event(runId, resent[i])] = w BY <1>4
<1> HIDE DEF w
<1>8. stream' = [stream EXCEPT ![b] = w] BY <1>6, <1>7
<1>9. w \in Seq(Line) \cup {NoStream} /\ OnWay(w) = w /\ w # NoStream BY <1>0, <1>5 DEF OnWay
<1>10. LogRight(runId, nextLogId, pane[b], OnWay(w), w # NoStream, lastEvent[b]) BY <1>1, <1>5, <1>9
<1>11. lastEvent' = [lastEvent EXCEPT ![b] = lastEvent[b]] /\ pane' = [pane EXCEPT ![b] = pane[b]] BY <1>2, <1>6
<1> QED BY <1>1, <1>6, <1>8, <1>9, <1>10, <1>11, BrowserStays

LEMMA AppendLogStays == ASSUME NEW b \in Browsers PROVE EventInv /\ AppendLog(b) => EventInv'
<1> SUFFICES ASSUME EventInv, AppendLog(b) PROVE EventInv' OBVIOUS
<1>0. NoStream \notin Seq(Line) BY EventAssumption DEF Line
<1> DEFINE p == pane[b]
           w == stream[b]
<1>1. /\ p \in Seq(Line) /\ InOrderTo(runId, nextLogId, p, OnWay(w)) /\ Browser(b)
      /\ w \in Seq(Line) \cup {NoStream}
  BY BrowserParts DEF EventInv
<1>2. /\ w # NoStream /\ w # <<>> /\ UNCHANGED <<runId, nextLogId, logHistory>>
      /\ lastEvent' = [lastEvent EXCEPT ![b] = Head(w)]
      /\ pane' = [pane EXCEPT ![b] = Append(p, Head(w))]
      /\ stream' = [stream EXCEPT ![b] = Tail(w)]
  BY DEF AppendLog
<1>3. w \in Seq(Line) /\ OnWay(w) = w BY <1>1, <1>2 DEF OnWay
<1>4. /\ InOrderTo(runId, nextLogId, p, w)
      /\ nextLogId > 1 => At(p, w, Len(p) + Len(w)) = Event(runId, nextLogId - 1)
  <2>1. LogRight(runId, nextLogId, p, w, TRUE, lastEvent[b]) BY <1>1, <1>2, <1>3 DEF Browser
  <2> QED BY <2>1 DEF LogRight
<1> DEFINE q == Append(p, Head(w))
           t == Tail(w)
<1>5. q \in Seq(Line) /\ t \in Seq(Line) /\ Head(w) \in Line
  <2> HIDE DEF p, w
  <2> QED BY <1>1, <1>2, <1>3
<1>6. /\ InOrderTo(runId, nextLogId, q, t)
      /\ Len(q) + Len(t) = Len(p) + Len(w)
      /\ \A i \in 0..Len(p) + Len(w) : At(q, t, i) = At(p, w, i)
      /\ At(q, <<>>, Len(q)) = Head(w)
  <2> HIDE DEF p, w
  <2> QED BY <1>1, <1>2, <1>3, <1>4, Shown
<1>7. Len(p) + Len(w) \in 0..Len(p) + Len(w)
  <2>1. Len(p) \in Nat /\ Len(w) \in Nat BY <1>1, <1>3
  <2> HIDE DEF p, w
  <2>2. Len(p) + Len(w) \in Nat BY <2>1
  <2>3. \A k \in Nat : k \in 0..k OBVIOUS
  <2> QED BY <2>2, <2>3
<1>8. nextLogId > 1 => At(q, t, Len(q) + Len(t)) = Event(runId, nextLogId - 1) BY <1>4, <1>6, <1>7
<1>9. t \in Seq(Line) \cup {NoStream} /\ OnWay(t) = t /\ t # NoStream BY <1>0, <1>5 DEF OnWay
<1>10. LogRight(runId, nextLogId, q, OnWay(t), t # NoStream, Head(w))
  <2> HIDE DEF q, t
  <2> QED BY <1>6, <1>8, <1>9 DEF LogRight
<1> HIDE DEF q, t, p, w
<1>11. pane' = [pane EXCEPT ![b] = q] /\ stream' = [stream EXCEPT ![b] = t] BY <1>2 DEF q, t
<1> QED BY <1>2, <1>5, <1>9, <1>10, <1>11, BrowserStays

LEMMA BreakStreamStays == ASSUME NEW b \in Browsers PROVE EventInv /\ BreakStream(b) => EventInv'
<1> SUFFICES ASSUME EventInv, BreakStream(b) PROVE EventInv' OBVIOUS
<1>1. /\ pane[b] \in Seq(Line) /\ lastEvent[b] \in Line /\ lastEvent[b] = At(pane[b], <<>>, Len(pane[b]))
      /\ InOrderTo(runId, nextLogId, pane[b], <<>>)
  BY BrowserParts
<1>2. lastEvent \in [Browsers -> Line] /\ pane \in [Browsers -> Seq(Line)] BY DEF EventInv
<1>3. stream' = [stream EXCEPT ![b] = NoStream] /\ UNCHANGED <<runId, nextLogId, logHistory, lastEvent, pane>>
  BY DEF BreakStream
<1>4. lastEvent' = [lastEvent EXCEPT ![b] = lastEvent[b]] /\ pane' = [pane EXCEPT ![b] = pane[b]] BY <1>2, <1>3
<1>5. LogRight(runId, nextLogId, pane[b], OnWay(NoStream), NoStream # NoStream, lastEvent[b])
  BY <1>1, WithoutStream
<1>6. NoStream \in Seq(Line) \cup {NoStream} OBVIOUS
<1> QED BY <1>1, <1>3, <1>4, <1>5, <1>6, BrowserStays

LEMMA LoadPageStays == ASSUME NEW b \in Browsers PROVE EventInv /\ LoadPage(b) => EventInv'
<1> SUFFICES ASSUME EventInv, LoadPage(b) PROVE EventInv' OBVIOUS
<1>0. runId \in Nat \ {0} BY DEF EventInv
<1>1. /\ stream' = [stream EXCEPT ![b] = NoStream] /\ lastEvent' = [lastEvent EXCEPT ![b] = NoEvent]
      /\ pane' = [pane EXCEPT ![b] = <<>>] /\ UNCHANGED <<runId, nextLogId, logHistory>>
  BY DEF LoadPage
<1>2. <<>> \in Seq(Line) /\ NoEvent \in Line /\ NoEvent = At(<<>>, <<>>, Len(<<>>))
      /\ NoStream \in Seq(Line) \cup {NoStream}
  <2>1. Len(<<>>) = 0 OBVIOUS
  <2> QED BY <2>1, EventIsLine DEF At
<1>3. InOrderTo(runId, nextLogId, <<>>, <<>>)
  <2>1. Len(<<>>) = 0 /\ 0 + 0 = 0 OBVIOUS
  <2>2. \A i \in 0..0 : i = 0 OBVIOUS
  <2> QED BY <1>0, <2>1, <2>2 DEF InOrderTo, At, Behind, NoEvent
<1>4. LogRight(runId, nextLogId, <<>>, OnWay(NoStream), NoStream # NoStream, NoEvent)
  BY <1>2, <1>3, WithoutStream
<1> QED BY <1>1, <1>2, <1>4, BrowserStays

LEMMA EventStays == EventInv /\ [EventNext]_eventVars => EventInv'
<1> SUFFICES ASSUME EventInv, [EventNext]_eventVars PROVE EventInv' OBVIOUS
<1>1. CASE LogMessage BY <1>1, LogMessageStays
<1>2. CASE NewProcess BY <1>2, NewProcessStays
<1>3. ASSUME NEW b \in Browsers, BeginEventStream(b) PROVE EventInv' BY <1>3, BeginStays
<1>4. ASSUME NEW b \in Browsers, AppendLog(b) PROVE EventInv' BY <1>4, AppendLogStays
<1>5. ASSUME NEW b \in Browsers, BreakStream(b) PROVE EventInv' BY <1>5, BreakStreamStays
<1>6. ASSUME NEW b \in Browsers, LoadPage(b) PROVE EventInv' BY <1>6, LoadPageStays
<1>7. CASE UNCHANGED eventVars BY <1>7 DEF eventVars, EventInv
<1> QED BY <1>1, <1>2, <1>3, <1>4, <1>5, <1>6, <1>7 DEF EventNext

\* The lines as the property counts them, from 1.
LEMMA InvFollows == EventInv => LogFollows
<1> SUFFICES ASSUME EventInv, NEW b \in Browsers
             PROVE  LET wire == IF stream[b] = NoStream THEN <<>> ELSE stream[b]
                        lines == <<NoEvent>> \o pane[b] \o wire
                    IN /\ \A i \in 1..Len(lines) - 1 : Follows(lines[i], lines[i + 1])
                       /\ stream[b] # NoStream /\ nextLogId > 1 => Last(lines) = Event(runId, nextLogId - 1)
  BY DEF LogFollows
<1> DEFINE p == pane[b]
           w == OnWay(stream[b])
           lines == <<NoEvent>> \o p \o w
           n == Len(p)
           m == Len(w)
<1>1. /\ p \in Seq(Line) /\ w \in Seq(Line) /\ InOrderTo(runId, nextLogId, p, w)
      /\ (stream[b] # NoStream /\ nextLogId > 1) => At(p, w, n + m) = Event(runId, nextLogId - 1)
  <2>1. Browser(b) /\ p \in Seq(Line) /\ w \in Seq(Line) BY BrowserParts
  <2> QED BY <2>1 DEF Browser, LogRight
<1> HIDE DEF p, w
<1>2. n \in Nat /\ m \in Nat BY <1>1
<1>3. lines \in Seq(Line) /\ Len(lines) = (n + m) + 1 /\ \A i \in 0..n + m : lines[i + 1] = At(p, w, i)
  <2> DEFINE one == <<NoEvent>>
             front == one \o p
  <2>1. one \in Seq(Line) /\ Len(one) = 1 /\ one[1] = NoEvent BY EventIsLine
  <2> HIDE DEF one
  <2>2. front \in Seq(Line) /\ Len(front) = 1 + n
        /\ \A i \in 1..1 + n : front[i] = IF i <= 1 THEN one[i] ELSE p[i - 1]
    <3>1. front \in Seq(Line) /\ Len(front) = Len(one) + Len(p)
          /\ \A i \in 1..Len(one) + Len(p) : front[i] = IF i <= Len(one) THEN one[i] ELSE p[i - Len(one)]
      <4>1. one \in Seq(Line) /\ p \in Seq(Line) BY <1>1, <2>1
      <4> QED BY <4>1, ConcatProperties
    <3> QED BY <2>1, <3>1
  <2>6. lines = front \o w BY DEF one
  <2> HIDE DEF front, lines
  <2>3. lines \in Seq(Line) /\ Len(lines) = (1 + n) + m
        /\ \A i \in 1..(1 + n) + m : lines[i] = IF i <= 1 + n THEN front[i] ELSE w[i - (1 + n)]
    <3>1. front \o w \in Seq(Line) /\ Len(front \o w) = Len(front) + Len(w)
          /\ \A i \in 1..Len(front) + Len(w) :
               (front \o w)[i] = IF i <= Len(front) THEN front[i] ELSE w[i - Len(front)]
      <4>1. front \in Seq(Line) /\ w \in Seq(Line) BY <1>1, <2>2
      <4> QED BY <4>1, ConcatProperties
    <3> QED BY <2>2, <2>6, <3>1
  <2>4. (1 + n) + m = (n + m) + 1 BY <1>2
  <2>5. ASSUME NEW i \in 0..n + m PROVE lines[i + 1] = At(p, w, i)
    <3>1. i + 1 \in 1..(1 + n) + m /\ (i + 1) - 1 = i /\ (i + 1) - (1 + n) = i - n
      BY <1>2
    <3>2. CASE i = 0
      <4>1. lines[1] = front[1] /\ front[1] = one[1] /\ i + 1 = 1
        <5>1. 1 \in 1..(1 + n) + m /\ 1 <= 1 + n /\ 1 \in 1..1 + n BY <1>2
        <5> QED BY <2>2, <2>3, <3>2, <5>1
      <4> QED BY <2>1, <3>2, <4>1 DEF At
    <3>3. CASE i # 0 /\ i <= n
      <4>1. i + 1 <= 1 + n /\ i + 1 \in 1..1 + n /\ ~(i + 1 <= 1) BY <1>2, <3>3
      <4>2. lines[i + 1] = front[i + 1] BY <2>3, <3>1, <4>1
      <4>3. front[i + 1] = p[(i + 1) - 1] BY <2>2, <4>1
      <4> QED BY <3>1, <3>3, <4>2, <4>3 DEF At, n
    <3>4. CASE i # 0 /\ ~(i <= n)
      <4>1. ~(i + 1 <= 1 + n) BY <1>2, <3>4
      <4>2. lines[i + 1] = w[(i + 1) - (1 + n)] BY <2>3, <3>1, <4>1
      <4> QED BY <3>1, <3>4, <4>2 DEF At, n
    <3> QED BY <3>2, <3>3, <3>4
  <2> QED BY <2>3, <2>4, <2>5
<1> HIDE DEF lines
<1>4. ASSUME NEW i \in 1..Len(lines) - 1 PROVE Follows(lines[i], lines[i + 1])
  <2>1. i \in 1..n + m /\ i - 1 \in 0..n + m /\ i \in 0..n + m /\ (i - 1) + 1 = i BY <1>2, <1>3
  <2>2. lines[i] = At(p, w, i - 1)
    <3>1. lines[(i - 1) + 1] = At(p, w, i - 1) BY <1>3, <2>1
    <3> QED BY <2>1, <3>1
  <2>3. lines[i + 1] = At(p, w, i) BY <1>3, <2>1
  <2>4. FollowsAt(At(p, w, i - 1), At(p, w, i), runId, nextLogId) BY <1>1, <2>1 DEF InOrderTo, n, m
  <2> QED BY <2>2, <2>3, <2>4 DEF Follows, FollowsAt
<1>5. ASSUME stream[b] # NoStream, nextLogId > 1 PROVE Last(lines) = Event(runId, nextLogId - 1)
  <2>1. n + m \in 0..n + m BY <1>2
  <2>2. lines[(n + m) + 1] = At(p, w, n + m) BY <1>3, <2>1
  <2> QED BY <1>1, <1>3, <1>5, <2>2 DEF Last
<1> QED BY <1>4, <1>5 DEF lines, p, w, OnWay

LEMMA LogKept == EventSpec => []LogFollows
<1>1. EventSpec => []EventInv BY EventStarts, EventStays, PTL DEF EventSpec
<1> QED BY <1>1, InvFollows, PTL

-----------------------------------------------------------------------------
(* The pages.  A mute that is fresh is held by its page to be of the route *)
(* that the daemon has at its place.                                       *)

LEMMA Removed ==
  ASSUME NEW T, NEW s \in Seq(T), NEW i \in DOMAIN s
  PROVE  /\ RemoveAt(s, i) \in Seq(T) /\ Len(RemoveAt(s, i)) = Len(s) - 1
         /\ \A j \in DOMAIN RemoveAt(s, i) :
              RemoveAt(s, i)[j] = IF j < i THEN s[j] ELSE s[j + 1]
<1>1. i \in 1..Len(s) /\ Len(s) \in Nat OBVIOUS
<1> DEFINE a == SubSeq(s, 1, i - 1)
           b == SubSeq(s, i + 1, Len(s))
<1>2. a \in Seq(T) /\ Len(a) = i - 1 /\ \A j \in 1..i - 1 : a[j] = s[j]
  BY <1>1, SubSeqProperties
<1>3. b \in Seq(T) /\ Len(b) = Len(s) - i /\ \A j \in 1..Len(s) - i : b[j] = s[i + j]
  BY <1>1, SubSeqProperties
<1>4. RemoveAt(s, i) = a \o b BY DEF RemoveAt
<1> HIDE DEF a, b
<1>5. a \o b \in Seq(T) /\ Len(a \o b) = Len(s) - 1 BY <1>1, <1>2, <1>3
<1>6. ASSUME NEW j \in DOMAIN (a \o b) PROVE (a \o b)[j] = IF j < i THEN s[j] ELSE s[j + 1]
  <2>1. j \in 1..Len(s) - 1 BY <1>5, <1>6
  <2>2. CASE j < i BY <1>1, <1>2, <1>3, <2>1, <2>2
  <2>3. CASE j >= i
    <3>1. (a \o b)[j] = b[j - (i - 1)] BY <1>1, <1>2, <1>3, <2>1, <2>3
    <3>2. j - (i - 1) \in 1..Len(s) - i BY <1>1, <2>1, <2>3
    <3>3. b[j - (i - 1)] = s[i + (j - (i - 1))] BY <1>3, <3>2
    <3>4. i + (j - (i - 1)) = j + 1 BY <1>1, <2>1
    <3> QED BY <3>1, <3>3, <3>4, <2>3, <1>1, <2>1
  <2> QED BY <2>2, <2>3, <1>1, <2>1
<1> QED BY <1>4, <1>5, <1>6

-----------------------------------------------------------------------------
WebTypes ==
  /\ daemon \in Seq(PageRoute)
  /\ copy \in [Pages -> Seq(PageRoute)]
  /\ dirty \in [Pages -> BOOLEAN] /\ stale \in [Pages -> BOOLEAN] /\ edited \in [Pages -> BOOLEAN]
  /\ flight \in [Pages -> Seq(PageRequest)]
  /\ \A p \in Pages : Len(flight[p]) <= FlightBound

\* A request p has sent with which the daemon has got its copy.
Put(r) == r.kind = "apply" \/ (r.kind = "put" /\ r.served)

\* What request r says of the routes is right for a daemon that has the routes ds.
Right(r, ds) ==
  /\ r.kind = "get" /\ r.served /\ r.fresh => Uids(r.routes) = Uids(ds)
  /\ r.kind = "get" /\ ~r.served => ~r.fresh
  /\ r.kind = "mute" /\ ~r.served /\ r.fresh => r.index \in DOMAIN ds /\ ds[r.index].uid = r.uid
  /\ r.kind \in {"put", "apply"} => ~r.fresh

\* Page p with copy c and requests f.
PageRight(d, c, f, dirt, st, ed) ==
  /\ ~dirt /\ ~st /\ ~ed => Uids(c) = Uids(d)
  /\ (\E i \in DOMAIN f : Put(f[i])) /\ ~st /\ ~ed => Uids(c) = Uids(d)
  /\ \A i \in DOMAIN f : Right(f[i], d)

WebInv ==
  /\ WebTypes
  /\ ~missed
  /\ \A p \in Pages : PageRight(daemon, copy[p], flight[p], dirty[p], stale[p], edited[p])

LEMMA AskIsRequest ==
  ASSUME NEW k \in {"mute", "put", "apply", "get"}
  PROVE  /\ Ask(k) \in PageRequest /\ Ask(k).kind = k /\ ~Ask(k).served /\ ~Ask(k).fresh
  BY DEF Ask, PageRequest

LEMMA RoutesEdited ==
  ASSUME NEW rs \in Seq(PageRoute), NEW e \in EditedRoutes(rs)
  PROVE  e \in Seq(PageRoute)
<1>1. CASE \E n \in DOMAIN rs : e = RemoveAt(rs, n) BY <1>1, Removed
<1>2. CASE \E n \in DOMAIN rs \ {1} : e = [rs EXCEPT ![n] = rs[n - 1], ![n - 1] = rs[n]]
  <2>1. PICK n \in DOMAIN rs \ {1} : e = [rs EXCEPT ![n] = rs[n - 1], ![n - 1] = rs[n]] BY <1>2
  <2>2. n \in 1..Len(rs) /\ n - 1 \in 1..Len(rs) BY <2>1
  <2>3. rs[n] \in PageRoute /\ rs[n - 1] \in PageRoute BY <2>2
  <2> QED BY <2>1, <2>2, <2>3
<1> QED BY <1>1, <1>2 DEF EditedRoutes

LEMMA UidsOfMuted ==
  ASSUME NEW rs \in Seq(PageRoute), NEW n \in DOMAIN rs, NEW m \in BOOLEAN
  PROVE  /\ [rs EXCEPT ![n].mute = m] \in Seq(PageRoute)
         /\ Uids([rs EXCEPT ![n].mute = m]) = Uids(rs)
<1>1. n \in 1..Len(rs) /\ rs[n] \in PageRoute OBVIOUS
<1>2. [rs[n] EXCEPT !.mute = m] \in PageRoute /\ [rs[n] EXCEPT !.mute = m].uid = rs[n].uid BY <1>1 DEF PageRoute
<1> DEFINE x == [rs[n] EXCEPT !.mute = m]
<1>3. [rs EXCEPT ![n].mute = m] = [rs EXCEPT ![n] = x] OBVIOUS
<1>4. x \in PageRoute /\ x.uid = rs[n].uid BY <1>2
<1> HIDE DEF x
<1> QED BY <1>1, <1>3, <1>4 DEF Uids

\* What a request says stays right while the routes keep their places.
LEMMA RightStays ==
  ASSUME NEW ds \in Seq(PageRoute), NEW e \in Seq(PageRoute), NEW r, Uids(e) = Uids(ds), Right(r, ds)
  PROVE  Right(r, e)
<1>1. DOMAIN e = DOMAIN ds BY DEF Uids
<1>2. \A n \in DOMAIN ds : e[n].uid = ds[n].uid
  <2> SUFFICES ASSUME NEW n \in DOMAIN ds PROVE e[n].uid = ds[n].uid OBVIOUS
  <2>1. Uids(e)[n] = e[n].uid /\ Uids(ds)[n] = ds[n].uid BY <1>1 DEF Uids
  <2> QED BY <2>1
<1> QED BY <1>1, <1>2 DEF Right

LEMMA AgedIsRight ==
  ASSUME NEW r \in PageRequest, NEW ds
  PROVE  Aged(r) \in PageRequest /\ Right(Aged(r), ds) /\ Put(Aged(r)) = Put(r)
  BY DEF Aged, PageRequest, Right, Put

LEMMA PageStays ==
  ASSUME NEW ds \in Seq(PageRoute), NEW e \in Seq(PageRoute), Uids(e) = Uids(ds),
         NEW c, NEW f, NEW dirt, NEW st, NEW ed, PageRight(ds, c, f, dirt, st, ed)
  PROVE  PageRight(e, c, f, dirt, st, ed)
<1>1. \A i \in DOMAIN f : Right(f[i], e) BY RightStays DEF PageRight
<1> QED BY <1>1 DEF PageRight

\* Sending one more request.
LEMMA SentIsRight ==
  ASSUME NEW ds, NEW c, NEW f \in Seq(PageRequest), NEW dirt, NEW st, NEW ed,
         NEW r \in PageRequest, PageRight(ds, c, f, dirt, st, ed), Right(r, ds),
         Put(r) /\ ~st /\ ~ed => Uids(c) = Uids(ds)
  PROVE  PageRight(ds, c, Append(f, r), dirt, st, ed)
<1> DEFINE g == Append(f, r)
<1>1. ASSUME NEW i \in DOMAIN g PROVE g[i] = r \/ (i \in DOMAIN f /\ g[i] = f[i])
  <2>1. DOMAIN g = 1..Len(f) + 1 /\ DOMAIN f = 1..Len(f) /\ Len(f) \in Nat OBVIOUS
  <2>2. CASE i = Len(f) + 1
    <3>1. g[Len(f) + 1] = r OBVIOUS
    <3> HIDE DEF g
    <3> QED BY <2>2, <3>1
  <2>3. CASE i # Len(f) + 1 BY <2>1, <2>3
  <2> QED BY <2>2, <2>3
<1> HIDE DEF g
<1>2. \A i \in DOMAIN g : Right(g[i], ds) BY <1>1 DEF PageRight
<1>3. (\E i \in DOMAIN g : Put(g[i])) /\ ~st /\ ~ed => Uids(c) = Uids(ds) BY <1>1 DEF PageRight
<1>4. PageRight(ds, c, g, dirt, st, ed) BY <1>2, <1>3 DEF PageRight
<1> QED BY <1>4 DEF g

LEMMA SendsKeep ==
  ASSUME WebInv, NEW p \in Pages, NEW r \in PageRequest, Send(p, r), Right(r, daemon), ~Put(r),
         UNCHANGED <<daemon, dirty, stale, edited, missed>>,
         copy' \in [Pages -> Seq(PageRoute)], \A q \in Pages : Uids(copy'[q]) = Uids(copy[q])
  PROVE  WebInv'
<1>1. flight[p] \in Seq(PageRequest) /\ Len(flight[p]) < FlightBound
  BY DEF WebInv, WebTypes, Send
<1>2. flight' = [flight EXCEPT ![p] = Append(flight[p], r)] BY DEF Send
<1>3. Append(flight[p], r) \in Seq(PageRequest) /\ Len(Append(flight[p], r)) = Len(flight[p]) + 1
      /\ Len(flight[p]) \in Nat
  BY <1>1
<1>4. flight' \in [Pages -> Seq(PageRequest)] BY <1>2, <1>3 DEF WebInv, WebTypes
<1>6. WebTypes'
  <2>1. \A q \in Pages : Len(flight'[q]) <= FlightBound
    <3> SUFFICES ASSUME NEW q \in Pages PROVE Len(flight'[q]) <= FlightBound OBVIOUS
    <3>1. CASE q = p
      <4>1. flight'[q] = Append(flight[p], r) BY <1>2, <3>1 DEF WebInv, WebTypes
      <4> DEFINE n == Len(flight[p])
      <4>2. n \in Nat /\ n < FlightBound /\ FlightBound \in Nat BY <1>1, <1>3, FlightAssumption
      <4>3. Len(flight'[q]) = n + 1 BY <4>1, <1>3
      <4> HIDE DEF n
      <4> QED BY <4>2, <4>3
    <3>2. CASE q # p BY <1>2, <3>2 DEF WebInv, WebTypes
    <3> QED BY <3>1, <3>2
  <2> QED BY <2>1, <1>4 DEF WebInv, WebTypes
<1>7. ASSUME NEW q \in Pages
      PROVE  PageRight(daemon', copy'[q], flight'[q], dirty'[q], stale'[q], edited'[q])
  <2>1. PageRight(daemon, copy'[q], flight[q], dirty[q], stale[q], edited[q]) BY DEF WebInv, PageRight
  <2>2. CASE q # p
    <3>1. flight'[q] = flight[q] BY <1>2, <2>2 DEF WebInv, WebTypes
    <3> QED BY <2>1, <3>1
  <2>3. CASE q = p
    <3>1. flight'[q] = Append(flight[q], r) BY <1>2, <2>3 DEF WebInv, WebTypes
    <3>2. PageRight(daemon, copy'[q], Append(flight[q], r), dirty[q], stale[q], edited[q])
      BY <2>1, <1>1, <2>3, SentIsRight
    <3> QED BY <3>1, <3>2
  <2> QED BY <2>2, <2>3
<1> QED BY <1>6, <1>7 DEF WebInv

LEMMA PageEditKeeps ==
  ASSUME WebInv, NEW p \in Pages, EditRoutes(p)
  PROVE  WebInv'
<1>1. PICK rs \in EditedRoutes(copy[p]) : copy' = [copy EXCEPT ![p] = rs] BY DEF EditRoutes
<1>2. rs \in Seq(PageRoute) BY RoutesEdited DEF WebInv, WebTypes
<1>3. WebTypes' BY <1>1, <1>2 DEF EditRoutes, WebInv, WebTypes, Saving
<1>4. ASSUME NEW q \in Pages
      PROVE  PageRight(daemon', copy'[q], flight'[q], dirty'[q], stale'[q], edited'[q])
  <2>1. PageRight(daemon, copy[q], flight[q], dirty[q], stale[q], edited[q]) BY DEF WebInv
  <2>2. CASE q # p
    <3>1. copy'[q] = copy[q] /\ dirty'[q] = dirty[q] /\ edited'[q] = edited[q]
      BY <1>1, <2>2 DEF EditRoutes, WebInv, WebTypes
    <3> QED BY <2>1, <3>1 DEF EditRoutes
  <2>3. CASE q = p
    <3>1. dirty'[q] = TRUE /\ edited'[q] = (edited[q] \/ Saving(p))
      BY <2>3 DEF EditRoutes, WebInv, WebTypes
    <3>2. (\E i \in DOMAIN flight[q] : Put(flight[q][i])) => edited'[q]
      BY <3>1, <2>3 DEF Saving, Put
    <3> QED BY <2>1, <3>1, <3>2 DEF EditRoutes, PageRight
  <2> QED BY <2>2, <2>3
<1> QED BY <1>3, <1>4 DEF WebInv, EditRoutes

LEMMA ClickKeeps ==
  ASSUME WebInv, NEW p \in Pages, NEW n \in DOMAIN copy[p], SetRouteFlag(p, n)
  PROVE  WebInv'
<1>1. copy[p] \in Seq(PageRoute) /\ copy \in [Pages -> Seq(PageRoute)] BY DEF WebInv, WebTypes
<1>2. n \in Nat /\ copy[p][n] \in PageRoute BY <1>1
<1> DEFINE m == ~copy[p][n].mute
           rs == [copy[p] EXCEPT ![n].mute = m]
<1>3. copy' = [copy EXCEPT ![p] = rs] BY DEF SetRouteFlag
<1>4. m \in BOOLEAN OBVIOUS
<1>5. rs \in Seq(PageRoute) /\ Uids(rs) = Uids(copy[p])
  <2> HIDE DEF m
  <2> QED BY <1>1, <1>4, UidsOfMuted
<1> HIDE DEF rs
<1>6. copy' \in [Pages -> Seq(PageRoute)] /\ \A q \in Pages : Uids(copy'[q]) = Uids(copy[q])
  <2>1. \A q \in Pages : copy'[q] = IF q = p THEN rs ELSE copy[q] BY <1>1, <1>3
  <2> QED BY <1>1, <1>3, <1>5, <2>1
<1>7. CASE dirty[p]
  <2>1. UNCHANGED <<flight, daemon, dirty, stale, edited, missed>> BY <1>7 DEF SetRouteFlag
  <2>2. \A q \in Pages : PageRight(daemon, copy'[q], flight[q], dirty[q], stale[q], edited[q])
    BY <1>6 DEF WebInv, PageRight
  <2> QED BY <1>6, <2>1, <2>2 DEF WebInv, WebTypes
<1>8. CASE ~dirty[p]
  <2> DEFINE r == MuteRequest(p, n)
  <2>1. Send(p, r) /\ UNCHANGED <<daemon, dirty, stale, edited, missed>> BY <1>8 DEF SetRouteFlag
  <2>2. Ask("mute") \in PageRequest BY AskIsRequest
  <2>3. copy[p][n].uid \in PageRoutes /\ copy[p][n].mute \in BOOLEAN BY <1>2 DEF PageRoute
  <2>4. (~stale[p] /\ ~edited[p]) \in BOOLEAN OBVIOUS
  <2>5. r \in PageRequest /\ r.kind = "mute" /\ r.index = n /\ r.uid = copy[p][n].uid
        /\ r.fresh = (~stale[p] /\ ~edited[p])
    <3> DEFINE a == Ask("mute")
               v == ~copy[p][n].mute
               fr == ~stale[p] /\ ~edited[p]
    <3>1. a \in PageRequest /\ a.kind = "mute" /\ v \in BOOLEAN /\ fr \in BOOLEAN BY AskIsRequest
    <3>2. r = [a EXCEPT !.index = n, !.uid = copy[p][n].uid, !.value = v, !.live = TRUE, !.fresh = fr]
      BY DEF MuteRequest
    <3> HIDE DEF a, v, fr, r
    <3>3. r \in PageRequest /\ r.kind = a.kind /\ r.index = n /\ r.uid = copy[p][n].uid
      BY <1>2, <2>3, <3>1, <3>2 DEF PageRequest
    <3>4. r.fresh = fr BY <3>1, <3>2 DEF PageRequest
    <3> QED BY <3>1, <3>3, <3>4 DEF fr
  <2>6. Right(r, daemon)
    <3>1. CASE r.fresh
      <4>1. Uids(copy[p]) = Uids(daemon) BY <1>8, <2>5, <3>1 DEF WebInv, PageRight
      <4>2. n \in DOMAIN daemon /\ Uids(daemon)[n] = daemon[n].uid /\ Uids(copy[p])[n] = copy[p][n].uid
        BY <4>1 DEF Uids
      <4> HIDE DEF r
      <4> QED BY <2>5, <4>1, <4>2 DEF Right
    <3>2. CASE ~r.fresh
      <4> HIDE DEF r
      <4> QED BY <2>5, <3>2 DEF Right
    <3> QED BY <3>1, <3>2
  <2>7. ~Put(r)
    <3> HIDE DEF r
    <3> QED BY <2>5 DEF Put
  <2> HIDE DEF r
  <2> QED BY <1>6, <2>1, <2>5, <2>6, <2>7, SendsKeep
<1> QED BY <1>7, <1>8

LEMMA AskKeeps ==
  ASSUME WebInv, NEW p \in Pages, SaveAndApply(p) \/ Discard(p)
  PROVE  WebInv'
<1>0. copy[p] \in Seq(PageRoute) /\ copy \in [Pages -> Seq(PageRoute)] BY DEF WebInv, WebTypes
<1>1. CASE SaveAndApply(p)
  <2> DEFINE r == [Ask("put") EXCEPT !.routes = copy[p]]
  <2>1. r \in PageRequest /\ r.kind = "put" /\ ~r.served /\ ~r.fresh BY <1>0 DEF Ask, PageRequest
  <2>2. Send(p, r) /\ UNCHANGED <<daemon, copy, dirty, stale, edited, missed>> BY <1>1 DEF SaveAndApply
  <2> HIDE DEF r
  <2>3. Right(r, daemon) /\ ~Put(r) BY <2>1 DEF Right, Put
  <2> QED BY <1>0, <2>1, <2>2, <2>3, SendsKeep
<1>2. CASE Discard(p)
  <2> DEFINE r == Ask("get")
  <2>1. r \in PageRequest /\ r.kind = "get" /\ ~r.served /\ ~r.fresh BY AskIsRequest
  <2>2. Send(p, r) /\ UNCHANGED <<daemon, copy, dirty, stale, edited, missed>> BY <1>2 DEF Discard
  <2> HIDE DEF r
  <2>3. Right(r, daemon) /\ ~Put(r) BY <2>1 DEF Right, Put
  <2> QED BY <1>0, <2>1, <2>2, <2>3, SendsKeep
<1> QED BY <1>1, <1>2

\* A configuration has been put: what is under way knows no more where its route is.
LEMMA PutElsewhereKeeps ==
  ASSUME WebInv, PutElsewhere
  PROVE  WebInv'
<1>1. daemon' \in Seq(PageRoute) BY RoutesEdited DEF PutElsewhere, WebInv, WebTypes
<1>2. ASSUME NEW q \in Pages
      PROVE  /\ flight'[q] \in Seq(PageRequest) /\ Len(flight'[q]) = Len(flight[q])
             /\ \A j \in DOMAIN flight'[q] : Right(flight'[q][j], daemon') /\ stale'[q]
  <2>1. flight[q] \in Seq(PageRequest) BY DEF WebInv, WebTypes
  <2>2. flight'[q] = [j \in DOMAIN flight[q] |-> Aged(flight[q][j])] /\ stale'[q] BY DEF PutElsewhere
  <2>3. \A j \in DOMAIN flight[q] : Aged(flight[q][j]) \in PageRequest /\ Right(Aged(flight[q][j]), daemon')
    BY <2>1, AgedIsRight
  <2> QED BY <2>1, <2>2, <2>3
<1>3. WebTypes'
  <2>1. flight' \in [Pages -> Seq(PageRequest)] BY <1>2 DEF PutElsewhere
  <2>2. stale' \in [Pages -> BOOLEAN] BY DEF PutElsewhere
  <2>3. \A q \in Pages : Len(flight'[q]) <= FlightBound BY <1>2 DEF WebInv, WebTypes
  <2> QED BY <1>1, <2>1, <2>2, <2>3 DEF PutElsewhere, WebInv, WebTypes
<1>4. ASSUME NEW q \in Pages
      PROVE  PageRight(daemon', copy'[q], flight'[q], dirty'[q], stale'[q], edited'[q])
  <2>1. stale'[q] BY DEF PutElsewhere
  <2> QED BY <1>2, <2>1 DEF PageRight
<1> QED BY <1>3, <1>4 DEF WebInv, PutElsewhere

LEMMA ServePutKeeps ==
  ASSUME WebInv, NEW p \in Pages, NEW i \in DOMAIN flight[p], NEW ok \in BOOLEAN,
         ServePut(p, i, ok), UNCHANGED <<copy, dirty, edited>>
  PROVE  WebInv'
<1>0. flight[p] \in Seq(PageRequest) /\ flight[p][i] \in PageRequest BY DEF WebInv, WebTypes
<1>1. daemon' \in Seq(PageRoute) BY <1>0 DEF ServePut, PageRequest
<1>2. ASSUME NEW q \in Pages
      PROVE  /\ flight'[q] \in Seq(PageRequest) /\ Len(flight'[q]) = Len(flight[q])
             /\ \A j \in DOMAIN flight'[q] : Right(flight'[q][j], daemon')
  <2>1. flight[q] \in Seq(PageRequest) BY DEF WebInv, WebTypes
  <2>2. flight'[q] = [j \in DOMAIN flight[q] |->
                        IF q = p /\ j = i THEN [Served(flight[q][j]) EXCEPT !.ok = ok] ELSE Aged(flight[q][j])]
    BY DEF ServePut
  <2>3. \A j \in DOMAIN flight[q] : Aged(flight[q][j]) \in PageRequest /\ Right(Aged(flight[q][j]), daemon')
    BY <2>1, AgedIsRight
  <2>4. LET r == [Served(flight[p][i]) EXCEPT !.ok = ok] IN r \in PageRequest /\ Right(r, daemon')
    <3> DEFINE r == [Served(flight[p][i]) EXCEPT !.ok = ok]
    <3>1. flight[p][i].kind = "put" BY DEF ServePut
    <3>2. ~flight[p][i].fresh BY <3>1 DEF WebInv, PageRight, Right
    <3>3. r \in PageRequest /\ r.kind = "put" /\ r.fresh = flight[p][i].fresh
      BY <1>0, <3>1 DEF Served, PageRequest
    <3> HIDE DEF r
    <3>4. Right(r, daemon') BY <3>2, <3>3 DEF Right
    <3> QED BY <3>3, <3>4 DEF r
  <2> DEFINE new(j) == IF q = p /\ j = i THEN [Served(flight[q][j]) EXCEPT !.ok = ok] ELSE Aged(flight[q][j])
  <2>5. \A j \in DOMAIN flight[q] : new(j) \in PageRequest /\ Right(new(j), daemon') BY <2>3, <2>4
  <2>6. flight'[q] = [j \in DOMAIN flight[q] |-> new(j)] BY <2>2
  <2> HIDE DEF new
  <2>7. flight'[q] = [j \in 1..Len(flight[q]) |-> new(j)] /\ DOMAIN flight[q] = 1..Len(flight[q])
        /\ Len(flight[q]) \in Nat
    BY <2>1, <2>6
  <2> QED BY <2>5, <2>7
<1>3. WebTypes'
  <2>1. flight' \in [Pages -> Seq(PageRequest)] BY <1>2 DEF ServePut
  <2>2. stale' \in [Pages -> BOOLEAN] BY DEF ServePut, WebInv, WebTypes
  <2>3. \A q \in Pages : Len(flight'[q]) <= FlightBound BY <1>2 DEF WebInv, WebTypes
  <2> QED BY <1>1, <2>1, <2>2, <2>3 DEF WebInv, WebTypes
<1>4. ASSUME NEW q \in Pages
      PROVE  PageRight(daemon', copy'[q], flight'[q], dirty'[q], stale'[q], edited'[q])
  <2>1. stale'[q] = (stale[q] \/ q # p \/ Uids(copy[p]) # Uids(daemon')) BY DEF ServePut
  <2>2. ~stale'[q] => Uids(copy'[q]) = Uids(daemon') BY <2>1
  <2> QED BY <1>2, <2>2 DEF PageRight
<1> QED BY <1>3, <1>4 DEF WebInv, ServePut

\* One request is served, and no configuration put by it.
LEMMA ServedKeeps ==
  ASSUME WebInv, NEW p \in Pages, NEW i \in DOMAIN flight[p], NEW r \in PageRequest,
         flight' = [flight EXCEPT ![p][i] = r], Put(r) => Put(flight[p][i]),
         daemon' \in Seq(PageRoute), Uids(daemon') = Uids(daemon), Right(r, daemon'),
         ~missed', UNCHANGED <<copy, dirty, edited, stale>>
  PROVE  WebInv'
<1>0. flight[p] \in Seq(PageRequest) BY DEF WebInv, WebTypes
<1> DEFINE f == [flight[p] EXCEPT ![i] = r]
<1>1. flight' = [flight EXCEPT ![p] = f] BY DEF WebInv, WebTypes
<1>2. f \in Seq(PageRequest) /\ Len(f) = Len(flight[p]) /\ DOMAIN f = DOMAIN flight[p] BY <1>0
<1>3. \A j \in DOMAIN f : f[j] = IF j = i THEN r ELSE flight[p][j] BY <1>0
<1> HIDE DEF f
<1>4. flight'[p] = f /\ \A q \in Pages : q # p => flight'[q] = flight[q] BY <1>1 DEF WebInv, WebTypes
<1>5. WebTypes'
  <2>1. flight' \in [Pages -> Seq(PageRequest)] BY <1>1, <1>2 DEF WebInv, WebTypes
  <2>2. \A q \in Pages : Len(flight'[q]) <= FlightBound BY <1>2, <1>4 DEF WebInv, WebTypes
  <2> QED BY <2>1, <2>2 DEF WebInv, WebTypes
<1>6. ASSUME NEW q \in Pages
      PROVE  PageRight(daemon', copy'[q], flight'[q], dirty'[q], stale'[q], edited'[q])
  <2>1. PageRight(daemon, copy[q], flight[q], dirty[q], stale[q], edited[q]) BY DEF WebInv
  <2>2. daemon \in Seq(PageRoute) BY DEF WebInv, WebTypes
  <2>3. PageRight(daemon', copy[q], flight[q], dirty[q], stale[q], edited[q]) BY <2>1, <2>2, PageStays
  <2>4. CASE q # p BY <1>4, <2>3, <2>4
  <2>5. CASE q = p
    <3>1. \A j \in DOMAIN f : Right(f[j], daemon') BY <1>2, <1>3, <2>3, <2>5 DEF PageRight
    <3>2. (\E j \in DOMAIN f : Put(f[j])) => \E j \in DOMAIN flight[p] : Put(flight[p][j]) BY <1>2, <1>3
    <3> QED BY <1>4, <2>3, <2>5, <3>1, <3>2 DEF PageRight
  <2> QED BY <2>4, <2>5
<1> QED BY <1>5, <1>6 DEF WebInv

LEMMA ServeKeeps ==
  ASSUME WebInv, NEW p \in Pages, NEW i \in DOMAIN flight[p], Serve(p, i)
  PROVE  WebInv'
<1>0. flight[p] \in Seq(PageRequest) /\ flight[p][i] \in PageRequest /\ daemon \in Seq(PageRoute)
  BY DEF WebInv, WebTypes
<1>1. UNCHANGED <<copy, dirty, edited>> /\ ~flight[p][i].served BY DEF Serve
<1>2. Right(flight[p][i], daemon) /\ ~missed BY DEF WebInv, PageRight
<1>3. ASSUME NEW ok \in BOOLEAN, ServePut(p, i, ok) PROVE WebInv'
  BY <1>1, <1>3, ServePutKeeps
<1>4. ASSUME NEW ok \in BOOLEAN, ServeApply(p, i, ok) PROVE WebInv'
  <2> DEFINE r == [Served(flight[p][i]) EXCEPT !.ok = ok]
  <2>1. flight[p][i].kind = "apply" /\ UNCHANGED <<daemon, stale, missed>> BY <1>4 DEF ServeApply
  <2>2. flight' = [flight EXCEPT ![p][i] = r] BY <1>4 DEF ServeApply, WebInv, WebTypes
  <2>3. r \in PageRequest /\ r.kind = "apply" /\ r.fresh = flight[p][i].fresh
    BY <1>0, <2>1 DEF Served, PageRequest
  <2> HIDE DEF r
  <2>4. Right(r, daemon') BY <1>2, <2>1, <2>3 DEF Right
  <2>5. Put(r) => Put(flight[p][i]) BY <2>1 DEF Put
  <2> QED BY <1>0, <1>1, <1>2, <2>1, <2>2, <2>3, <2>4, <2>5, ServedKeeps
<1>5. ASSUME ServeGet(p, i) PROVE WebInv'
  <2> DEFINE r == [Served(flight[p][i]) EXCEPT !.routes = daemon, !.fresh = TRUE]
  <2>1. flight[p][i].kind = "get" /\ UNCHANGED <<daemon, stale, missed>> BY <1>5 DEF ServeGet
  <2>2. flight' = [flight EXCEPT ![p][i] = r] BY <1>5 DEF ServeGet, WebInv, WebTypes
  <2>3. r \in PageRequest /\ r.kind = "get" /\ r.routes = daemon /\ r.served
    BY <1>0, <2>1 DEF Served, PageRequest
  <2> HIDE DEF r
  <2>4. Right(r, daemon') /\ ~Put(r) BY <2>1, <2>3 DEF Right, Put
  <2> QED BY <1>0, <1>1, <1>2, <2>1, <2>2, <2>3, <2>4, ServedKeeps
<1>6. ASSUME ServeMute(p, i) PROVE WebInv'
  <2> DEFINE old == flight[p][i]
             known == old.index \in DOMAIN daemon
             r == [Served(old) EXCEPT !.ok = known]
  <2>1. old.kind = "mute" /\ UNCHANGED stale BY <1>6 DEF ServeMute
  <2>2. flight' = [flight EXCEPT ![p][i] = r] BY <1>6 DEF ServeMute, WebInv, WebTypes
  <2>3. known \in BOOLEAN OBVIOUS
  <2>4. r \in PageRequest /\ r.kind = "mute" /\ r.served
    <3> HIDE DEF known
    <3> QED BY <1>0, <2>1, <2>3 DEF Served, PageRequest
  <2>5. Right(r, daemon') /\ ~Put(r)
    <3> HIDE DEF r
    <3> QED BY <2>4 DEF Right, Put
  <2>6. daemon' \in Seq(PageRoute) /\ Uids(daemon') = Uids(daemon)
    <3>1. CASE known
      <4>1. daemon' = [daemon EXCEPT ![old.index].mute = old.value] BY <1>6, <3>1 DEF ServeMute
      <4>2. old.value \in BOOLEAN BY <1>0 DEF PageRequest
      <4> QED BY <1>0, <3>1, <4>1, <4>2, UidsOfMuted
    <3>2. CASE ~known
      <4>1. daemon' = daemon BY <1>6, <3>2 DEF ServeMute
      <4> QED BY <1>0, <4>1
    <3> QED BY <3>1, <3>2
  <2>7. ~missed'
    <3>1. missed' = (missed \/ (known /\ old.fresh /\ daemon[old.index].uid # old.uid)) BY <1>6 DEF ServeMute
    <3>2. old.fresh => daemon[old.index].uid = old.uid BY <1>1, <1>2, <2>1 DEF Right
    <3> QED BY <1>2, <3>1, <3>2
  <2> HIDE DEF r
  <2> QED BY <1>0, <1>1, <2>1, <2>2, <2>4, <2>5, <2>6, <2>7, ServedKeeps
<1> QED BY <1>3, <1>4, <1>5, <1>6 DEF Serve

\* A request is answered, and gone.
LEMMA OthersAre ==
  ASSUME WebTypes, NEW p \in Pages, NEW i \in DOMAIN flight[p]
  PROVE  /\ Others(p, i) \in Seq(PageRequest) /\ Len(Others(p, i)) = Len(flight[p]) - 1
         /\ \A j \in DOMAIN Others(p, i) : \E k \in DOMAIN flight[p] : Others(p, i)[j] = flight[p][k]
<1>1. flight[p] \in Seq(PageRequest) BY DEF WebTypes
<1>2. ASSUME NEW j \in DOMAIN RemoveAt(flight[p], i)
      PROVE  \E k \in DOMAIN flight[p] : RemoveAt(flight[p], i)[j] = flight[p][k]
  <2>1. RemoveAt(flight[p], i)[j] = IF j < i THEN flight[p][j] ELSE flight[p][j + 1] BY <1>1, Removed
  <2>2. j \in 1..Len(flight[p]) - 1
    <3>1. RemoveAt(flight[p], i) \in Seq(PageRequest) /\ Len(RemoveAt(flight[p], i)) = Len(flight[p]) - 1
      BY <1>1, Removed
    <3> QED BY <3>1, <1>1
  <2>3. j \in 1..Len(flight[p]) /\ j + 1 \in 1..Len(flight[p]) BY <1>1, <2>2
  <2>4. j \in DOMAIN flight[p] /\ j + 1 \in DOMAIN flight[p] BY <1>1, <2>3
  <2> QED BY <2>1, <2>4
<1> QED BY <1>1, <1>2, Removed DEF Others

\* The page has the requests g and the copy c now, which are right for the routes; the others
\* are as they were.
LEMMA AnsweredKeeps ==
  ASSUME WebInv, NEW p \in Pages, NEW g \in Seq(PageRequest), Len(g) <= Len(flight[p]),
         flight' = [flight EXCEPT ![p] = g],
         NEW c \in Seq(PageRoute), copy' = [copy EXCEPT ![p] = c],
         dirty' \in [Pages -> BOOLEAN], stale' \in [Pages -> BOOLEAN], edited' \in [Pages -> BOOLEAN],
         \A q \in Pages : q # p => dirty'[q] = dirty[q] /\ stale'[q] = stale[q] /\ edited'[q] = edited[q],
         PageRight(daemon, c, g, dirty'[p], stale'[p], edited'[p]),
         UNCHANGED <<daemon, missed>>
  PROVE  WebInv'
<1>1. copy'[p] = c /\ flight'[p] = g BY DEF WebInv, WebTypes
<1>2. \A q \in Pages : q # p => copy'[q] = copy[q] /\ flight'[q] = flight[q] BY DEF WebInv, WebTypes
<1>3. WebTypes'
  <2>1. copy' \in [Pages -> Seq(PageRoute)] /\ flight' \in [Pages -> Seq(PageRequest)] BY DEF WebInv, WebTypes
  <2>2. ASSUME NEW q \in Pages PROVE Len(flight'[q]) <= FlightBound
    <3>1. CASE q = p
      <4> DEFINE n == Len(flight[p])
                 m == Len(g)
      <4>1. n \in Nat /\ n <= FlightBound /\ m \in Nat /\ m <= n BY DEF WebInv, WebTypes
      <4>2. Len(flight'[q]) = m BY <1>1, <3>1
      <4> HIDE DEF n, m
      <4> QED BY <4>1, <4>2, FlightAssumption
    <3>2. CASE q # p BY <1>2, <3>2 DEF WebInv, WebTypes
    <3> QED BY <3>1, <3>2
  <2> QED BY <2>1, <2>2 DEF WebInv, WebTypes
<1>4. ASSUME NEW q \in Pages
      PROVE  PageRight(daemon', copy'[q], flight'[q], dirty'[q], stale'[q], edited'[q])
  <2>1. CASE q = p BY <1>1, <2>1
  <2>2. CASE q # p
    <3>1. PageRight(daemon, copy[q], flight[q], dirty[q], stale[q], edited[q]) BY DEF WebInv
    <3> QED BY <1>2, <2>2, <3>1
  <2> QED BY <2>1, <2>2
<1> QED BY <1>3, <1>4 DEF WebInv

LEMMA AnswerPutKeeps ==
  ASSUME WebInv, NEW p \in Pages, NEW i \in DOMAIN flight[p], flight[p][i].served, AnswerPut(p, i),
         UNCHANGED <<daemon, missed>>
  PROVE  WebInv'
<1> DEFINE o == Others(p, i)
           g == IF flight[p][i].ok THEN Append(o, Ask("apply")) ELSE o
<1>1. o \in Seq(PageRequest) /\ Len(o) = Len(flight[p]) - 1 BY OthersAre DEF WebInv
<1>2. \A j \in DOMAIN o : \E k \in DOMAIN flight[p] : o[j] = flight[p][k] BY OthersAre DEF WebInv
<1>3. Ask("apply") \in PageRequest /\ Ask("apply").kind = "apply" /\ ~Ask("apply").fresh BY AskIsRequest
<1>4. UNCHANGED <<copy, dirty, stale, edited>> /\ flight' = [flight EXCEPT ![p] = g] /\ flight[p][i].kind = "put"
  BY DEF AnswerPut
<1>5. PageRight(daemon, copy[p], flight[p], dirty[p], stale[p], edited[p]) BY DEF WebInv
<1>6. ~stale[p] /\ ~edited[p] => Uids(copy[p]) = Uids(daemon) BY <1>4, <1>5 DEF PageRight, Put
<1> HIDE DEF o
<1>7. PageRight(daemon, copy[p], o, dirty[p], stale[p], edited[p]) BY <1>2, <1>5, <1>6 DEF PageRight
<1>8. Right(Ask("apply"), daemon) BY <1>3 DEF Right
<1>9. PageRight(daemon, copy[p], g, dirty[p], stale[p], edited[p])
  <2>1. PageRight(daemon, copy[p], Append(o, Ask("apply")), dirty[p], stale[p], edited[p])
    BY <1>1, <1>3, <1>6, <1>7, <1>8, SentIsRight
  <2> QED BY <1>7, <2>1
<1>10. g \in Seq(PageRequest) /\ Len(g) <= Len(flight[p])
  <2> DEFINE n == Len(flight[p])
  <2>1. n \in Nat BY DEF WebInv, WebTypes
  <2>2. Len(o) = n - 1 BY <1>1
  <2>3. Append(o, Ask("apply")) \in Seq(PageRequest) /\ Len(Append(o, Ask("apply"))) = Len(o) + 1 BY <1>1, <1>3
  <2> HIDE DEF n
  <2>4. Len(g) <= n BY <2>1, <2>2, <2>3
  <2> QED BY <1>1, <2>3, <2>4 DEF n
<1> HIDE DEF g
<1>11. copy[p] \in Seq(PageRoute) /\ copy' = [copy EXCEPT ![p] = copy[p]] BY <1>4 DEF WebInv, WebTypes
<1>12. dirty' \in [Pages -> BOOLEAN] /\ stale' \in [Pages -> BOOLEAN] /\ edited' \in [Pages -> BOOLEAN]
  BY <1>4 DEF WebInv, WebTypes
<1>13. \A q \in Pages : q # p => dirty'[q] = dirty[q] /\ stale'[q] = stale[q] /\ edited'[q] = edited[q] BY <1>4
<1>14. PageRight(daemon, copy[p], g, dirty'[p], stale'[p], edited'[p]) BY <1>4, <1>9
<1>15. flight' = [flight EXCEPT ![p] = g] BY <1>4
<1> QED BY <1>10, <1>11, <1>12, <1>13, <1>14, <1>15, AnsweredKeeps

LEMMA AnswerApplyKeeps ==
  ASSUME WebInv, NEW p \in Pages, NEW i \in DOMAIN flight[p], AnswerApply(p, i),
         UNCHANGED <<daemon, missed>>
  PROVE  WebInv'
<1> DEFINE o == Others(p, i)
           g == IF flight[p][i].ok THEN Append(o, Ask("get")) ELSE o
<1>1. o \in Seq(PageRequest) /\ Len(o) = Len(flight[p]) - 1 BY OthersAre DEF WebInv
<1>2. \A j \in DOMAIN o : \E k \in DOMAIN flight[p] : o[j] = flight[p][k] BY OthersAre DEF WebInv
<1>3. Ask("get") \in PageRequest /\ Ask("get").kind = "get" /\ ~Ask("get").fresh /\ ~Ask("get").served
  BY AskIsRequest
<1>4. UNCHANGED <<copy, stale, edited>> /\ flight' = [flight EXCEPT ![p] = g] /\ flight[p][i].kind = "apply"
      /\ dirty' = [dirty EXCEPT ![p] = dirty[p] /\ ~flight[p][i].ok]
  BY DEF AnswerApply
<1>5. PageRight(daemon, copy[p], flight[p], dirty[p], stale[p], edited[p]) BY DEF WebInv
<1>6. ~stale[p] /\ ~edited[p] => Uids(copy[p]) = Uids(daemon) BY <1>4, <1>5 DEF PageRight, Put
<1> HIDE DEF o
<1>7. PageRight(daemon, copy[p], o, dirty'[p], stale[p], edited[p]) BY <1>2, <1>5, <1>6 DEF PageRight
<1>8. Right(Ask("get"), daemon) BY <1>3 DEF Right
<1>9. PageRight(daemon, copy[p], g, dirty'[p], stale[p], edited[p])
  <2>1. PageRight(daemon, copy[p], Append(o, Ask("get")), dirty'[p], stale[p], edited[p])
    BY <1>1, <1>3, <1>6, <1>7, <1>8, SentIsRight
  <2> QED BY <1>7, <2>1
<1>10. g \in Seq(PageRequest) /\ Len(g) <= Len(flight[p])
  <2> DEFINE n == Len(flight[p])
  <2>1. n \in Nat BY DEF WebInv, WebTypes
  <2>2. Len(o) = n - 1 BY <1>1
  <2>3. Append(o, Ask("get")) \in Seq(PageRequest) /\ Len(Append(o, Ask("get"))) = Len(o) + 1 BY <1>1, <1>3
  <2> HIDE DEF n
  <2>4. Len(g) <= n BY <2>1, <2>2, <2>3
  <2> QED BY <1>1, <2>3, <2>4 DEF n
<1> HIDE DEF g
<1>11. copy[p] \in Seq(PageRoute) /\ copy' = [copy EXCEPT ![p] = copy[p]] BY <1>4 DEF WebInv, WebTypes
<1>12. dirty' \in [Pages -> BOOLEAN] /\ stale' \in [Pages -> BOOLEAN] /\ edited' \in [Pages -> BOOLEAN]
  <2>1. (dirty[p] /\ ~flight[p][i].ok) \in BOOLEAN OBVIOUS
  <2> QED BY <1>4, <2>1 DEF WebInv, WebTypes
<1>13. \A q \in Pages : q # p => dirty'[q] = dirty[q] /\ stale'[q] = stale[q] /\ edited'[q] = edited[q]
  BY <1>4 DEF WebInv, WebTypes
<1>14. PageRight(daemon, copy[p], g, dirty'[p], stale'[p], edited'[p]) BY <1>4, <1>9
<1>15. flight' = [flight EXCEPT ![p] = g] BY <1>4
<1> QED BY <1>10, <1>11, <1>12, <1>13, <1>14, <1>15, AnsweredKeeps

LEMMA AnswerGetKeeps ==
  ASSUME WebInv, NEW p \in Pages, NEW i \in DOMAIN flight[p], flight[p][i].served, AnswerGet(p, i),
         UNCHANGED <<daemon, missed>>
  PROVE  WebInv'
<1> DEFINE o == Others(p, i)
           g == [j \in DOMAIN o |-> [o[j] EXCEPT !.live = FALSE]]
           r == flight[p][i]
<1>1. o \in Seq(PageRequest) /\ Len(o) = Len(flight[p]) - 1 BY OthersAre DEF WebInv
<1>2. \A j \in DOMAIN o : \E k \in DOMAIN flight[p] : o[j] = flight[p][k] BY OthersAre DEF WebInv
<1>3. r.kind = "get" /\ copy' = [copy EXCEPT ![p] = r.routes] /\ dirty' = [dirty EXCEPT ![p] = FALSE]
      /\ stale' = [stale EXCEPT ![p] = ~r.fresh] /\ edited' = [edited EXCEPT ![p] = FALSE]
      /\ flight' = [flight EXCEPT ![p] = g]
  BY DEF AnswerGet
<1>4. r \in PageRequest BY DEF WebInv, WebTypes
<1>5. PageRight(daemon, copy[p], flight[p], dirty[p], stale[p], edited[p]) BY DEF WebInv
<1>6. r.fresh => Uids(r.routes) = Uids(daemon) BY <1>3, <1>5 DEF PageRight, Right
<1> HIDE DEF o
<1>7. \A j \in DOMAIN o : o[j] \in PageRequest /\ Right(o[j], daemon) BY <1>1, <1>2, <1>5 DEF PageRight
<1>8. ASSUME NEW x \in PageRequest, Right(x, daemon)
      PROVE  [x EXCEPT !.live = FALSE] \in PageRequest /\ Right([x EXCEPT !.live = FALSE], daemon)
  BY <1>8 DEF PageRequest, Right
<1>9. DOMAIN g = DOMAIN o /\ \A j \in DOMAIN g : g[j] \in PageRequest /\ Right(g[j], daemon) BY <1>7, <1>8
<1>10. g \in Seq(PageRequest) /\ Len(g) <= Len(flight[p])
  <2> HIDE DEF g
  <2>1. g = [j \in 1..Len(o) |-> g[j]] /\ Len(o) \in Nat BY <1>1, <1>9 DEF g
  <2>2. \A j \in 1..Len(o) : g[j] \in PageRequest BY <1>1, <1>9
  <2>3. g \in Seq(PageRequest) /\ Len(g) = Len(o) BY <2>1, <2>2
  <2> DEFINE n == Len(flight[p])
  <2>4. n \in Nat BY DEF WebInv, WebTypes
  <2>5. Len(g) = n - 1 BY <1>1, <2>3
  <2> HIDE DEF n
  <2>6. Len(g) <= n BY <2>4, <2>5
  <2> QED BY <2>3, <2>6 DEF n
<1> HIDE DEF g, r
<1>11. r.routes \in Seq(PageRoute) /\ r.fresh \in BOOLEAN BY <1>4 DEF PageRequest
<1>12. dirty'[p] = FALSE /\ edited'[p] = FALSE /\ stale'[p] = ~r.fresh BY <1>3 DEF WebInv, WebTypes
<1>13. PageRight(daemon, r.routes, g, dirty'[p], stale'[p], edited'[p]) BY <1>6, <1>9, <1>12 DEF PageRight
<1>14. dirty' \in [Pages -> BOOLEAN] /\ stale' \in [Pages -> BOOLEAN] /\ edited' \in [Pages -> BOOLEAN]
  <2>1. (~r.fresh) \in BOOLEAN OBVIOUS
  <2> QED BY <1>3, <2>1 DEF WebInv, WebTypes
<1>15. \A q \in Pages : q # p => dirty'[q] = dirty[q] /\ stale'[q] = stale[q] /\ edited'[q] = edited[q]
  BY <1>3 DEF WebInv, WebTypes
<1> QED BY <1>3, <1>10, <1>11, <1>13, <1>14, <1>15, AnsweredKeeps

LEMMA AnswerMuteKeeps ==
  ASSUME WebInv, NEW p \in Pages, NEW i \in DOMAIN flight[p], AnswerMute(p, i),
         UNCHANGED <<daemon, missed>>
  PROVE  WebInv'
<1> DEFINE o == Others(p, i)
           r == flight[p][i]
           new(x) == IF r.live /\ ~r.ok /\ x.uid = r.uid THEN [x EXCEPT !.mute = ~r.value] ELSE x
           c == [n \in DOMAIN copy[p] |-> new(copy[p][n])]
<1>1. o \in Seq(PageRequest) /\ Len(o) = Len(flight[p]) - 1 BY OthersAre DEF WebInv
<1>2. \A j \in DOMAIN o : \E k \in DOMAIN flight[p] : o[j] = flight[p][k] BY OthersAre DEF WebInv
<1>3. UNCHANGED <<dirty, stale, edited>> /\ flight' = [flight EXCEPT ![p] = o] /\ copy' = [copy EXCEPT ![p] = c]
  BY DEF AnswerMute
<1>4. r \in PageRequest /\ copy[p] \in Seq(PageRoute) BY DEF WebInv, WebTypes
<1>5. PageRight(daemon, copy[p], flight[p], dirty[p], stale[p], edited[p]) BY DEF WebInv
<1>6. ASSUME NEW x \in PageRoute PROVE new(x) \in PageRoute /\ new(x).uid = x.uid
  <2>1. (~r.value) \in BOOLEAN OBVIOUS
  <2> QED BY <2>1 DEF PageRoute
<1> HIDE DEF o, r, new
<1>7. c \in Seq(PageRoute) /\ DOMAIN c = DOMAIN copy[p] /\ \A n \in DOMAIN c : c[n].uid = copy[p][n].uid
  <2>1. \A n \in DOMAIN copy[p] : copy[p][n] \in PageRoute BY <1>4
  <2>2. c = [n \in 1..Len(copy[p]) |-> new(copy[p][n])] /\ DOMAIN copy[p] = 1..Len(copy[p])
        /\ Len(copy[p]) \in Nat
    BY <1>4
  <2> QED BY <1>6, <2>1, <2>2
<1> HIDE DEF c
<1>8. Uids(c) = Uids(copy[p]) BY <1>7 DEF Uids
<1>9. PageRight(daemon, c, o, dirty'[p], stale'[p], edited'[p]) BY <1>2, <1>3, <1>5, <1>8 DEF PageRight
<1>10. Len(o) <= Len(flight[p])
  <2>1. Len(flight[p]) \in Nat BY DEF WebInv, WebTypes
  <2> QED BY <1>1, <2>1
<1>11. dirty' \in [Pages -> BOOLEAN] /\ stale' \in [Pages -> BOOLEAN] /\ edited' \in [Pages -> BOOLEAN]
  BY <1>3 DEF WebInv, WebTypes
<1>12. \A q \in Pages : q # p => dirty'[q] = dirty[q] /\ stale'[q] = stale[q] /\ edited'[q] = edited[q] BY <1>3
<1> QED BY <1>1, <1>3, <1>7, <1>9, <1>10, <1>11, <1>12, AnsweredKeeps

LEMMA WebStarts == WebInit => WebInv
<1> SUFFICES ASSUME WebInit PROVE WebInv OBVIOUS
<1>1. PICK order \in Injection(1..Cardinality(PageRoutes), PageRoutes) :
        daemon = [n \in DOMAIN order |-> [uid |-> order[n], mute |-> FALSE]]
  BY DEF WebInit
<1>2. order \in [1..Cardinality(PageRoutes) -> PageRoutes] BY <1>1 DEF Injection
<1>3. Cardinality(PageRoutes) \in Nat BY FlightAssumption, FS_CardinalityType
<1>4. daemon \in Seq(PageRoute)
  <2> DEFINE k == Cardinality(PageRoutes)
  <2>1. k \in Nat /\ order \in [1..k -> PageRoutes] BY <1>2, <1>3
  <2> HIDE DEF k
  <2>2. daemon = [n \in 1..k |-> [uid |-> order[n], mute |-> FALSE]] BY <1>1, <2>1
  <2>3. \A n \in 1..k : [uid |-> order[n], mute |-> FALSE] \in PageRoute BY <2>1 DEF PageRoute
  <2> QED BY <2>1, <2>2, <2>3
<1>5. WebTypes
  <2>1. \A p \in Pages : flight[p] = <<>> BY DEF WebInit
  <2>2. \A p \in Pages : Len(flight[p]) <= FlightBound BY <2>1, FlightAssumption
  <2>3. flight \in [Pages -> Seq(PageRequest)] BY DEF WebInit
  <2> QED BY <1>4, <2>2, <2>3 DEF WebInit, WebTypes
<1>6. ASSUME NEW p \in Pages PROVE PageRight(daemon, copy[p], flight[p], dirty[p], stale[p], edited[p])
  <2>1. copy[p] = daemon /\ flight[p] = <<>> BY DEF WebInit
  <2> QED BY <2>1 DEF PageRight
<1> QED BY <1>5, <1>6 DEF WebInv, WebInit

LEMMA WebStays == WebInv /\ [WebNext]_webVars => WebInv'
<1> SUFFICES ASSUME WebInv, [WebNext]_webVars PROVE WebInv' OBVIOUS
<1>1. CASE UNCHANGED webVars BY <1>1 DEF webVars, WebInv, WebTypes
<1>2. CASE PutElsewhere BY <1>2, PutElsewhereKeeps
<1>3. ASSUME NEW p \in Pages, EditRoutes(p) PROVE WebInv' BY <1>3, PageEditKeeps
<1>4. ASSUME NEW p \in Pages, NEW n \in DOMAIN copy[p], SetRouteFlag(p, n) PROVE WebInv' BY <1>4, ClickKeeps
<1>5. ASSUME NEW p \in Pages, SaveAndApply(p) \/ Discard(p) PROVE WebInv' BY <1>5, AskKeeps
<1>6. ASSUME NEW p \in Pages, NEW i \in DOMAIN flight[p], Serve(p, i) PROVE WebInv' BY <1>6, ServeKeeps
<1>7. ASSUME NEW p \in Pages, NEW i \in DOMAIN flight[p], Answer(p, i) PROVE WebInv'
  <2>1. flight[p][i].served /\ UNCHANGED <<daemon, missed>> BY <1>7 DEF Answer
  <2> QED BY <1>7, <2>1, AnswerPutKeeps, AnswerApplyKeeps, AnswerGetKeeps, AnswerMuteKeeps DEF Answer
<1> QED BY <1>1, <1>2, <1>3, <1>4, <1>5, <1>6, <1>7 DEF WebNext

LEMMA WebKept == WebSpec => []WebInv
  BY WebStarts, WebStays, PTL DEF WebSpec

\* Whatever the clients of the daemon send and however it is divided, what is answered is what
\* was asked, one by one (HttpServer::Recv, ParseRequest); every browser's log pane has each line
\* once and in order through lost connections and restarts of the process, without a gap that the
\* history could have filled (onLogMessage, BeginEventStream, connectEvents); and a click on Mute
\* means the route of the card unless another configuration has got in its way (setRouteFlag).
THEOREM BrowsersFollow == HttpSpec /\ EventSpec /\ WebSpec => []BrowserFollows
<1>1. HttpSpec => []AnsweredAsSent BY HttpKept
<1>2. EventSpec => []LogFollows BY LogKept
<1>3. WebSpec => []ClickHits
  <2>1. WebInv => ClickHits BY DEF WebInv, ClickHits
  <2> QED BY <2>1, WebKept, PTL
<1>4. AnsweredAsSent /\ LogFollows /\ ClickHits => BrowserFollows BY DEF BrowserFollows
<1> QED BY <1>1, <1>2, <1>3, <1>4, PTL
=============================================================================
