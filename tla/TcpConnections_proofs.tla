------------------------ MODULE TcpConnections_proofs ------------------------
(***************************************************************************)
(* Proofs about TcpConnections, for any addresses and configured clients:  *)
(* every accepted connection has one owner until it is deleted, and is     *)
(* deleted once; every frame is routed once, in the order of its           *)
(* connection, and written in the order of routing.                        *)
(***************************************************************************)
EXTENDS TcpConnections, Induction

-----------------------------------------------------------------------------
(* Where the accepted connections are: in the queue of the server, in the  *)
(* queue of the router thread, with a thread, or deleted.                  *)

Once(s) == \A i, j \in 1..Len(s) : s[i] = s[j] => i = j

\* The connection that a thread is to delete.
ObjectOf(r) == IF r = Gone THEN 0 ELSE IF r.accepted # 0 THEN r.accepted ELSE r.tcp

Sole(Q, M, obj, del, k) ==
  /\ Q \subseteq 1..k /\ M \subseteq 1..k /\ Q \cap M = {}
  /\ \A t \in Q \cup M : del[t] = 0
  /\ \A n \in Thread : obj[n] \in Tcp => obj[n] <= k /\ obj[n] \notin Q \cup M /\ del[obj[n]] = 0
  /\ \A n1, n2 \in Thread : obj[n1] \in Tcp /\ obj[n1] = obj[n2] => n1 = n2
  /\ \A t \in Tcp : del[t] \in {0, 1} /\ (del[t] = 1 => t <= k)
  /\ \A t \in 1..k : t \in Q \cup M \/ del[t] = 1 \/ \E n \in Thread : obj[n] = t

ConstantTypes == MaxTcp \in Nat /\ Cardinality(Configured) \in Nat /\ 0 \notin Tcp /\ Own \notin Tcp /\ Own # 0

LEMMA ConstantsTyped == ConstantTypes
<1>1. MaxTcp \in Nat BY TcpAssumption
<1>2. IsFiniteSet(Configured) BY TcpAssumption, FS_Subset
<1>3. Cardinality(Configured) \in Nat BY <1>2, FS_CardinalityType
<1> QED BY <1>1, <1>3 DEF Tcp, Own, ConstantTypes

\* A connection is accepted.
LEMMA SoleAccept ==
  ASSUME NEW Q, NEW M, NEW obj, NEW del, NEW k \in 0..MaxTcp, Sole(Q, M, obj, del, k), k + 1 \in Tcp
  PROVE  Sole(Q \cup {k + 1}, M, obj, del, k + 1)
<1> USE DEF Sole
<1>1. Q \subseteq 1..k + 1 /\ M \subseteq 1..k + 1 /\ k + 1 \in 1..k + 1 /\ k + 1 \notin 1..k OBVIOUS
<1>2. del[k + 1] = 0 OBVIOUS
<1>3. \A n \in Thread : obj[n] \in Tcp => obj[n] # k + 1 /\ obj[n] <= k + 1
  <2>1. Tcp \subseteq Nat /\ k \in Nat BY ConstantsTyped DEF Tcp, ConstantTypes
  <2> TAKE n \in Thread
  <2> HAVE obj[n] \in Tcp
  <2>2. obj[n] <= k /\ obj[n] \in Nat BY <2>1, Zenon
  <2>3. \A i \in Nat : i <= k => i # k + 1 /\ i <= k + 1 BY <2>1
  <2> QED BY <2>2, <2>3, Zenon
<1>4. \A t \in Tcp : t <= k => t <= k + 1
  <2>1. Tcp \subseteq Nat BY ConstantsTyped DEF Tcp, ConstantTypes
  <2> QED BY <2>1
<1>5. \A t \in 1..k + 1 : t \in 1..k \/ t = k + 1 OBVIOUS
<1>6. \A t \in 1..k + 1 : t \in (Q \cup {k + 1}) \cup M \/ del[t] = 1 \/ \E n \in Thread : obj[n] = t BY <1>5
<1>7. (Q \cup {k + 1}) \cap M = {} BY <1>1
<1>8. \A t \in (Q \cup {k + 1}) \cup M : del[t] = 0 BY <1>2
<1>9. \A n \in Thread : obj[n] \in Tcp => obj[n] <= k + 1 /\ obj[n] \notin (Q \cup {k + 1}) \cup M /\ del[obj[n]] = 0
  BY <1>3
<1>10. \A t \in Tcp : del[t] \in {0, 1} /\ (del[t] = 1 => t <= k + 1) BY <1>4
<1>11. Q \cup {k + 1} \subseteq 1..k + 1 /\ M \subseteq 1..k + 1 BY <1>1
<1> QED BY <1>6, <1>7, <1>8, <1>9, <1>10, <1>11

\* The queue of the server becomes that of the router thread.
LEMMA SoleFlush ==
  ASSUME NEW Q, NEW obj, NEW del, NEW k, Sole(Q, {}, obj, del, k)
  PROVE  Sole({}, Q, obj, del, k)
BY DEF Sole

\* A thread is made for a connection.
LEMMA SoleAdopt ==
  ASSUME NEW Q, NEW M, NEW obj, NEW del, NEW k \in 0..MaxTcp, Sole(Q, M, obj, del, k),
         NEW t \in M, t \in Tcp, NEW n \in Thread, obj[n] \notin Tcp, NEW R, M = R \cup {t}, t \notin R,
         NEW new, new[n] = t, \A m \in Thread : m # n => new[m] = obj[m]
  PROVE  Sole(Q, R, new, del, k)
<1> USE DEF Sole
<1>1. R \subseteq M /\ t \notin Q BY Zenon
<1>2. t <= k /\ del[t] = 0 OBVIOUS
<1>3. \A m \in Thread : m # n => new[m] # t
  <2>1. \A m \in Thread : obj[m] \in Tcp => obj[m] \notin Q \cup M BY Zenon
  <2> QED BY <2>1
<1>4. \A m \in Thread : new[m] \in Tcp => new[m] <= k /\ new[m] \notin Q \cup R /\ del[new[m]] = 0
  <2> TAKE m \in Thread
  <2>1. CASE m = n BY <2>1, <1>1, <1>2
  <2>2. CASE m # n BY <2>2, <1>1
  <2> QED BY <2>1, <2>2
<1>5. \A n1, n2 \in Thread : new[n1] \in Tcp /\ new[n1] = new[n2] => n1 = n2
  <2> TAKE n1, n2 \in Thread
  <2>1. CASE n1 = n BY <2>1, <1>3
  <2>2. CASE n2 = n BY <2>2, <1>3
  <2>3. CASE n1 # n /\ n2 # n
    <3>1. new[n1] = obj[n1] /\ new[n2] = obj[n2] BY <2>3
    <3>2. obj[n1] \in Tcp /\ obj[n1] = obj[n2] => n1 = n2 BY Zenon
    <3> QED BY <3>1, <3>2
  <2> QED BY <2>1, <2>2, <2>3
<1>6. \A u \in 1..k : u \in Q \cup R \/ del[u] = 1 \/ \E m \in Thread : new[m] = u
  <2> TAKE u \in 1..k
  <2>1. CASE u = t BY <2>1
  <2>2. CASE u # t /\ \E m \in Thread : obj[m] = u
    <3>1. PICK m \in Thread : obj[m] = u BY <2>2
    <3>2. u \in Tcp BY ConstantsTyped DEF Tcp, ConstantTypes
    <3>3. m # n BY <3>1, <3>2
    <3> QED BY <3>1, <3>3
  <2>3. CASE u # t /\ (u \in Q \cup M \/ del[u] = 1) BY <2>3
  <2> QED BY <2>1, <2>2, <2>3
<1>7. Q \cap R = {} /\ R \subseteq 1..k /\ Q \subseteq 1..k BY <1>1, Zenon
<1>8. \A u \in Q \cup R : del[u] = 0 BY <1>1, Zenon
<1>9. \A u \in Tcp : del[u] \in {0, 1} /\ (del[u] = 1 => u <= k) BY Zenon
<1> QED BY <1>4, <1>5, <1>6, <1>7, <1>8, <1>9, Zenon

\* A thread deletes the connection it has, if it has one.
LEMMA SoleDelete ==
  ASSUME NEW Q, NEW M, NEW obj, NEW del, NEW k \in 0..MaxTcp, Sole(Q, M, obj, del, k),
         NEW n \in Thread, NEW new, new[n] \notin Tcp, \A m \in Thread : m # n => new[m] = obj[m],
         NEW later, \A t \in Tcp : later[t] = IF t = obj[n] THEN del[t] + 1 ELSE del[t]
  PROVE  Sole(Q, M, new, later, k)
<1> USE DEF Sole
<1>1. 1..k \subseteq Tcp BY ConstantsTyped DEF Tcp, ConstantTypes
<1>2. \A t \in Q \cup M : t # obj[n] /\ t \in Tcp
  <2>1. obj[n] \in Tcp => obj[n] \notin Q \cup M BY Zenon
  <2> QED BY <2>1, <1>1
<1>3. \A t \in Q \cup M : later[t] = 0 BY <1>2
<1>4. \A m \in Thread : m # n /\ obj[m] \in Tcp => obj[m] # obj[n] BY Zenon
<1>5. \A m \in Thread : new[m] \in Tcp => new[m] <= k /\ new[m] \notin Q \cup M /\ later[new[m]] = 0
  <2> TAKE m \in Thread
  <2> HAVE new[m] \in Tcp
  <2>1. m # n /\ new[m] = obj[m] OBVIOUS
  <2>2. obj[m] <= k /\ obj[m] \notin Q \cup M /\ del[obj[m]] = 0 BY <2>1, Zenon
  <2> QED BY <2>1, <2>2, <1>4
<1>6. \A n1, n2 \in Thread : new[n1] \in Tcp /\ new[n1] = new[n2] => n1 = n2
  <2> TAKE n1, n2 \in Thread
  <2> HAVE new[n1] \in Tcp /\ new[n1] = new[n2]
  <2>1. n1 # n /\ n2 # n OBVIOUS
  <2>2. obj[n1] \in Tcp /\ obj[n1] = obj[n2] BY <2>1
  <2> QED BY <2>2, Zenon
<1>7. \A t \in Tcp : later[t] \in {0, 1} /\ (later[t] = 1 => t <= k)
  <2> TAKE t \in Tcp
  <2>1. CASE t = obj[n]
    <3>1. t <= k /\ del[t] = 0 BY <2>1, Zenon
    <3> QED BY <2>1, <3>1
  <2>2. CASE t # obj[n]
    <3>1. del[t] \in {0, 1} /\ (del[t] = 1 => t <= k) BY Zenon
    <3> QED BY <2>2, <3>1
  <2> QED BY <2>1, <2>2
<1>8. \A t \in 1..k : t \in Q \cup M \/ later[t] = 1 \/ \E m \in Thread : new[m] = t
  <2> TAKE t \in 1..k
  <2>1. t \in Tcp BY <1>1
  <2>2. CASE t = obj[n]
    <3>1. del[t] = 0 BY <2>1, <2>2, Zenon
    <3> QED BY <2>1, <2>2, <3>1
  <2>3. CASE t # obj[n]
    <3>1. t \in Q \cup M \/ del[t] = 1 \/ \E m \in Thread : obj[m] = t BY Zenon
    <3> QED BY <2>1, <2>3, <3>1
  <2> QED BY <2>2, <2>3
<1>9. Q \cap M = {} /\ M \subseteq 1..k /\ Q \subseteq 1..k BY Zenon
<1> QED BY <1>3, <1>5, <1>6, <1>7, <1>8, <1>9, Zenon

\* The thread of the server is deleted with its queue.
LEMMA SoleDrain ==
  ASSUME NEW Q, NEW M, NEW obj, NEW del, NEW k \in 0..MaxTcp, Sole(Q, M, obj, del, k),
         NEW later, \A t \in Tcp : later[t] = IF t \in Q THEN del[t] + 1 ELSE del[t]
  PROVE  Sole({}, M, obj, later, k)
<1> USE DEF Sole
<1>1. 1..k \subseteq Tcp BY ConstantsTyped DEF Tcp, ConstantTypes
<1>2. \A t \in M : later[t] = 0
  <2> TAKE t \in M
  <2>1. t \in Tcp /\ t \notin Q /\ del[t] = 0 BY <1>1
  <2> QED BY <2>1
<1>3. \A m \in Thread : obj[m] \in Tcp => obj[m] <= k /\ obj[m] \notin M /\ later[obj[m]] = 0
  <2> TAKE m \in Thread
  <2> HAVE obj[m] \in Tcp
  <2>1. obj[m] <= k /\ obj[m] \notin Q \cup M /\ del[obj[m]] = 0 BY Zenon
  <2> QED BY <2>1
<1>4. \A t \in Tcp : later[t] \in {0, 1} /\ (later[t] = 1 => t <= k)
  <2> TAKE t \in Tcp
  <2>1. CASE t \in Q
    <3>1. t \in 1..k /\ del[t] = 0 BY <2>1, Zenon
    <3> QED BY <2>1, <3>1
  <2>2. CASE t \notin Q
    <3>1. del[t] \in {0, 1} /\ (del[t] = 1 => t <= k) BY Zenon
    <3> QED BY <2>2, <3>1
  <2> QED BY <2>1, <2>2
<1>5. \A t \in 1..k : t \in M \/ later[t] = 1 \/ \E m \in Thread : obj[m] = t
  <2> TAKE t \in 1..k
  <2>1. t \in Tcp BY <1>1
  <2>2. CASE t \in Q
    <3>1. del[t] = 0 BY <2>2, Zenon
    <3> QED BY <2>1, <2>2, <3>1
  <2>3. CASE t \notin Q
    <3>1. t \in M \/ del[t] = 1 \/ \E m \in Thread : obj[m] = t BY <2>3, Zenon
    <3> QED BY <2>1, <2>3, <3>1
  <2> QED BY <2>2, <2>3
<1>6. \A n1, n2 \in Thread : obj[n1] \in Tcp /\ obj[n1] = obj[n2] => n1 = n2 BY Zenon
<1>7. M \subseteq 1..k BY Zenon
<1> QED BY <1>2, <1>3, <1>4, <1>5, <1>6, <1>7

\* What the threads are to delete stays the same.
LEMMA SoleKept ==
  ASSUME NEW Q, NEW M, NEW obj, NEW del, NEW k \in 0..MaxTcp, Sole(Q, M, obj, del, k), NEW new,
         \A n \in Thread : new[n] = obj[n] \/ {new[n], obj[n]} \cap Tcp = {}
  PROVE  Sole(Q, M, new, del, k)
<1> USE DEF Sole
<1>1. 1..k \subseteq Tcp BY ConstantsTyped DEF Tcp, ConstantTypes
<1>2. \A n \in Thread : new[n] \in Tcp \/ obj[n] \in Tcp => new[n] = obj[n] OBVIOUS
<1>3. \A n \in Thread : new[n] \in Tcp => new[n] <= k /\ new[n] \notin Q \cup M /\ del[new[n]] = 0
  <2> TAKE n \in Thread
  <2> HAVE new[n] \in Tcp
  <2>1. new[n] = obj[n] BY <1>2
  <2>2. obj[n] <= k /\ obj[n] \notin Q \cup M /\ del[obj[n]] = 0 BY <2>1, Zenon
  <2> QED BY <2>1, <2>2
<1>4. \A n1, n2 \in Thread : new[n1] \in Tcp /\ new[n1] = new[n2] => n1 = n2
  <2> TAKE n1, n2 \in Thread
  <2> HAVE new[n1] \in Tcp /\ new[n1] = new[n2]
  <2>1. new[n1] = obj[n1] /\ new[n2] = obj[n2] BY <1>2
  <2> QED BY <2>1, Zenon
<1>5. \A t \in 1..k : t \in Q \cup M \/ del[t] = 1 \/ \E m \in Thread : new[m] = t
  <2> TAKE t \in 1..k
  <2>1. t \in Tcp BY <1>1
  <2>2. t \in Q \cup M \/ del[t] = 1 \/ \E m \in Thread : obj[m] = t BY Zenon
  <2> QED BY <2>1, <2>2, <1>2
<1>6. \A t \in Tcp : del[t] \in {0, 1} /\ (del[t] = 1 => t <= k) BY Zenon
<1>7. Q \cap M = {} /\ M \subseteq 1..k /\ Q \subseteq 1..k /\ \A t \in Q \cup M : del[t] = 0 BY Zenon
<1> QED BY <1>3, <1>4, <1>5, <1>6, <1>7, Zenon

-----------------------------------------------------------------------------
(* The ranks of the configured addresses.                                  *)

LEMMA RanksDiffer ==
  /\ \A a \in Configured : Rank(a) \in 1..Cardinality(Configured)
  /\ \A a, b \in Configured : Rank(a) = Rank(b) => a = b
<1> DEFINE upTo(a) == {b \in Configured : b <= a}
<1>1. IsFiniteSet(Configured) /\ Configured \subseteq Nat BY TcpAssumption, FS_Subset
<1>2. \A a \in Configured : IsFiniteSet(upTo(a)) /\ Cardinality(upTo(a)) <= Cardinality(Configured)
  <2> TAKE a \in Configured
  <2>1. upTo(a) \in SUBSET Configured OBVIOUS
  <2> HIDE DEF upTo
  <2> QED BY <2>1, <1>1, FS_Subset
<1>3. \A a \in Configured : a \in upTo(a) BY <1>1
<1>4. \A a \in Configured : Cardinality(upTo(a)) \in Nat /\ Cardinality(upTo(a)) # 0
  <2> TAKE a \in Configured
  <2>1. IsFiniteSet(upTo(a)) /\ upTo(a) # {} BY <1>2, <1>3
  <2> HIDE DEF upTo
  <2> QED BY <2>1, FS_CardinalityType, FS_EmptySet
<1>5. Cardinality(Configured) \in Nat BY <1>1, FS_CardinalityType
<1>6. \A a \in Configured : Cardinality(upTo(a)) \in 1..Cardinality(Configured)
  <2> HIDE DEF upTo
  <2> QED BY <1>2, <1>4, <1>5
<1>7. ASSUME NEW a \in Configured, NEW b \in Configured, a < b PROVE Cardinality(upTo(a)) # Cardinality(upTo(b))
  <2>1. upTo(a) \in SUBSET upTo(b)
    <3>1. \A c \in Configured : c <= a => c <= b BY <1>7, <1>1
    <3> QED BY <3>1
  <2>2. b \in upTo(b) /\ b \notin upTo(a) BY <1>7, <1>1
  <2>3. IsFiniteSet(upTo(b)) BY <1>2
  <2> HIDE DEF upTo
  <2> QED BY <2>1, <2>2, <2>3, FS_Subset
<1>8. \A a \in Configured : Rank(a) = Cardinality(upTo(a)) BY DEF Rank
<1>9. ASSUME NEW a \in Configured, NEW b \in Configured, Rank(a) = Rank(b) PROVE a = b
  <2>1. a \in Nat /\ b \in Nat BY <1>1
  <2>2. a < b \/ b < a \/ a = b BY <2>1
  <2> QED
    <3> HIDE DEF upTo
    <3> QED BY <2>2, <1>7, <1>8, <1>9
<1> QED
  <2> HIDE DEF upTo
  <2> QED BY <1>6, <1>8, <1>9

LEMMA RankOfAddress ==
  /\ \A a \in Configured : AtRank(Rank(a)) = a
  /\ \A n \in 1..Cardinality(Configured) : AtRank(n) \in Configured /\ Rank(AtRank(n)) = n
<1> DEFINE f == [a \in Configured |-> Rank(a)]
           T == 1..Cardinality(Configured)
<1>1. IsFiniteSet(Configured) BY TcpAssumption, FS_Subset
<1>2. Cardinality(Configured) \in Nat BY <1>1, FS_CardinalityType
<1>3. IsFiniteSet(T) /\ Cardinality(T) = Cardinality(Configured)
  <2>1. IsFiniteSet(T) BY <1>2, FS_Interval
  <2>2. Cardinality(T) = IF 1 > Cardinality(Configured) THEN 0 ELSE Cardinality(Configured) - 1 + 1
    BY <1>2, FS_Interval
  <2> QED BY <2>1, <2>2, <1>2
<1>4. f \in Injection(Configured, T)
  <2>1. f \in [Configured -> T] BY RanksDiffer
  <2>2. \A a, b \in Configured : f[a] = f[b] => a = b BY RanksDiffer
  <2> QED BY <2>1, <2>2 DEF Injection, IsInjective
<1>5. f \in Surjection(Configured, T)
  <2> HIDE DEF f, T
  <2> QED BY <1>3, <1>4, FS_Injection
<1>6. \A n \in T : \E a \in Configured : Rank(a) = n
  <2>1. \A n \in T : \E a \in Configured : f[a] = n
    <3> HIDE DEF f, T
    <3> QED BY <1>5 DEF Surjection
  <2> QED BY <2>1
<1> QED BY <1>6, RanksDiffer DEF AtRank

\* A set of addresses has a least one.
LEMMA LeastAddress ==
  ASSUME NEW S, S \subseteq Addr, S # {}
  PROVE  Min(S) \in S
<1>1. S \subseteq Nat BY TcpAssumption
<1>2. PICK n \in S : TRUE OBVIOUS
<1>3. n \in Nat /\ S \cap 0..n # {} /\ S \cap 0..n \subseteq 0..n BY <1>1, <1>2
<1>4. PICK m \in S \cap 0..n : \A i \in S \cap 0..n : m <= i BY <1>3, LeastNumber
<1>5. \A i \in S : m <= i
  <2> TAKE i \in S
  <2>1. i \in Nat /\ m \in Nat /\ m <= n BY <1>1, <1>3
  <2>2. CASE i \in 0..n BY <2>2, <1>4
  <2>3. CASE i \notin 0..n BY <2>1, <2>3, <1>3
  <2> QED BY <2>2, <2>3
<1>6. m \in S OBVIOUS
<1> QED BY <1>5, <1>6 DEF Min

-----------------------------------------------------------------------------
(* The inductive invariant.                                                *)

ServerRecord ==
  [run: BOOLEAN, pc: {"loop", "listening", "close", "ended", "deleted"}, q: Seq(Tcp)]

MainRecord ==
  [pc: {"top", "server", "flush", "adopt", "replace", "clients", "visit", "route",
        "stopServer", "joinServer", "stopClients", "joinClient", "done"},
   run: BOOLEAN, running: BOOLEAN, connQ: Seq(Tcp), recvQ: Seq(Frame), todo: SUBSET Addr]

Types ==
  /\ tcps \in 0..MaxTcp /\ deleted \in [Tcp -> Nat] /\ addrOf \in [Tcp -> Addr \cup {0}]
  /\ threads \in Nat /\ thread \in [Thread -> ThreadRecord \cup {Gone}]
  /\ clientAt \in [Addr -> Thread \cup {0}]
  /\ server \in ServerRecord /\ main \in MainRecord
  /\ frames \in 0..MaxFrames

\* A thread has taken its connection or holds it, not both.
ThreadOK(r) == IF r.pc \in {"loop", "ended"} THEN r.tcp = 0 ELSE r.accepted = 0

ThreadsOK(th) == \A n \in Thread : th[n] # Gone => ThreadOK(th[n])

\* The map has the threads that exist, each at its address.
MapOK(th, at, k) ==
  /\ \A n \in Thread : th[n] # Gone => n <= k /\ at[th[n].addr] = n
  /\ \A a \in Addr : at[a] # 0 => th[at[a]] # Gone /\ th[at[a]].addr = a

\* Where the router thread is, what it has still to do and what it knows of the server.
MainOK(m, s, at, addr) ==
  /\ m.pc \notin {"adopt", "replace"} => m.connQ = <<>>
  /\ m.pc = "replace" => m.connQ # <<>> /\ at[addr[Head(m.connQ)]] # 0
  /\ m.pc \in {"clients", "visit", "route", "joinServer", "stopClients", "joinClient"} =>
       \A a \in m.todo : at[a] # 0
  /\ m.pc \in {"joinServer", "stopClients", "joinClient"} => \A a \in Addr : at[a] # 0 => a \in m.todo
  /\ m.pc \in {"visit", "route", "joinClient"} => m.todo # {}
  /\ m.pc \in {"flush", "adopt", "replace"} /\ ~m.running => s.pc = "ended"
  /\ m.pc \in {"adopt", "replace"} /\ ~m.running => s.q = <<>>
  /\ s.pc = "deleted" => s.q = <<>>
  /\ m.pc \in {"stopClients", "joinClient", "done"} => s.pc = "deleted"
  /\ m.pc = "done" => \A a \in Addr : at[a] = 0

\* Every connection that waits will get a thread of its own.
Room(k, q, m, n) == k + Len(q) + Len(m) <= Cardinality(Configured) + n

Objects(th) == [n \in Thread |-> ObjectOf(th[n])]

Owned(q, m, th, del, k) ==
  Once(q) /\ Once(m) /\ Sole(Range(q), Range(m), Objects(th), del, k)

Inv ==
  /\ Types
  /\ \A t \in 1..tcps : addrOf[t] \in Addr
  /\ ThreadsOK(thread)
  /\ MapOK(thread, clientAt, threads)
  /\ MainOK(main, server, clientAt, addrOf)
  /\ Room(threads, server.q, main.connQ, tcps)
  /\ Owned(server.q, main.connQ, thread, deleted, tcps)

LEMMA InvInit == Init => Inv
<1> SUFFICES ASSUME Init PROVE Inv OBVIOUS
<1> USE DEF Init
<1>0. MaxTcp \in Nat /\ Cardinality(Configured) \in Nat /\ 0 \notin Tcp BY ConstantsTyped DEF ConstantTypes
<1>1. \A a \in Configured : Rank(a) \in Thread /\ Rank(a) <= threads /\ Rank(a) # 0
  BY <1>0, RanksDiffer DEF Thread
<1>2. \A n \in Thread : n <= threads => n \in 1..Cardinality(Configured) BY <1>0 DEF Thread
<1>3. \A n \in Thread : n <= threads => AtRank(n) \in Configured /\ Rank(AtRank(n)) = n BY <1>2, RankOfAddress
<1>4. Configured \subseteq Addr /\ Reconnects \in BOOLEAN BY TcpAssumption
<1>5. \A a \in Addr : Started(a, 0, Reconnects) \in ThreadRecord
  BY <1>4 DEF Started, ThreadRecord
<1>6. \A n \in Thread : n <= threads => thread[n] = Started(AtRank(n), 0, Reconnects) /\ thread[n] \in ThreadRecord
  BY <1>3, <1>4, <1>5
<1>7. \A n \in Thread : ~(n <= threads) => thread[n] = Gone OBVIOUS
<1>8. thread \in [Thread -> ThreadRecord \cup {Gone}]
  <2>1. DOMAIN thread = Thread OBVIOUS
  <2>2. thread = [n \in Thread |-> thread[n]] OBVIOUS
  <2>3. \A n \in Thread : thread[n] \in ThreadRecord \cup {Gone} BY <1>6, <1>7
  <2> QED BY <2>2, <2>3
<1>9. \A n \in Thread : thread[n] # Gone => n <= threads BY <1>7
<1>10. clientAt \in [Addr -> Thread \cup {0}] BY <1>1
<1>11. \A a \in Configured : clientAt[a] = Rank(a) BY <1>4
<1>12. \A a \in Addr : clientAt[a] # 0 => a \in Configured OBVIOUS
<1>13. Types
  <2>1. server \in ServerRecord BY DEF ServerRecord
  <2>2. main \in MainRecord BY DEF MainRecord
  <2>3. frames \in 0..MaxFrames /\ tcps \in 0..MaxTcp /\ threads \in Nat BY <1>0, TcpAssumption
  <2>4. deleted \in [Tcp -> Nat] /\ addrOf \in [Tcp -> Addr \cup {0}] OBVIOUS
  <2> QED BY <1>8, <1>10, <2>1, <2>2, <2>3, <2>4 DEF Types
<1>14. ThreadsOK(thread)
  <2>1. \A n \in Thread : thread[n] # Gone => thread[n].pc = "loop" /\ thread[n].tcp = 0
    BY <1>6, <1>9 DEF Started
  <2> QED BY <2>1 DEF ThreadsOK, ThreadOK
<1>15. MapOK(thread, clientAt, threads)
  <2>1. ASSUME NEW n \in Thread, thread[n] # Gone PROVE n <= threads /\ clientAt[thread[n].addr] = n
    <3>1. thread[n].addr = AtRank(n) BY <1>6, <1>9, <2>1 DEF Started
    <3> QED BY <3>1, <2>1, <1>9, <1>3, <1>11
  <2>2. ASSUME NEW a \in Addr, clientAt[a] # 0 PROVE thread[clientAt[a]] # Gone /\ thread[clientAt[a]].addr = a
    <3>1. a \in Configured /\ clientAt[a] = Rank(a) /\ Rank(a) \in Thread /\ Rank(a) <= threads
      BY <2>2, <1>1, <1>11, <1>12
    <3>2. thread[Rank(a)] = Started(AtRank(Rank(a)), 0, Reconnects) /\ thread[Rank(a)] \in ThreadRecord BY <3>1, <1>6
    <3>3. AtRank(Rank(a)) = a BY <3>1, RankOfAddress
    <3> QED BY <3>1, <3>2, <3>3, GoneAssumption DEF Started
  <2> QED BY <2>1, <2>2 DEF MapOK
<1>16. MainOK(main, server, clientAt, addrOf) BY DEF MainOK
<1>17. Room(threads, server.q, main.connQ, tcps)
  <2>1. server.q = <<>> /\ main.connQ = <<>> /\ tcps = 0 /\ threads = Cardinality(Configured) OBVIOUS
  <2> QED BY <2>1, <1>0 DEF Room
<1>18. Owned(server.q, main.connQ, thread, deleted, tcps)
  <2>1. server.q = <<>> /\ main.connQ = <<>> OBVIOUS
  <2>2. Once(<<>>) BY DEF Once
  <2>3. \A n \in Thread : Objects(thread)[n] = 0
    <3>1. \A n \in Thread : thread[n] # Gone => thread[n].accepted = 0 /\ thread[n].tcp = 0
      BY <1>6, <1>9 DEF Started
    <3> QED BY <3>1 DEF Objects, ObjectOf
  <2>4. Sole({}, {}, Objects(thread), deleted, 0) BY <2>3, <1>0 DEF Sole
  <2> QED BY <2>1, <2>2, <2>4, RangeEmpty DEF Owned
<1>19. \A t \in 1..tcps : addrOf[t] \in Addr OBVIOUS
<1> QED BY <1>13, <1>14, <1>15, <1>16, <1>17, <1>18, <1>19 DEF Inv

-----------------------------------------------------------------------------
(* The steps of the server's thread and of the connections' threads.       *)

\* A thread that is Gone is no record.
LEMMA AliveIsRecord ==
  ASSUME Types, NEW n \in Thread, thread[n] # Gone
  PROVE  thread[n] \in ThreadRecord
BY DEF Types

LEMMA ServerSteps ==
  ASSUME Inv, NEW new, ServerChange(new), new \in ServerRecord, new.q = server.q,
         server.pc \notin {"ended", "deleted"}, new.pc # "deleted"
  PROVE  Inv'
<1> USE DEF Inv, ServerChange, tcpVars, frameVars
<1>1. Types' BY DEF Types
<1>2. MainOK(main, new, clientAt, addrOf) BY DEF MainOK
<1> QED BY <1>1, <1>2

LEMMA ServerKeeps ==
  ASSUME Inv, ServerListen \/ ServerLeave \/ ServerClose \/ ServerEnd
  PROVE  Inv'
<1>1. server \in ServerRecord BY DEF Inv, Types
<1>2. CASE ServerListen
  <2>1. PICK ok \in BOOLEAN : ServerChange([server EXCEPT !.pc = IF ok THEN "listening" ELSE "close"])
    BY <1>2 DEF ServerListen
  <2>2. server.pc = "loop" BY <1>2 DEF ServerListen
  <2> QED BY <1>1, <2>1, <2>2, ServerSteps DEF ServerRecord
<1>3. CASE ServerLeave
  BY <1>1, <1>3, ServerSteps DEF ServerLeave, ServerRecord
<1>4. CASE ServerClose
  BY <1>1, <1>4, ServerSteps DEF ServerClose, ServerRecord
<1>5. CASE ServerEnd
  BY <1>1, <1>5, ServerSteps DEF ServerEnd, ServerRecord
<1> QED BY <1>2, <1>3, <1>4, <1>5

LEMMA AcceptKeeps ==
  ASSUME Inv, NEW a \in Addr, ServerAccept(a)
  PROVE  Inv'
<1> USE DEF Inv, ServerAccept, frameVars
<1>0. MaxTcp \in Nat /\ Cardinality(Configured) \in Nat BY ConstantsTyped DEF ConstantTypes
<1>1. server \in ServerRecord /\ server.q \in Seq(Tcp) /\ main \in MainRecord /\ main.connQ \in Seq(Tcp)
  BY DEF Types, ServerRecord, MainRecord
<1>2. tcps \in 0..MaxTcp /\ tcps + 1 \in Tcp /\ tcps + 1 \in 0..MaxTcp BY <1>0 DEF Types, Tcp
<1>3. server'.q = Append(server.q, tcps + 1) /\ server'.pc = "listening" BY <1>1 DEF ServerRecord
<1>4. Append(server.q, tcps + 1) \in Seq(Tcp)
      /\ Range(Append(server.q, tcps + 1)) = Range(server.q) \cup {tcps + 1}
  BY <1>1, <1>2, RangeAppend
<1>5. server' \in ServerRecord BY <1>1, <1>4 DEF ServerRecord
<1>6. Types'
  <2>1. addrOf' \in [Tcp -> Addr \cup {0}] BY DEF Types
  <2>2. threads' = threads /\ thread' = thread /\ clientAt' = clientAt /\ main' = main /\ deleted' = deleted
        /\ frames' = frames OBVIOUS
  <2> QED BY <1>2, <1>5, <2>1, <2>2 DEF Types
<1>7. \A t \in 1..tcps' : addrOf'[t] \in Addr
  <2>1. \A t \in 1..tcps + 1 : t \in 1..tcps \/ t = tcps + 1 BY <1>2
  <2>2. \A t \in 1..tcps + 1 : t \in Tcp BY <1>2, <1>0 DEF Tcp
  <2>3. addrOf \in [Tcp -> Addr \cup {0}] BY DEF Types
  <2> QED BY <2>1, <2>2, <2>3
<1>8. MainOK(main, server', clientAt, addrOf')
  <2>1. \A t \in 1..tcps : addrOf'[t] = addrOf[t] BY <1>2 DEF Types
  <2>2. main.pc = "replace" => Head(main.connQ) \in 1..tcps
    <3>1. Range(main.connQ) \subseteq 1..tcps BY DEF Owned, Sole
    <3>2. main.connQ # <<>> => Head(main.connQ) \in Range(main.connQ) BY <1>1, RangeHeadTail
    <3> QED BY <3>1, <3>2 DEF MainOK
  <2>3. main.pc \in {"flush", "adopt", "replace"} => main.running BY DEF MainOK, Types, MainRecord
  <2> QED BY <1>3, <2>1, <2>2, <2>3 DEF MainOK
<1>9. Room(threads, server'.q, main.connQ, tcps')
  <2>1. Len(Append(server.q, tcps + 1)) = Len(server.q) + 1 /\ Len(server.q) \in Nat /\ Len(main.connQ) \in Nat
    BY <1>1, <1>2
  <2>2. threads \in Nat BY DEF Types
  <2>3. threads + Len(server.q) + Len(main.connQ) <= Cardinality(Configured) + tcps BY DEF Room
  <2>4. tcps \in Nat BY <1>2, <1>0
  <2>5. threads + (Len(server.q) + 1) + Len(main.connQ) <= Cardinality(Configured) + (tcps + 1)
    <3>1. \A i, j, k, l, n \in Nat : i + j + k <= l + n => i + (j + 1) + k <= l + (n + 1) OBVIOUS
    <3> QED BY <1>0, <2>1, <2>2, <2>3, <2>4, <3>1, Zenon
  <2>6. tcps' = tcps + 1 OBVIOUS
  <2> QED BY <1>3, <2>1, <2>5, <2>6 DEF Room
<1>10. Owned(server'.q, main.connQ, thread, deleted, tcps')
  <2>1. Once(Append(server.q, tcps + 1))
    <3>1. Range(server.q) \subseteq 1..tcps BY DEF Owned, Sole
    <3>2. \A i \in 1..Len(server.q) : server.q[i] \in Range(server.q) BY <1>1 DEF Range
    <3>3. \A i \in 1..Len(server.q) : server.q[i] # tcps + 1 BY <3>1, <3>2, <1>2
    <3>4. Once(server.q) BY DEF Owned
    <3>5. \A i \in 1..Len(Append(server.q, tcps + 1)) :
            i \in 1..Len(server.q) \/ i = Len(server.q) + 1 BY <1>1, <1>2
    <3>6. \A i \in 1..Len(server.q) : Append(server.q, tcps + 1)[i] = server.q[i] BY <1>1, <1>2
    <3>7. Append(server.q, tcps + 1)[Len(server.q) + 1] = tcps + 1 BY <1>1, <1>2
    <3> QED BY <3>3, <3>4, <3>5, <3>6, <3>7 DEF Once
  <2>2. Sole(Range(server.q) \cup {tcps + 1}, Range(main.connQ), Objects(thread), deleted, tcps + 1)
    BY <1>2, SoleAccept DEF Owned
  <2> QED BY <2>1, <2>2, <1>3, <1>4 DEF Owned
<1> QED BY <1>3, <1>6, <1>7, <1>8, <1>9, <1>10

\* A thread that stays at its address and keeps what it is to delete.
LEMMA ThreadStays ==
  ASSUME Inv, NEW n \in Thread, thread[n] # Gone, NEW new \in ThreadRecord,
         new.addr = thread[n].addr, ThreadOK(new),
         ObjectOf(new) = ObjectOf(thread[n]) \/ {ObjectOf(new), ObjectOf(thread[n])} \cap Tcp = {},
         NEW th, th = [thread EXCEPT ![n] = new]
  PROVE  /\ th \in [Thread -> ThreadRecord \cup {Gone}] /\ ThreadsOK(th) /\ MapOK(th, clientAt, threads)
         /\ Owned(server.q, main.connQ, th, deleted, tcps)
<1> USE DEF Inv
<1>1. thread \in [Thread -> ThreadRecord \cup {Gone}] /\ tcps \in 0..MaxTcp BY DEF Types
<1>2. th[n] = new /\ th[n] # Gone /\ \A m \in Thread : m # n => th[m] = thread[m]
  BY <1>1, GoneAssumption
<1>3. th \in [Thread -> ThreadRecord \cup {Gone}] BY <1>1
<1>4. ThreadsOK(th) BY <1>2 DEF ThreadsOK
<1>5. MapOK(th, clientAt, threads)
  <2>1. \A m \in Thread : (th[m] # Gone <=> thread[m] # Gone) /\ th[m].addr = thread[m].addr BY <1>2
  <2>2. \A a \in Addr : clientAt[a] # 0 => clientAt[a] \in Thread BY DEF Types
  <2> QED BY <2>1, <2>2 DEF MapOK
<1>6. \A m \in Thread : Objects(th)[m] = Objects(thread)[m]
                         \/ {Objects(th)[m], Objects(thread)[m]} \cap Tcp = {}
  BY <1>2 DEF Objects
<1>7. Sole(Range(server.q), Range(main.connQ), Objects(th), deleted, tcps)
  BY <1>1, <1>6, SoleKept DEF Owned
<1> QED BY <1>3, <1>4, <1>5, <1>7 DEF Owned

LEMMA ThreadStep ==
  ASSUME Inv, NEW n \in Thread, thread[n] # Gone, NEW new \in ThreadRecord,
         new.addr = thread[n].addr, ThreadOK(new),
         ObjectOf(new) = ObjectOf(thread[n]) \/ {ObjectOf(new), ObjectOf(thread[n])} \cap Tcp = {},
         ThreadChange(n, new), deleted' = deleted, tcps' = tcps, frames' \in 0..MaxFrames
  PROVE  Inv'
<1>1. addrOf' = addrOf /\ threads' = threads /\ clientAt' = clientAt /\ server' = server /\ main' = main
      /\ thread' = [thread EXCEPT ![n] = new]
  BY DEF ThreadChange
<1>2. /\ thread' \in [Thread -> ThreadRecord \cup {Gone}] /\ ThreadsOK(thread')
      /\ MapOK(thread', clientAt, threads) /\ Owned(server.q, main.connQ, thread', deleted, tcps)
  BY <1>1, ThreadStays
<1>3. Types' BY <1>1, <1>2 DEF Inv, Types
<1>4. MainOK(main', server', clientAt', addrOf') /\ Room(threads', server'.q, main'.connQ, tcps')
  BY <1>1 DEF Inv
<1> QED BY <1>1, <1>2, <1>3, <1>4 DEF Inv

\* Every step of a connection's thread.
LEMMA ThreadKeeps ==
  ASSUME Inv, NEW n \in Thread,
         Client(n) \/ ThreadRecv(n) \/ ThreadSend(n) \/ ThreadLeave(n)
  PROVE  Inv'
<1> DEFINE r == thread[n]
<1>1. thread[n] # Gone
  BY DEF Client, ThreadRecv, ThreadSend, ThreadLeave, ThreadTake, ThreadOpen, ThreadClose, ThreadEnd, Alive
<1>2. r \in ThreadRecord /\ ThreadOK(r) /\ r # Gone
  BY <1>1, AliveIsRecord DEF Inv, ThreadsOK
<1>3. frames \in 0..MaxFrames /\ MaxFrames \in Nat /\ 0 \notin Tcp /\ Own \notin Tcp /\ Own # 0
  BY ConstantsTyped, TcpAssumption DEF ConstantTypes, Inv, Types
<1>4. CASE ThreadTake(n)
  <2> DEFINE new == [r EXCEPT !.tcp = IF r.accepted = 0 THEN Own ELSE r.accepted, !.accepted = 0, !.pc = "opening"]
  <2>1. r.pc = "loop" /\ ThreadChange(n, new) /\ deleted' = deleted /\ tcps' = tcps /\ frames' = frames
    BY <1>4 DEF ThreadTake, frameVars
  <2>2. new \in ThreadRecord BY <1>2 DEF ThreadRecord
  <2>3. new.addr = r.addr /\ new.accepted = 0 /\ new.pc = "opening"
        /\ new.tcp = IF r.accepted = 0 THEN Own ELSE r.accepted
    BY <1>2 DEF ThreadRecord
  <2>4. ThreadOK(new) BY <2>3 DEF ThreadOK
  <2>5. ObjectOf(new) = ObjectOf(r) \/ {ObjectOf(new), ObjectOf(r)} \cap Tcp = {}
    <3>1. new # Gone BY <2>2, GoneAssumption
    <3>2. ObjectOf(new) = new.tcp BY <2>3, <3>1 DEF ObjectOf
    <3>3. CASE r.accepted = 0
      <4>1. r.tcp = 0 BY <2>1, <1>2 DEF ThreadOK
      <4>2. ObjectOf(r) = 0 BY <4>1, <3>3, <1>2 DEF ObjectOf
      <4> QED BY <3>2, <3>3, <4>2, <2>3, <1>3
    <3>4. CASE r.accepted # 0
      <4>1. ObjectOf(r) = r.accepted BY <3>4, <1>2 DEF ObjectOf
      <4> QED BY <3>2, <3>4, <4>1, <2>3
    <3> QED BY <3>3, <3>4
  <2> HIDE DEF new
  <2> QED BY <1>1, <1>3, <2>1, <2>2, <2>3, <2>4, <2>5, ThreadStep
<1>5. ASSUME NEW new \in ThreadRecord, ThreadChange(n, new), deleted' = deleted, tcps' = tcps,
             frames' \in 0..MaxFrames, new.addr = r.addr, new.accepted = r.accepted, new.tcp = r.tcp,
             (new.pc \in {"loop", "ended"}) <=> (r.pc \in {"loop", "ended"})
      PROVE  Inv'
  <2>1. new # Gone BY GoneAssumption
  <2>2. ObjectOf(new) = ObjectOf(r) BY <1>2, <1>5, <2>1 DEF ObjectOf
  <2>3. ThreadOK(new) BY <1>2, <1>5 DEF ThreadOK
  <2> QED BY <1>1, <1>5, <2>2, <2>3, ThreadStep
<1>6. CASE ThreadOpen(n)
  <2>1. r.pc = "opening" /\ deleted' = deleted /\ tcps' = tcps /\ frames' = frames
    BY <1>6 DEF ThreadOpen, frameVars
  <2>2. PICK new \in {[r EXCEPT !.pc = "open", !.up = TRUE], [r EXCEPT !.pc = "close"]} : ThreadChange(n, new)
    BY <1>6 DEF ThreadOpen
  <2>3. new \in ThreadRecord /\ new.addr = r.addr /\ new.accepted = r.accepted /\ new.tcp = r.tcp
        /\ new.pc \in {"open", "close"}
    BY <1>2 DEF ThreadRecord
  <2> QED BY <1>3, <1>5, <2>1, <2>2, <2>3
<1>7. CASE ThreadRecv(n)
  <2> DEFINE new == [r EXCEPT !.recvQ = Append(@, frames + 1)]
  <2>1. r.pc = "open" /\ ThreadChange(n, new) /\ deleted' = deleted /\ tcps' = tcps /\ frames' = frames + 1
        /\ frames < MaxFrames
    BY <1>7 DEF ThreadRecv
  <2>2. frames + 1 \in Frame /\ frames + 1 \in 0..MaxFrames BY <1>3, <2>1 DEF Frame
  <2>3. Append(r.recvQ, frames + 1) \in Seq(Frame) BY <1>2, <2>2 DEF ThreadRecord
  <2>4. new \in ThreadRecord /\ new.addr = r.addr /\ new.accepted = r.accepted /\ new.tcp = r.tcp
        /\ new.pc = r.pc
    BY <1>2, <2>3 DEF ThreadRecord
  <2> HIDE DEF new
  <2> QED BY <1>5, <2>1, <2>2, <2>4
<1>8. CASE ThreadSend(n)
  <2>1. r.pc = "open" /\ deleted' = deleted /\ tcps' = tcps /\ frames' = frames
    BY <1>8 DEF ThreadSend
  <2>2. PICK k \in 0..Len(r.sendQ) :
          ThreadChange(n, [r EXCEPT !.sendQ = <<>>, !.pc = IF k = Len(r.sendQ) THEN "open" ELSE "close"])
    BY <1>8 DEF ThreadSend
  <2> DEFINE new == [r EXCEPT !.sendQ = <<>>, !.pc = IF k = Len(r.sendQ) THEN "open" ELSE "close"]
  <2>3. new \in ThreadRecord /\ new.addr = r.addr /\ new.accepted = r.accepted /\ new.tcp = r.tcp
        /\ new.pc \in {"open", "close"}
    <3>1. PICK q \in Seq(Frame), c \in {"open", "close"} : new = [r EXCEPT !.sendQ = q, !.pc = c]
      <4>1. <<>> \in Seq(Frame) OBVIOUS
      <4> QED BY <4>1
    <3> HIDE DEF new
    <3> QED BY <1>2, <3>1 DEF ThreadRecord
  <2>4. ThreadChange(n, new) BY <2>2
  <2> HIDE DEF new
  <2> QED BY <1>3, <1>5, <2>1, <2>3, <2>4
<1>9. CASE ThreadLeave(n)
  <2> DEFINE new == [r EXCEPT !.pc = "close"]
  <2>1. r.pc = "open" /\ ThreadChange(n, new) /\ deleted' = deleted /\ tcps' = tcps /\ frames' = frames
    BY <1>9 DEF ThreadLeave, frameVars
  <2>2. new \in ThreadRecord /\ new.addr = r.addr /\ new.accepted = r.accepted /\ new.tcp = r.tcp
        /\ new.pc = "close"
    BY <1>2 DEF ThreadRecord
  <2> HIDE DEF new
  <2> QED BY <1>3, <1>5, <2>1, <2>2
<1>10. CASE ThreadEnd(n)
  <2> DEFINE new == [r EXCEPT !.pc = "ended"]
  <2>1. r.pc = "loop" /\ ThreadChange(n, new) /\ deleted' = deleted /\ tcps' = tcps /\ frames' = frames
    BY <1>10 DEF ThreadEnd, frameVars
  <2>2. new \in ThreadRecord /\ new.addr = r.addr /\ new.accepted = r.accepted /\ new.tcp = r.tcp
        /\ new.pc = "ended"
    BY <1>2 DEF ThreadRecord
  <2> HIDE DEF new
  <2> QED BY <1>3, <1>5, <2>1, <2>2
<1>11. CASE ThreadClose(n)
  <2> DEFINE new == [r EXCEPT !.tcp = 0, !.up = FALSE, !.pc = IF r.reconnects THEN "loop" ELSE "ended"]
  <2>1. r.pc = "close" /\ ThreadChange(n, new) /\ tcps' = tcps /\ frames' = frames
        /\ deleted' = [t \in Tcp |-> IF t = r.tcp THEN deleted[t] + 1 ELSE deleted[t]]
    BY <1>11 DEF ThreadClose, frameVars
  <2>2. new \in ThreadRecord /\ new.addr = r.addr /\ new.accepted = r.accepted /\ new.tcp = 0
        /\ new.pc \in {"loop", "ended"}
    BY <1>2 DEF ThreadRecord
  <2>3. r.accepted = 0 /\ ObjectOf(r) = r.tcp BY <1>2, <2>1 DEF ThreadOK, ObjectOf
  <2>4. new # Gone /\ ThreadOK(new) /\ ObjectOf(new) = 0
    BY <2>2, <2>3, GoneAssumption DEF ThreadOK, ObjectOf
  <2> HIDE DEF new
  <2>5. addrOf' = addrOf /\ threads' = threads /\ clientAt' = clientAt /\ server' = server /\ main' = main
        /\ thread' = [thread EXCEPT ![n] = new]
    BY <2>1 DEF ThreadChange
  <2>6. thread \in [Thread -> ThreadRecord \cup {Gone}] /\ tcps \in 0..MaxTcp BY DEF Inv, Types
  <2>7. thread'[n] = new /\ \A m \in Thread : m # n => thread'[m] = thread[m] BY <2>5, <2>6
  <2>8. thread' \in [Thread -> ThreadRecord \cup {Gone}] BY <2>2, <2>5, <2>6
  <2>9. deleted' \in [Tcp -> Nat] BY <2>1 DEF Inv, Types
  <2>10. Types' BY <2>1, <2>5, <2>8, <2>9 DEF Inv, Types
  <2>11. ThreadsOK(thread') BY <2>4, <2>7 DEF Inv, ThreadsOK
  <2>12. MapOK(thread', clientAt', threads')
    <3>1. \A m \in Thread : (thread'[m] # Gone <=> thread[m] # Gone) /\ thread'[m].addr = thread[m].addr
      BY <1>2, <2>2, <2>4, <2>7
    <3>2. \A a \in Addr : clientAt[a] # 0 => clientAt[a] \in Thread BY DEF Inv, Types
    <3> QED BY <2>5, <3>1, <3>2 DEF Inv, MapOK
  <2>13. Sole(Range(server.q), Range(main.connQ), Objects(thread'), deleted', tcps)
    <3>1. Objects(thread')[n] = 0 /\ Objects(thread)[n] = r.tcp
          /\ \A m \in Thread : m # n => Objects(thread')[m] = Objects(thread)[m]
      BY <2>3, <2>4, <2>7 DEF Objects
    <3>2. \A t \in Tcp : deleted'[t] = IF t = Objects(thread)[n] THEN deleted[t] + 1 ELSE deleted[t] BY <2>1, <3>1
    <3>3. Objects(thread')[n] \notin Tcp BY <3>1, <1>3
    <3> QED BY <2>6, <3>1, <3>2, <3>3, SoleDelete DEF Inv, Owned
  <2> QED BY <2>1, <2>5, <2>10, <2>11, <2>12, <2>13 DEF Inv, Owned
<1> QED BY <1>4, <1>6, <1>7, <1>8, <1>9, <1>10, <1>11 DEF Client

-----------------------------------------------------------------------------
(* The steps of the router thread.                                         *)

\* The router thread alone goes on.
LEMMA MainStep ==
  ASSUME Inv, NEW new \in MainRecord, MainChange(new), new.connQ = main.connQ,
         UNCHANGED <<deleted, threads, thread, clientAt, server, frames>>,
         MainOK(new, server, clientAt, addrOf)
  PROVE  Inv'
<1>1. main' = new /\ addrOf' = addrOf /\ tcps' = tcps BY DEF MainChange
<1> QED BY <1>1 DEF Inv, Types

LEMMA MainTyped ==
  ASSUME Inv
  PROVE  /\ main \in MainRecord /\ server \in ServerRecord /\ clientAt \in [Addr -> Thread \cup {0}]
         /\ Clients \subseteq Addr /\ \A a \in Addr : a \in Clients <=> clientAt[a] # 0
         /\ MainOK(main, server, clientAt, addrOf)
BY DEF Inv, Types, Clients

LEMMA ClientsExist ==
  ASSUME Inv, main.todo # {}, main.pc \in {"clients", "visit", "route", "stopClients", "joinClient"}
  PROVE  /\ Min(main.todo) \in main.todo /\ Min(main.todo) \in Addr /\ Visited \in Thread
         /\ thread[Visited] # Gone /\ thread[Visited] \in ThreadRecord
         /\ thread[Visited].addr = Min(main.todo)
<1>1. main.todo \subseteq Addr BY DEF Inv, Types, MainRecord
<1>2. Min(main.todo) \in main.todo /\ Min(main.todo) \in Addr BY <1>1, LeastAddress
<1>3. Visited # 0 BY <1>2 DEF Inv, MainOK, Visited
<1>4. Visited \in Thread BY <1>2, <1>3 DEF Visited, Inv, Types
<1>5. thread[Visited] # Gone /\ thread[Visited].addr = Min(main.todo) BY <1>2, <1>3 DEF Visited, Inv, MapOK
<1> QED BY <1>2, <1>4, <1>5, AliveIsRecord DEF Inv

LEMMA LoopKeeps ==
  ASSUME Inv, LoopOrStop \/ SampleServer \/ SampleClient \/ EndOfLoop \/ Stop \/ Finish
  PROVE  Inv'
<1>1. /\ main \in MainRecord /\ server \in ServerRecord /\ Clients \subseteq Addr
      /\ \A a \in Addr : a \in Clients <=> clientAt[a] # 0
      /\ MainOK(main, server, clientAt, addrOf)
  BY MainTyped
<1> USE DEF frameVars
<1>2. CASE LoopOrStop
  <2>1. PICK c \in {"stopServer", "clients", "server"} : MainChange([main EXCEPT !.pc = c, !.todo = Clients])
    BY <1>1, <1>2 DEF LoopOrStop, MainRecord
  <2> DEFINE new == [main EXCEPT !.pc = c, !.todo = Clients]
  <2>2. new \in MainRecord /\ new.pc = c /\ new.todo = Clients /\ new.connQ = main.connQ
    BY <1>1 DEF MainRecord
  <2>3. MainChange(new) BY <2>1
  <2>4. main.pc = "top" /\ UNCHANGED <<deleted, threads, thread, clientAt, server, frames>> BY <1>2 DEF LoopOrStop
  <2> HIDE DEF new
  <2>5. MainOK(new, server, clientAt, addrOf) BY <1>1, <2>2, <2>4 DEF MainOK
  <2> QED BY <2>2, <2>3, <2>4, <2>5, MainStep
<1>3. CASE SampleServer
  <2> DEFINE new == [main EXCEPT !.pc = "flush", !.running = server.pc # "ended"]
  <2>1. main.pc = "server" /\ MainChange(new) /\ UNCHANGED <<deleted, threads, thread, clientAt, server, frames>>
    BY <1>3 DEF SampleServer
  <2>2. new \in MainRecord /\ new.pc = "flush" /\ new.connQ = main.connQ /\ (new.running <=> server.pc # "ended")
    BY <1>1 DEF MainRecord
  <2> HIDE DEF new
  <2>3. MainOK(new, server, clientAt, addrOf) BY <1>1, <2>1, <2>2 DEF MainOK
  <2> QED BY <2>1, <2>2, <2>3, MainStep
<1>4. CASE SampleClient
  <2> DEFINE new == [main EXCEPT !.pc = "visit", !.running = thread[Visited].pc # "ended"]
  <2>1. main.pc = "clients" /\ main.todo # {} /\ MainChange(new)
        /\ UNCHANGED <<deleted, threads, thread, clientAt, server, frames>>
    BY <1>4 DEF SampleClient
  <2>2. new \in MainRecord /\ new.pc = "visit" /\ new.connQ = main.connQ /\ new.todo = main.todo
    BY <1>1 DEF MainRecord
  <2> HIDE DEF new
  <2>3. MainOK(new, server, clientAt, addrOf) BY <1>1, <2>1, <2>2 DEF MainOK
  <2> QED BY <2>1, <2>2, <2>3, MainStep
<1>5. CASE EndOfLoop
  <2> DEFINE new == [main EXCEPT !.pc = "top"]
  <2>1. main.pc = "clients" /\ MainChange(new) /\ UNCHANGED <<deleted, threads, thread, clientAt, server, frames>>
    BY <1>5 DEF EndOfLoop
  <2>2. new \in MainRecord /\ new.pc = "top" /\ new.connQ = main.connQ BY <1>1 DEF MainRecord
  <2> HIDE DEF new
  <2>3. MainOK(new, server, clientAt, addrOf) BY <1>1, <2>1, <2>2 DEF MainOK
  <2> QED BY <2>1, <2>2, <2>3, MainStep
<1>6. CASE Stop
  <2> DEFINE new == [main EXCEPT !.run = FALSE]
  <2>1. MainChange(new) /\ UNCHANGED <<deleted, threads, thread, clientAt, server, frames>>
    BY <1>6 DEF Stop
  <2>2. new \in MainRecord /\ new.pc = main.pc /\ new.connQ = main.connQ /\ new.todo = main.todo
        /\ new.running = main.running
    BY <1>1 DEF MainRecord
  <2> HIDE DEF new
  <2>3. MainOK(new, server, clientAt, addrOf) BY <1>1, <2>2 DEF MainOK
  <2> QED BY <2>1, <2>2, <2>3, MainStep
<1>7. CASE Finish
  <2> DEFINE new == [main EXCEPT !.pc = "done"]
  <2>1. main.pc = "stopClients" /\ main.todo = {} /\ MainChange(new)
        /\ UNCHANGED <<deleted, threads, thread, clientAt, server, frames>>
    BY <1>7 DEF Finish
  <2>2. new \in MainRecord /\ new.pc = "done" /\ new.connQ = main.connQ BY <1>1 DEF MainRecord
  <2> HIDE DEF new
  <2>3. MainOK(new, server, clientAt, addrOf) BY <1>1, <2>1, <2>2 DEF MainOK
  <2> QED BY <2>1, <2>2, <2>3, MainStep
<1> QED BY <1>2, <1>3, <1>4, <1>5, <1>6, <1>7

LEMMA ServerStepKeeps ==
  ASSUME Inv, FlushServer \/ ReapServer \/ StopServer \/ JoinServer
  PROVE  Inv'
<1>1. /\ main \in MainRecord /\ server \in ServerRecord /\ Clients \subseteq Addr
      /\ \A a \in Addr : a \in Clients <=> clientAt[a] # 0
      /\ MainOK(main, server, clientAt, addrOf)
  BY MainTyped
<1>2. server.q \in Seq(Tcp) /\ main.connQ \in Seq(Tcp) /\ <<>> \in Seq(Tcp) /\ tcps \in 0..MaxTcp
  BY <1>1 DEF ServerRecord, MainRecord, Inv, Types
<1>3. Len(server.q) \in Nat /\ Len(main.connQ) \in Nat /\ Len(<<>>) = 0 /\ Once(<<>>) BY <1>2 DEF Once
<1>4. threads \in Nat /\ tcps \in Nat /\ Cardinality(Configured) \in Nat
  BY ConstantsTyped DEF ConstantTypes, Inv, Types
<1> USE DEF frameVars
<1>5. ASSUME NEW s \in ServerRecord, NEW m \in MainRecord, server' = s, main' = m,
             UNCHANGED <<addrOf, tcps, threads, thread, clientAt, frames>>,
             deleted' \in [Tcp -> Nat], MainOK(m, s, clientAt, addrOf),
             Room(threads, s.q, m.connQ, tcps), Owned(s.q, m.connQ, thread, deleted', tcps)
      PROVE  Inv'
  BY <1>5 DEF Inv, Types
<1>6. deleted \in [Tcp -> Nat] BY DEF Inv, Types
<1>7. CASE FlushServer
  <2>1. main.pc = "flush" /\ MainChange([main EXCEPT !.pc = "adopt", !.connQ = server.q])
        /\ server' = [server EXCEPT !.q = <<>>] /\ UNCHANGED <<deleted, threads, thread, clientAt, frames>>
    BY <1>7 DEF FlushServer
  <2>2. addrOf' = addrOf /\ tcps' = tcps /\ main' = [main EXCEPT !.pc = "adopt", !.connQ = server.q]
    BY <2>1 DEF MainChange
  <2>3. main' \in MainRecord /\ main'.pc = "adopt" /\ main'.connQ = server.q /\ main'.running = main.running
    BY <1>1, <1>2, <2>2 DEF MainRecord
  <2>4. server' \in ServerRecord /\ server'.q = <<>> /\ server'.pc = server.pc
    BY <1>1, <1>2, <2>1 DEF ServerRecord
  <2>5. main.connQ = <<>> BY <1>1, <2>1 DEF MainOK
  <2>6. MainOK(main', server', clientAt, addrOf) BY <1>1, <2>1, <2>3, <2>4 DEF MainOK
  <2>7. Room(threads, server'.q, main'.connQ, tcps)
    <3>1. threads + Len(server.q) + 0 <= Cardinality(Configured) + tcps BY <1>3, <2>5 DEF Inv, Room
    <3>2. threads + 0 + Len(server.q) <= Cardinality(Configured) + tcps BY <3>1, <1>3, <1>4
    <3> QED BY <3>2, <2>3, <2>4, <1>3 DEF Room
  <2>8. Owned(server'.q, main'.connQ, thread, deleted, tcps)
    <3>1. Sole(Range(server.q), {}, Objects(thread), deleted, tcps) BY <2>5, RangeEmpty DEF Inv, Owned
    <3>2. Sole({}, Range(server.q), Objects(thread), deleted, tcps) BY <3>1, SoleFlush
    <3> QED BY <3>2, <2>3, <2>4, <1>3, RangeEmpty DEF Inv, Owned
  <2> QED BY <1>5, <1>6, <2>1, <2>2, <2>3, <2>4, <2>6, <2>7, <2>8
<1>8. CASE ReapServer
  <2>1. main.pc = "adopt" /\ main.connQ = <<>> /\ MainChange([main EXCEPT !.pc = "clients", !.todo = Clients])
        /\ server' = [server EXCEPT !.pc = IF main.running THEN server.pc ELSE "deleted"]
        /\ UNCHANGED <<deleted, threads, thread, clientAt, frames>>
    BY <1>8 DEF ReapServer
  <2>2. addrOf' = addrOf /\ tcps' = tcps /\ main' = [main EXCEPT !.pc = "clients", !.todo = Clients]
    BY <2>1 DEF MainChange
  <2>3. main' \in MainRecord /\ main'.pc = "clients" /\ main'.connQ = main.connQ /\ main'.todo = Clients
    BY <1>1, <2>2 DEF MainRecord
  <2>4. server' \in ServerRecord /\ server'.q = server.q
        /\ server'.pc = IF main.running THEN server.pc ELSE "deleted"
    BY <1>1, <2>1 DEF ServerRecord
  <2>5. MainOK(main', server', clientAt, addrOf)
    <3>1. server'.pc = "deleted" => server'.q = <<>> BY <1>1, <2>1, <2>4 DEF MainOK
    <3> QED BY <1>1, <2>1, <2>3, <3>1 DEF MainOK
  <2>6. Room(threads, server'.q, main'.connQ, tcps) /\ Owned(server'.q, main'.connQ, thread, deleted, tcps)
    BY <2>3, <2>4 DEF Inv
  <2> QED BY <1>5, <1>6, <2>1, <2>2, <2>3, <2>4, <2>5, <2>6
<1>9. CASE StopServer
  <2>1. PICK c \in {"stopClients", "joinServer"} :
          /\ MainChange([main EXCEPT !.pc = c, !.todo = Clients])
          /\ c = "stopClients" <=> server.pc = "deleted"
    BY <1>9 DEF StopServer
  <2>2. main.pc = "stopServer" /\ server' = [server EXCEPT !.run = FALSE]
        /\ UNCHANGED <<deleted, threads, thread, clientAt, frames>>
    BY <1>9 DEF StopServer
  <2>3. addrOf' = addrOf /\ tcps' = tcps /\ main' = [main EXCEPT !.pc = c, !.todo = Clients]
    BY <2>1 DEF MainChange
  <2>4. main' \in MainRecord /\ main'.pc = c /\ main'.connQ = main.connQ /\ main'.todo = Clients
    BY <1>1, <2>3 DEF MainRecord
  <2>5. server' \in ServerRecord /\ server'.q = server.q /\ server'.pc = server.pc
    BY <1>1, <2>2 DEF ServerRecord
  <2>6. MainOK(main', server', clientAt, addrOf)
    BY <1>1, <2>1, <2>2, <2>4, <2>5 DEF MainOK
  <2>7. Room(threads, server'.q, main'.connQ, tcps) /\ Owned(server'.q, main'.connQ, thread, deleted, tcps)
    BY <2>4, <2>5 DEF Inv
  <2> QED BY <1>5, <1>6, <2>2, <2>3, <2>4, <2>5, <2>6, <2>7
<1>10. CASE JoinServer
  <2>1. main.pc = "joinServer" /\ MainChange([main EXCEPT !.pc = "stopClients"])
        /\ server' = [server EXCEPT !.pc = "deleted", !.q = <<>>]
        /\ deleted' = [t \in Tcp |-> IF t \in Range(server.q) THEN deleted[t] + 1 ELSE deleted[t]]
        /\ UNCHANGED <<threads, thread, clientAt, frames>>
    BY <1>10 DEF JoinServer
  <2>2. addrOf' = addrOf /\ tcps' = tcps /\ main' = [main EXCEPT !.pc = "stopClients"]
    BY <2>1 DEF MainChange
  <2>3. main' \in MainRecord /\ main'.pc = "stopClients" /\ main'.connQ = main.connQ /\ main'.todo = main.todo
    BY <1>1, <2>2 DEF MainRecord
  <2>4. server' \in ServerRecord /\ server'.q = <<>> /\ server'.pc = "deleted"
    BY <1>1, <1>2, <2>1 DEF ServerRecord
  <2>5. deleted' \in [Tcp -> Nat] BY <1>6, <2>1
  <2>6. MainOK(main', server', clientAt, addrOf) BY <1>1, <2>1, <2>3, <2>4 DEF MainOK
  <2>7. Room(threads, server'.q, main'.connQ, tcps)
    <3>1. threads + Len(server.q) + Len(main.connQ) <= Cardinality(Configured) + tcps BY DEF Inv, Room
    <3>2. \A i, j, k, c \in Nat : i + j + k <= c => i + 0 + k <= c OBVIOUS
    <3>3. Cardinality(Configured) + tcps \in Nat BY <1>4
    <3>4. threads + 0 + Len(main.connQ) <= Cardinality(Configured) + tcps BY <3>1, <3>2, <3>3, <1>3, <1>4
    <3> QED BY <3>4, <2>3, <2>4, <1>3 DEF Room
  <2>8. Owned(server'.q, main'.connQ, thread, deleted', tcps)
    <3>1. \A t \in Tcp : deleted'[t] = IF t \in Range(server.q) THEN deleted[t] + 1 ELSE deleted[t] BY <2>1
    <3>2. Sole({}, Range(main.connQ), Objects(thread), deleted', tcps)
      BY <1>2, <3>1, SoleDrain DEF Inv, Owned
    <3> QED BY <3>2, <2>3, <2>4, <1>3, RangeEmpty DEF Inv, Owned
  <2> QED BY <1>5, <2>1, <2>2, <2>3, <2>4, <2>5, <2>6, <2>7, <2>8
<1> QED BY <1>7, <1>8, <1>9, <1>10

LEMMA AdoptKeeps ==
  ASSUME Inv, Adopt
  PROVE  Inv'
<1> DEFINE t == Head(main.connQ)
           a == addrOf[t]
           n == threads + 1
<1>1. main \in MainRecord /\ main.connQ \in Seq(Tcp) /\ server \in ServerRecord /\ server.q \in Seq(Tcp)
      /\ MainOK(main, server, clientAt, addrOf)
  BY DEF Inv, Types, MainRecord, ServerRecord
<1>2. main.pc = "adopt" /\ main.connQ # <<>> /\ clientAt[a] = 0 /\ threads' = n
      /\ thread' = [thread EXCEPT ![n] = Started(a, t, FALSE)] /\ clientAt' = [clientAt EXCEPT ![a] = n]
      /\ MainChange([main EXCEPT !.connQ = Tail(main.connQ)]) /\ UNCHANGED <<deleted, server, frames>>
  BY DEF Adopt, frameVars
<1>3. addrOf' = addrOf /\ tcps' = tcps /\ main' = [main EXCEPT !.connQ = Tail(main.connQ)]
  BY <1>2 DEF MainChange
<1>4. t \in Tcp /\ Tail(main.connQ) \in Seq(Tcp) /\ Range(main.connQ) = {t} \cup Range(Tail(main.connQ))
  BY <1>1, <1>2, RangeHeadTail
<1>5. Range(main.connQ) \subseteq 1..tcps BY DEF Inv, Owned, Sole
<1>6. a \in Addr BY <1>4, <1>5 DEF Inv
<1>7. threads \in Nat /\ tcps \in 0..MaxTcp /\ MaxTcp \in Nat /\ Cardinality(Configured) \in Nat
      /\ Len(server.q) \in Nat /\ Len(main.connQ) \in Nat
  BY <1>1, ConstantsTyped DEF ConstantTypes, Inv, Types
<1>8. Len(Tail(main.connQ)) = Len(main.connQ) - 1 /\ Len(main.connQ) > 0 BY <1>1, <1>2
<1>9. threads + Len(server.q) + Len(main.connQ) <= Cardinality(Configured) + tcps BY DEF Inv, Room
<1>10. n \in Thread
  <2>1. \A i, j, k, c, d, e \in Nat : i + j + k <= c + d /\ k > 0 /\ d <= e => i + 1 \in 1..c + e OBVIOUS
  <2>2. tcps \in Nat /\ tcps <= MaxTcp BY <1>7
  <2> QED BY <1>7, <1>8, <1>9, <2>1, <2>2 DEF Thread
<1>11. \A m \in Thread : thread[m] # Gone => m # n
  <2>1. \A m \in Thread : thread[m] # Gone => m <= threads BY DEF Inv, MapOK
  <2>2. \A m \in Thread : m \in Nat BY <1>7 DEF Thread
  <2> QED BY <1>7, <2>1, <2>2
<1>12. thread[n] = Gone BY <1>10, <1>11
<1>13. thread \in [Thread -> ThreadRecord \cup {Gone}] /\ clientAt \in [Addr -> Thread \cup {0}] BY DEF Inv, Types
<1>14. Started(a, t, FALSE) \in ThreadRecord BY <1>4, <1>6 DEF Started, ThreadRecord
<1>15. thread'[n] = Started(a, t, FALSE) /\ thread'[n] # Gone /\ thread'[n].addr = a
       /\ thread'[n].accepted = t /\ thread'[n].tcp = 0 /\ thread'[n].pc = "loop"
  BY <1>2, <1>10, <1>13, <1>14, GoneAssumption DEF Started
<1>16. \A m \in Thread : m # n => thread'[m] = thread[m] BY <1>2, <1>13
<1>17. clientAt'[a] = n /\ \A b \in Addr : b # a => clientAt'[b] = clientAt[b] BY <1>2, <1>6, <1>13
<1>18. main' \in MainRecord /\ main'.connQ = Tail(main.connQ) /\ main'.pc = main.pc /\ main'.running = main.running
       /\ main'.todo = main.todo
  BY <1>1, <1>3, <1>4 DEF MainRecord
<1> HIDE DEF t, a, n
<1>19. Types'
  <2>1. thread' \in [Thread -> ThreadRecord \cup {Gone}] BY <1>2, <1>13, <1>14
  <2>2. clientAt' \in [Addr -> Thread \cup {0}] BY <1>2, <1>10, <1>13
  <2>3. threads' \in Nat BY <1>2, <1>7 DEF n
  <2> QED BY <1>2, <1>3, <1>18, <2>1, <2>2, <2>3 DEF Inv, Types
<1>20. ThreadsOK(thread') BY <1>15, <1>16 DEF Inv, ThreadsOK, ThreadOK
<1>21. MapOK(thread', clientAt', threads')
  <2>1. ASSUME NEW m \in Thread, thread'[m] # Gone PROVE m <= threads' /\ clientAt'[thread'[m].addr] = m
    <3>1. CASE m = n
      <4>1. n <= n BY <1>7 DEF n
      <4> QED BY <3>1, <4>1, <1>2, <1>15, <1>17
    <3>2. CASE m # n
      <4>1. thread'[m] = thread[m] /\ thread[m] # Gone BY <2>1, <3>2, <1>16
      <4>2. m <= threads /\ clientAt[thread[m].addr] = m BY <4>1 DEF Inv, MapOK
      <4>3. m \in Nat /\ m # 0 BY <1>7 DEF Thread
      <4>4. m <= threads' BY <4>2, <4>3, <1>2, <1>7 DEF n
      <4>5. thread[m].addr # a BY <4>2, <4>3, <1>2
      <4>6. thread[m].addr \in Addr BY <4>1, <1>13 DEF ThreadRecord
      <4> QED BY <4>1, <4>2, <4>4, <4>5, <4>6, <1>17
    <3> QED BY <3>1, <3>2
  <2>2. ASSUME NEW b \in Addr, clientAt'[b] # 0
        PROVE  thread'[clientAt'[b]] # Gone /\ thread'[clientAt'[b]].addr = b
    <3>1. CASE b = a BY <3>1, <1>15, <1>17
    <3>2. CASE b # a
      <4>1. clientAt'[b] = clientAt[b] /\ clientAt[b] \in Thread BY <2>2, <3>2, <1>13, <1>17
      <4>2. thread[clientAt[b]] # Gone /\ thread[clientAt[b]].addr = b BY <4>1, <2>2 DEF Inv, MapOK
      <4>3. clientAt[b] # n BY <4>1, <4>2, <1>11
      <4> QED BY <4>1, <4>2, <4>3, <1>16
    <3> QED BY <3>1, <3>2
  <2> QED BY <2>1, <2>2 DEF MapOK
<1>22. MainOK(main', server', clientAt', addrOf') BY <1>1, <1>2, <1>3, <1>18 DEF MainOK
<1>23. Room(threads', server'.q, main'.connQ, tcps')
  <2>1. \A i, j, k, c \in Nat : i + j + k <= c /\ k > 0 => (i + 1) + j + (k - 1) <= c OBVIOUS
  <2>2. Cardinality(Configured) + tcps \in Nat BY <1>7
  <2>3. (threads + 1) + Len(server.q) + (Len(main.connQ) - 1) <= Cardinality(Configured) + tcps
    BY <1>7, <1>8, <1>9, <2>1, <2>2
  <2>4. threads' = threads + 1 BY <1>2 DEF n
  <2> QED BY <2>3, <2>4, <1>2, <1>3, <1>8, <1>18 DEF Room
<1>24. Owned(server'.q, main'.connQ, thread', deleted', tcps')
  <2>1. Once(main.connQ) BY DEF Inv, Owned
  <2>2. t \notin Range(Tail(main.connQ)) /\ Once(Tail(main.connQ))
    <3>1. \A i \in 1..Len(main.connQ) - 1 : Tail(main.connQ)[i] = main.connQ[i + 1] BY <1>1, <1>2
    <3>2. t = main.connQ[1] BY <1>1, <1>2 DEF t
    <3>3. \A i \in 1..Len(main.connQ) - 1 : i + 1 \in 1..Len(main.connQ) /\ i + 1 # 1 /\ 1 \in 1..Len(main.connQ)
      BY <1>7
    <3>4. \A i \in 1..Len(main.connQ) - 1 : Tail(main.connQ)[i] # t BY <2>1, <3>1, <3>2, <3>3 DEF Once
    <3>5. DOMAIN Tail(main.connQ) = 1..Len(main.connQ) - 1 BY <1>4, <1>8
    <3>6. t \notin Range(Tail(main.connQ)) BY <3>4, <3>5 DEF Range
    <3>7. \A i, j \in 1..Len(main.connQ) - 1 : i + 1 = j + 1 => i = j BY <1>7
    <3>8. Once(Tail(main.connQ)) BY <2>1, <3>1, <3>3, <3>7, <1>8 DEF Once
    <3> QED BY <3>6, <3>8
  <2>3. Objects(thread)[n] \notin Tcp
    <3>1. Objects(thread)[n] = 0 BY <1>10, <1>12 DEF Objects, ObjectOf
    <3> QED BY <3>1, ConstantsTyped DEF ConstantTypes
  <2>4. Objects(thread')[n] = t
    <3>1. t # 0 BY <1>4, ConstantsTyped DEF ConstantTypes
    <3> QED BY <3>1, <1>10, <1>15 DEF Objects, ObjectOf
  <2>5. \A m \in Thread : m # n => Objects(thread')[m] = Objects(thread)[m] BY <1>16 DEF Objects
  <2>6. t \in Range(main.connQ) /\ Range(main.connQ) = Range(Tail(main.connQ)) \cup {t} BY <1>4
  <2>7. Sole(Range(server.q), Range(main.connQ), Objects(thread), deleted, tcps) BY DEF Inv, Owned
  <2>8. Sole(Range(server.q), Range(Tail(main.connQ)), Objects(thread'), deleted, tcps)
    BY <1>4, <1>7, <1>10, <2>2, <2>3, <2>4, <2>5, <2>6, <2>7, SoleAdopt
  <2> QED BY <2>2, <2>8, <1>2, <1>3, <1>18 DEF Inv, Owned
<1>25. \A i \in 1..tcps' : addrOf'[i] \in Addr BY <1>3 DEF Inv
<1> QED BY <1>19, <1>20, <1>21, <1>22, <1>23, <1>24, <1>25 DEF Inv

\* A thread is told to stop, or frames are taken from it or given to it.
LEMMA TouchKeeps ==
  ASSUME Inv, NEW n \in Thread, thread[n] # Gone, NEW new \in ThreadRecord, new.addr = thread[n].addr,
         new.accepted = thread[n].accepted, new.tcp = thread[n].tcp, new.pc = thread[n].pc,
         thread' = [thread EXCEPT ![n] = new], NEW m \in MainRecord, MainChange(m), m.connQ = main.connQ,
         UNCHANGED <<deleted, threads, clientAt, server, frames>>, MainOK(m, server, clientAt, addrOf)
  PROVE  Inv'
<1>1. thread[n] \in ThreadRecord /\ ThreadOK(thread[n]) BY AliveIsRecord DEF Inv, ThreadsOK
<1>2. ThreadOK(new) BY <1>1 DEF ThreadOK
<1>3. ObjectOf(new) = ObjectOf(thread[n])
  <2>1. new # Gone BY GoneAssumption
  <2> QED BY <2>1 DEF ObjectOf
<1>4. /\ thread' \in [Thread -> ThreadRecord \cup {Gone}] /\ ThreadsOK(thread')
      /\ MapOK(thread', clientAt, threads) /\ Owned(server.q, main.connQ, thread', deleted, tcps)
  BY <1>2, <1>3, ThreadStays
<1>5. main' = m /\ addrOf' = addrOf /\ tcps' = tcps BY DEF MainChange
<1>6. Types' BY <1>4, <1>5 DEF Inv, Types
<1> QED BY <1>4, <1>5, <1>6 DEF Inv

LEMMA StopKeeps ==
  ASSUME Inv, Replace \/ StopClient
  PROVE  Inv'
<1>1. main \in MainRecord /\ MainOK(main, server, clientAt, addrOf) BY MainTyped
<1>2. ASSUME NEW n \in Thread, thread[n] # Gone, StopThread(n), NEW c, [main EXCEPT !.pc = c] \in MainRecord,
             MainChange([main EXCEPT !.pc = c]), UNCHANGED <<deleted, threads, clientAt, server, frames>>,
             MainOK([main EXCEPT !.pc = c], server, clientAt, addrOf)
      PROVE  Inv'
  <2>1. thread[n] \in ThreadRecord BY <1>2, AliveIsRecord DEF Inv
  <2> DEFINE new == [thread[n] EXCEPT !.run = FALSE]
  <2>2. new \in ThreadRecord /\ new.addr = thread[n].addr /\ new.accepted = thread[n].accepted
        /\ new.tcp = thread[n].tcp /\ new.pc = thread[n].pc
    BY <2>1 DEF ThreadRecord
  <2>3. thread' = [thread EXCEPT ![n] = new] BY <1>2 DEF StopThread
  <2>4. [main EXCEPT !.pc = c].connQ = main.connQ BY <1>1 DEF MainRecord
  <2> HIDE DEF new
  <2> QED BY <1>2, <2>2, <2>3, <2>4, TouchKeeps
<1>3. CASE Replace
  <2> DEFINE n == clientAt[addrOf[Head(main.connQ)]]
  <2>1. main.pc = "adopt" /\ main.connQ # <<>> /\ n # 0 /\ StopThread(n) /\ MainChange([main EXCEPT !.pc = "replace"])
        /\ UNCHANGED <<deleted, threads, clientAt, server, frames>>
    BY <1>3 DEF Replace, frameVars
  <2>2. addrOf[Head(main.connQ)] \in Addr
    <3>1. main.connQ \in Seq(Tcp) BY <1>1 DEF MainRecord
    <3>2. Head(main.connQ) \in Range(main.connQ) BY <2>1, <3>1, RangeHeadTail
    <3>3. Range(main.connQ) \subseteq 1..tcps BY DEF Inv, Owned, Sole
    <3> QED BY <3>2, <3>3 DEF Inv
  <2>3. n \in Thread /\ thread[n] # Gone BY <2>1, <2>2 DEF Inv, Types, MapOK
  <2> DEFINE m == [main EXCEPT !.pc = "replace"]
  <2>4. m \in MainRecord /\ m.pc = "replace" /\ m.connQ = main.connQ /\ m.running = main.running
    BY <1>1 DEF MainRecord
  <2>5. MainOK(m, server, clientAt, addrOf)
    <3> HIDE DEF m
    <3> QED BY <1>1, <2>1, <2>4 DEF MainOK
  <2> QED
    <3> HIDE DEF n
    <3> QED BY <1>2, <2>1, <2>3, <2>4, <2>5
<1>4. CASE StopClient
  <2>1. main.pc = "stopClients" /\ main.todo # {} /\ StopThread(Visited) /\ MainChange([main EXCEPT !.pc = "joinClient"])
        /\ UNCHANGED <<deleted, threads, clientAt, server, frames>>
    BY <1>4 DEF StopClient, frameVars
  <2>2. Visited \in Thread /\ thread[Visited] # Gone BY <2>1, ClientsExist
  <2> DEFINE m == [main EXCEPT !.pc = "joinClient"]
  <2>3. m \in MainRecord /\ m.pc = "joinClient" /\ m.connQ = main.connQ /\ m.todo = main.todo
    BY <1>1 DEF MainRecord
  <2>4. MainOK(m, server, clientAt, addrOf)
    <3> HIDE DEF m
    <3> QED BY <1>1, <2>1, <2>3 DEF MainOK
  <2> QED BY <1>2, <2>1, <2>2, <2>3, <2>4
<1> QED BY <1>3, <1>4

LEMMA RoutingKeeps ==
  ASSUME Inv, FlushClient \/ Route
  PROVE  Inv'
<1>1. main \in MainRecord /\ MainOK(main, server, clientAt, addrOf) BY MainTyped
<1>2. CASE FlushClient
  <2>1. main.pc = "visit" /\ thread' = [thread EXCEPT ![Visited].recvQ = <<>>]
        /\ MainChange([main EXCEPT !.pc = "route", !.recvQ = thread[Visited].recvQ])
        /\ UNCHANGED <<deleted, threads, clientAt, server, frames>>
    BY <1>2 DEF FlushClient, frameVars
  <2>2. main.todo # {} BY <1>1, <2>1 DEF MainOK
  <2>3. Visited \in Thread /\ thread[Visited] # Gone /\ thread[Visited] \in ThreadRecord BY <2>1, <2>2, ClientsExist
  <2> DEFINE new == [thread[Visited] EXCEPT !.recvQ = <<>>]
             m == [main EXCEPT !.pc = "route", !.recvQ = thread[Visited].recvQ]
  <2>4. new \in ThreadRecord /\ new.addr = thread[Visited].addr /\ new.accepted = thread[Visited].accepted
        /\ new.tcp = thread[Visited].tcp /\ new.pc = thread[Visited].pc
    <3>1. PICK q \in Seq(Frame) : new = [thread[Visited] EXCEPT !.recvQ = q]
      <4>1. <<>> \in Seq(Frame) OBVIOUS
      <4> QED BY <4>1
    <3> HIDE DEF new
    <3> QED BY <2>3, <3>1 DEF ThreadRecord
  <2>5. thread' = [thread EXCEPT ![Visited] = new] BY <2>1
  <2>6. m \in MainRecord /\ m.pc = "route" /\ m.connQ = main.connQ /\ m.todo = main.todo
    <3>1. thread[Visited].recvQ \in Seq(Frame) BY <2>3 DEF ThreadRecord
    <3> QED BY <1>1, <3>1 DEF MainRecord
  <2>7. MainChange(m) BY <2>1
  <2> HIDE DEF new, m
  <2>8. MainOK(m, server, clientAt, addrOf) BY <1>1, <2>1, <2>6 DEF MainOK
  <2> QED BY <2>1, <2>3, <2>4, <2>5, <2>6, <2>7, <2>8, TouchKeeps
<1>3. CASE Route
  <2> DEFINE n == clientAt[Dst]
             m == [main EXCEPT !.recvQ = Tail(main.recvQ)]
  <2>1. main.pc = "route" /\ main.recvQ # <<>> /\ MainChange(m)
        /\ UNCHANGED <<deleted, threads, clientAt, server, frames>>
        /\ thread' = IF n # 0 /\ thread[n].up
                     THEN [thread EXCEPT ![n].sendQ = Append(@, Head(main.recvQ))] ELSE thread
    BY <1>3 DEF Route
  <2>2. main.recvQ \in Seq(Frame) BY <1>1 DEF MainRecord
  <2>3. Head(main.recvQ) \in Frame /\ Tail(main.recvQ) \in Seq(Frame) BY <2>1, <2>2
  <2>4. m \in MainRecord /\ m.pc = main.pc /\ m.connQ = main.connQ /\ m.todo = main.todo
        /\ m.running = main.running
    BY <1>1, <2>3 DEF MainRecord
  <2>5. MainOK(m, server, clientAt, addrOf)
    <3> HIDE DEF m
    <3> QED BY <1>1, <2>1, <2>4 DEF MainOK
  <2>6. CASE n # 0 /\ thread[n].up
    <3>1. n \in Thread /\ thread[n] # Gone BY <2>6, TcpAssumption DEF Inv, Types, MapOK
    <3>2. thread[n] \in ThreadRecord BY <3>1, AliveIsRecord DEF Inv
    <3> DEFINE new == [thread[n] EXCEPT !.sendQ = Append(@, Head(main.recvQ))]
    <3>3. Append(thread[n].sendQ, Head(main.recvQ)) \in Seq(Frame) BY <3>2, <2>3 DEF ThreadRecord
    <3>4. new \in ThreadRecord /\ new.addr = thread[n].addr /\ new.accepted = thread[n].accepted
          /\ new.tcp = thread[n].tcp /\ new.pc = thread[n].pc
      BY <3>2, <3>3 DEF ThreadRecord
    <3>5. thread' = [thread EXCEPT ![n] = new] BY <2>1, <2>6
    <3> HIDE DEF new, n, m
    <3> QED BY <2>1, <2>4, <2>5, <3>1, <3>4, <3>5, TouchKeeps
  <2>7. CASE ~(n # 0 /\ thread[n].up)
    <3>1. thread' = thread BY <2>1, <2>7
    <3> HIDE DEF n, m
    <3> QED BY <2>1, <2>4, <2>5, <3>1, MainStep
  <2> QED BY <2>6, <2>7
<1> QED BY <1>2, <1>3

\* A thread is deleted: it leaves the map, and so does the connection it never took.
LEMMA DeleteKeeps ==
  ASSUME Inv, NEW n \in Thread, thread[n] # Gone, DeleteThread(n),
         NEW m \in MainRecord, MainChange(m), m.connQ = main.connQ,
         UNCHANGED <<threads, server, frames>>, MainOK(m, server, clientAt', addrOf)
  PROVE  Inv'
<1> DEFINE r == thread[n]
<1>1. r.pc = "ended" /\ thread' = [thread EXCEPT ![n] = Gone] /\ clientAt' = [clientAt EXCEPT ![r.addr] = 0]
      /\ deleted' = [t \in Tcp |-> IF t = r.accepted THEN deleted[t] + 1 ELSE deleted[t]]
  BY DEF DeleteThread
<1>2. main' = m /\ addrOf' = addrOf /\ tcps' = tcps BY DEF MainChange
<1>3. r \in ThreadRecord /\ ThreadOK(r) BY AliveIsRecord DEF Inv, ThreadsOK
<1>4. r.addr \in Addr BY <1>3 DEF ThreadRecord
<1>5. thread \in [Thread -> ThreadRecord \cup {Gone}] /\ clientAt \in [Addr -> Thread \cup {0}]
      /\ deleted \in [Tcp -> Nat] /\ tcps \in 0..MaxTcp
  BY DEF Inv, Types
<1>6. thread'[n] = Gone /\ \A k \in Thread : k # n => thread'[k] = thread[k] BY <1>1, <1>5
<1>7. clientAt'[r.addr] = 0 /\ \A b \in Addr : b # r.addr => clientAt'[b] = clientAt[b] BY <1>1, <1>4, <1>5
<1>8. Types'
  <2>1. thread' \in [Thread -> ThreadRecord \cup {Gone}] BY <1>1, <1>5
  <2>2. clientAt' \in [Addr -> Thread \cup {0}] BY <1>1, <1>5
  <2>3. deleted' \in [Tcp -> Nat] BY <1>1, <1>5
  <2> QED BY <1>2, <2>1, <2>2, <2>3 DEF Inv, Types
<1>9. ThreadsOK(thread') BY <1>6 DEF Inv, ThreadsOK
<1>10. MapOK(thread', clientAt', threads')
  <2>1. ASSUME NEW k \in Thread, thread'[k] # Gone PROVE k <= threads' /\ clientAt'[thread'[k].addr] = k
    <3>1. k # n /\ thread'[k] = thread[k] /\ thread[k] # Gone BY <2>1, <1>6
    <3>2. k <= threads /\ clientAt[thread[k].addr] = k /\ clientAt[r.addr] = n BY <3>1 DEF Inv, MapOK
    <3>3. thread[k].addr \in Addr /\ thread[k].addr # r.addr BY <3>1, <3>2, <1>5 DEF ThreadRecord
    <3> QED BY <3>1, <3>2, <3>3, <1>7
  <2>2. ASSUME NEW b \in Addr, clientAt'[b] # 0
        PROVE  thread'[clientAt'[b]] # Gone /\ thread'[clientAt'[b]].addr = b
    <3>1. b # r.addr /\ clientAt'[b] = clientAt[b] BY <2>2, <1>7
    <3>2. clientAt[b] \in Thread /\ thread[clientAt[b]] # Gone /\ thread[clientAt[b]].addr = b
      BY <2>2, <3>1, <1>5 DEF Inv, MapOK
    <3>3. clientAt[b] # n BY <3>1, <3>2
    <3> QED BY <3>1, <3>2, <3>3, <1>6
  <2> QED BY <2>1, <2>2 DEF MapOK
<1>11. Owned(server.q, main.connQ, thread', deleted', tcps)
  <2>1. ObjectOf(r) = r.accepted BY <1>1, <1>3 DEF ThreadOK, ObjectOf
  <2>2. Objects(thread')[n] = 0 /\ Objects(thread)[n] = r.accepted
        /\ \A k \in Thread : k # n => Objects(thread')[k] = Objects(thread)[k]
    BY <1>6, <2>1 DEF Objects, ObjectOf
  <2>3. Objects(thread')[n] \notin Tcp BY <2>2, ConstantsTyped DEF ConstantTypes
  <2>4. \A t \in Tcp : deleted'[t] = IF t = Objects(thread)[n] THEN deleted[t] + 1 ELSE deleted[t] BY <1>1, <2>2
  <2>5. Sole(Range(server.q), Range(main.connQ), Objects(thread'), deleted', tcps)
    BY <1>5, <2>2, <2>3, <2>4, SoleDelete DEF Inv, Owned
  <2> QED BY <2>5 DEF Inv, Owned
<1> QED BY <1>2, <1>8, <1>9, <1>10, <1>11 DEF Inv

LEMMA ReapKeeps ==
  ASSUME Inv, Replaced \/ NextClient \/ JoinClient
  PROVE  Inv'
<1>1. main \in MainRecord /\ MainOK(main, server, clientAt, addrOf) /\ clientAt \in [Addr -> Thread \cup {0}]
  BY MainTyped
<1>2. ASSUME NEW n \in Thread, thread[n] # Gone, DeleteThread(n)
      PROVE  /\ thread[n].addr \in Addr /\ clientAt'[thread[n].addr] = 0
             /\ \A b \in Addr : b # thread[n].addr => clientAt'[b] = clientAt[b]
  <2>1. thread[n].addr \in Addr BY <1>2, AliveIsRecord DEF Inv, ThreadRecord
  <2>2. clientAt' = [clientAt EXCEPT ![thread[n].addr] = 0] BY <1>2 DEF DeleteThread
  <2> QED BY <1>1, <2>1, <2>2
<1>3. CASE Replaced
  <2> DEFINE n == clientAt[addrOf[Head(main.connQ)]]
             m == [main EXCEPT !.pc = "adopt"]
  <2>1. main.pc = "replace" /\ DeleteThread(n) /\ MainChange(m) /\ UNCHANGED <<threads, server, frames>>
    BY <1>3 DEF Replaced, frameVars
  <2>2. main.connQ # <<>> /\ n # 0 BY <1>1, <2>1 DEF MainOK
  <2>3. addrOf[Head(main.connQ)] \in Addr
    <3>1. main.connQ \in Seq(Tcp) BY <1>1 DEF MainRecord
    <3>2. Head(main.connQ) \in Range(main.connQ) BY <2>2, <3>1, RangeHeadTail
    <3>3. Range(main.connQ) \subseteq 1..tcps BY DEF Inv, Owned, Sole
    <3> QED BY <3>2, <3>3 DEF Inv
  <2>4. n \in Thread /\ thread[n] # Gone BY <2>2, <2>3 DEF Inv, Types, MapOK
  <2>5. m \in MainRecord /\ m.pc = "adopt" /\ m.connQ = main.connQ /\ m.running = main.running
    BY <1>1 DEF MainRecord
  <2> HIDE DEF n, m
  <2>6. MainOK(m, server, clientAt', addrOf) BY <1>1, <2>1, <2>5 DEF MainOK
  <2> QED BY <2>1, <2>4, <2>5, <2>6, DeleteKeeps
<1>4. CASE NextClient
  <2> DEFINE m == [main EXCEPT !.pc = "clients", !.todo = main.todo \ {Min(main.todo)}]
  <2>1. main.pc = "route" /\ MainChange(m) /\ UNCHANGED <<threads, server, frames>>
    BY <1>4 DEF NextClient, frameVars
  <2>2. main.todo # {} BY <1>1, <2>1 DEF MainOK
  <2>3. Visited \in Thread /\ thread[Visited] # Gone /\ thread[Visited].addr = Min(main.todo)
    BY <2>1, <2>2, ClientsExist
  <2>4. m \in MainRecord /\ m.pc = "clients" /\ m.connQ = main.connQ /\ m.todo = main.todo \ {Min(main.todo)}
    BY <1>1 DEF MainRecord
  <2>5. main.todo \subseteq Addr BY <1>1 DEF MainRecord
  <2> HIDE DEF m
  <2>6. CASE main.running
    <3>1. UNCHANGED <<thread, deleted, clientAt>> BY <1>4, <2>6 DEF NextClient
    <3>2. MainOK(m, server, clientAt, addrOf) BY <1>1, <2>1, <2>4 DEF MainOK
    <3> QED BY <2>1, <2>4, <3>1, <3>2, MainStep
  <2>7. CASE ~main.running
    <3>1. DeleteThread(Visited) BY <1>4, <2>7 DEF NextClient
    <3>2. \A b \in Addr : b # Min(main.todo) => clientAt'[b] = clientAt[b] BY <1>2, <2>3, <3>1
    <3>3. \A b \in m.todo : clientAt'[b] # 0
      <4>1. \A b \in main.todo : clientAt[b] # 0 BY <1>1, <2>1 DEF MainOK
      <4> QED BY <2>4, <2>5, <3>2, <4>1
    <3>4. MainOK(m, server, clientAt', addrOf) BY <1>1, <2>1, <2>4, <3>3 DEF MainOK
    <3> QED BY <2>1, <2>3, <2>4, <3>1, <3>4, DeleteKeeps
  <2> QED BY <2>6, <2>7
<1>5. CASE JoinClient
  <2> DEFINE m == [main EXCEPT !.pc = "stopClients", !.todo = main.todo \ {Min(main.todo)}]
  <2>1. main.pc = "joinClient" /\ DeleteThread(Visited) /\ MainChange(m) /\ UNCHANGED <<threads, server, frames>>
    BY <1>5 DEF JoinClient, frameVars
  <2>2. main.todo # {} BY <1>1, <2>1 DEF MainOK
  <2>3. Visited \in Thread /\ thread[Visited] # Gone /\ thread[Visited].addr = Min(main.todo)
    BY <2>1, <2>2, ClientsExist
  <2>4. m \in MainRecord /\ m.pc = "stopClients" /\ m.connQ = main.connQ
        /\ m.todo = main.todo \ {Min(main.todo)}
    BY <1>1 DEF MainRecord
  <2>5. main.todo \subseteq Addr BY <1>1 DEF MainRecord
  <2>6. clientAt'[Min(main.todo)] = 0 /\ \A b \in Addr : b # Min(main.todo) => clientAt'[b] = clientAt[b]
    BY <1>2, <2>1, <2>3
  <2> HIDE DEF m
  <2>7. \A b \in m.todo : clientAt'[b] # 0
    <3>1. \A b \in main.todo : clientAt[b] # 0 BY <1>1, <2>1 DEF MainOK
    <3> QED BY <2>4, <2>5, <2>6, <3>1
  <2>8. \A b \in Addr : clientAt'[b] # 0 => b \in m.todo
    <3>1. \A b \in Addr : clientAt[b] # 0 => b \in main.todo BY <1>1, <2>1 DEF MainOK
    <3> QED BY <2>4, <2>6, <3>1
  <2>9. MainOK(m, server, clientAt', addrOf) BY <1>1, <2>1, <2>4, <2>7, <2>8 DEF MainOK
  <2> QED BY <2>1, <2>3, <2>4, <2>9, DeleteKeeps
<1> QED BY <1>3, <1>4, <1>5

\* The invariant holds throughout: the types, the map of the threads, what the router thread
\* has still to do, and where every accepted connection is.
THEOREM ConnectionsInvariant == Spec => []Inv
<1>1. Init => Inv BY InvInit
<1>2. Inv /\ [Next]_vars => Inv'
  <2> SUFFICES ASSUME Inv, [Next]_vars PROVE Inv' OBVIOUS
  <2>1. CASE Server \/ ServerLeave BY <2>1, ServerKeeps DEF Server
  <2>2. CASE \E a \in Addr : ServerAccept(a) BY <2>2, AcceptKeeps
  <2>3. CASE \E n \in Thread : Client(n) \/ ThreadRecv(n) \/ ThreadSend(n) \/ ThreadLeave(n)
    BY <2>3, ThreadKeeps
  <2>4. CASE Main \/ Stop
    BY <2>4, LoopKeeps, ServerStepKeeps, AdoptKeeps, StopKeeps, RoutingKeeps, ReapKeeps DEF Main
  <2>5. CASE UNCHANGED vars
    BY <2>5 DEF Inv, Types, vars, tcpVars, frameVars
  <2> QED BY <2>1, <2>2, <2>3, <2>4, <2>5 DEF Next
<1> QED BY <1>1, <1>2, PTL DEF Spec

-----------------------------------------------------------------------------
(* One owner, and nothing left.                                            *)

LEMMA OwnersCount ==
  ASSUME Inv, NEW t \in 1..tcps
  PROVE  Cardinality(Owners(t)) + deleted[t] = 1
<1>1. Sole(Range(server.q), Range(main.connQ), Objects(thread), deleted, tcps) BY DEF Inv, Owned
<1>2. server.q \in Seq(Tcp) /\ main.connQ \in Seq(Tcp) /\ tcps \in 0..MaxTcp
  BY DEF Inv, Types, ServerRecord, MainRecord
<1>3. t \in Tcp /\ t # 0 /\ 0 \notin Tcp BY <1>2, ConstantsTyped DEF ConstantTypes, Tcp
<1>4. DOMAIN server.q = 1..Len(server.q) /\ DOMAIN main.connQ = 1..Len(main.connQ) BY <1>2
<1> DEFINE A == {i \in DOMAIN server.q : server.q[i] = t}
           B == {i \in DOMAIN main.connQ : main.connQ[i] = t}
           C == {n \in Thread : Alive(n) /\ thread[n].accepted = t}
           D == {n \in Thread : Alive(n) /\ thread[n].tcp = t}
           O == {<<"server", i>> : i \in A} \cup {<<"main", i>> : i \in B}
                \cup {<<"accepted", n>> : n \in C} \cup {<<"run", n>> : n \in D}
<1>5. Owners(t) = O BY DEF Owners
<1>6. A # {} <=> t \in Range(server.q) BY DEF Range
<1>7. B # {} <=> t \in Range(main.connQ) BY DEF Range
<1>8. \A i, j \in A : i = j BY <1>4 DEF Inv, Owned, Once
<1>9. \A i, j \in B : i = j BY <1>4 DEF Inv, Owned, Once
<1>10. \A n \in Thread : n \in C \/ n \in D <=> Objects(thread)[n] = t
  <2> TAKE n \in Thread
  <2>1. CASE thread[n] = Gone
    <3>1. Objects(thread)[n] = 0 /\ ~Alive(n) BY <2>1 DEF Objects, ObjectOf, Alive
    <3> QED BY <3>1, <1>3
  <2>2. CASE thread[n] # Gone
    <3>1. Alive(n) /\ ThreadOK(thread[n]) BY <2>2 DEF Alive, Inv, MapOK, ThreadsOK
    <3>2. Objects(thread)[n] = IF thread[n].accepted # 0 THEN thread[n].accepted ELSE thread[n].tcp
      BY <2>2 DEF Objects, ObjectOf
    <3>3. thread[n].accepted # 0 => thread[n].tcp = 0 BY <3>1 DEF ThreadOK
    <3> QED BY <3>1, <3>2, <3>3, <1>3
  <2> QED BY <2>1, <2>2
<1>11. \A n \in C : n \notin D
  <2> TAKE n \in C
  <2>1. ThreadOK(thread[n]) BY DEF Alive, Inv, ThreadsOK
  <2> QED BY <2>1, <1>3 DEF ThreadOK
<1>12. C \subseteq Thread /\ D \subseteq Thread OBVIOUS
<1> HIDE DEF A, B, C, D
<1>13. \A n1, n2 \in C \cup D : n1 = n2
  <2>1. \A n \in C \cup D : n \in Thread /\ Objects(thread)[n] = t BY <1>10, <1>12
  <2>2. \A n1, n2 \in Thread : Objects(thread)[n1] \in Tcp /\ Objects(thread)[n1] = Objects(thread)[n2] => n1 = n2
    BY <1>1 DEF Sole
  <2> QED BY <2>1, <2>2, <1>3
<1>14. CASE A # {}
  <2>1. deleted[t] = 0 /\ B = {} BY <1>1, <1>6, <1>7, <1>14 DEF Sole
  <2>2. C = {} /\ D = {}
    <3>1. \A n \in Thread : Objects(thread)[n] # t BY <1>1, <1>3, <1>6, <1>14 DEF Sole
    <3> QED BY <3>1, <1>10, <1>12
  <2>3. PICK i \in A : TRUE BY <1>14
  <2>4. O = {<<"server", i>>} BY <1>8, <2>1, <2>2, <2>3
  <2>5. Cardinality(Owners(t)) = 1 BY <1>5, <2>4, FS_Singleton
  <2> QED BY <2>1, <2>5
<1>15. CASE B # {}
  <2>1. deleted[t] = 0 /\ A = {} BY <1>1, <1>6, <1>7, <1>15 DEF Sole
  <2>2. C = {} /\ D = {}
    <3>1. \A n \in Thread : Objects(thread)[n] # t BY <1>1, <1>3, <1>7, <1>15 DEF Sole
    <3> QED BY <3>1, <1>10, <1>12
  <2>3. PICK i \in B : TRUE BY <1>15
  <2>4. O = {<<"main", i>>} BY <1>9, <2>1, <2>2, <2>3
  <2>5. Cardinality(Owners(t)) = 1 BY <1>5, <2>4, FS_Singleton
  <2> QED BY <2>1, <2>5
<1>16. CASE C \cup D # {}
  <2>1. PICK n \in C \cup D : TRUE BY <1>16
  <2>2. n \in Thread /\ Objects(thread)[n] = t BY <2>1, <1>10, <1>12
  <2>3. deleted[t] = 0 /\ A = {} /\ B = {} BY <1>1, <1>3, <1>6, <1>7, <2>2 DEF Sole
  <2>4. O = {<<"accepted", n>>} \/ O = {<<"run", n>>}
    <3>1. CASE n \in C
      <4>1. C = {n} /\ D = {} BY <3>1, <1>11, <1>13
      <4> QED BY <2>3, <4>1
    <3>2. CASE n \in D
      <4>1. D = {n} /\ C = {} BY <3>2, <1>11, <1>13
      <4> QED BY <2>3, <4>1
    <3> QED BY <2>1, <3>1, <3>2
  <2>5. Cardinality(Owners(t)) = 1 BY <1>5, <2>4, FS_Singleton
  <2> QED BY <2>3, <2>5
<1>17. CASE A = {} /\ B = {} /\ C \cup D = {}
  <2>1. O = {} BY <1>17
  <2>2. Cardinality(Owners(t)) = 0 BY <1>5, <2>1, FS_EmptySet
  <2>3. t \notin Range(server.q) \cup Range(main.connQ) BY <1>6, <1>7, <1>17
  <2>4. ~\E n \in Thread : Objects(thread)[n] = t BY <1>10, <1>17
  <2>5. deleted[t] = 1 BY <1>1, <2>3, <2>4 DEF Sole
  <2> QED BY <2>2, <2>5
<1> QED BY <1>14, <1>15, <1>16, <1>17

LEMMA NothingIsLeft ==
  ASSUME Inv, main.pc = "done"
  PROVE  (\A n \in Thread : ~Alive(n)) /\ \A t \in 1..tcps : deleted[t] = 1
<1>1. MainOK(main, server, clientAt, addrOf) BY DEF Inv
<1>2. server.q = <<>> /\ main.connQ = <<>> /\ \A a \in Addr : clientAt[a] = 0 BY <1>1 DEF MainOK
<1>3. ConstantTypes BY ConstantsTyped
<1>4. \A n \in Thread : thread[n] = Gone
  <2> TAKE n \in Thread
  <2> SUFFICES ASSUME thread[n] # Gone PROVE FALSE OBVIOUS
  <2>1. thread[n].addr \in Addr BY AliveIsRecord DEF Inv, ThreadRecord
  <2>2. clientAt[thread[n].addr] = n BY DEF Inv, MapOK
  <2>3. n # 0 BY <1>3 DEF Thread, ConstantTypes
  <2> QED BY <1>2, <2>1, <2>2, <2>3
<1>5. \A n \in Thread : Objects(thread)[n] = 0 BY <1>4 DEF Objects, ObjectOf
<1>6. Sole({}, {}, Objects(thread), deleted, tcps) BY <1>2, RangeEmpty DEF Inv, Owned
<1>7. \A t \in 1..tcps : t # 0 OBVIOUS
<1>8. \A t \in 1..tcps : deleted[t] = 1 BY <1>5, <1>6, <1>7 DEF Sole
<1> QED BY <1>4, <1>8 DEF Alive

\* An accepted connection is owned once until it is deleted, and deleted once, whatever the
\* threads of the server and the connections, replacements and the shutdown do; and when
\* MainLoop returns, no thread and no connection is left.
THEOREM ConnectionsOwnedOnce == Spec => []SoleOwner
<1>1. Inv => SoleOwner BY OwnersCount, NothingIsLeft DEF SoleOwner, OneOwner, NothingLeft
<1> QED BY <1>1, ConnectionsInvariant, PTL
-----------------------------------------------------------------------------
(* Where the frames are: what a thread has received is routed, or waits in *)
(* the queue of the thread or of the router thread, in the order of the    *)
(* frames.                                                                 *)

Increasing(s) == \A i, j \in 1..Len(s) : i < j => s[i] < s[j]

\* The frames of thread n that wait.
Pending(th, m, at, n) ==
  IF th[n] = Gone THEN <<>>
  ELSE IF m.pc = "route" /\ n = at[Min(m.todo)] THEN m.recvQ \o th[n].recvQ
  ELSE th[n].recvQ

PendingOf(th, m, at) == [n \in Thread |-> Pending(th, m, at, n)]

Follows(got, wait, r, k, gone) ==
  /\ \A n \in Thread : Range(got[n]) \subseteq 1..k
  /\ \A n1, n2 \in Thread : n1 # n2 => Range(got[n1]) \cap Range(got[n2]) = {}
  /\ \A n \in Thread : wait[n] \in Seq(Frame) /\ Increasing(wait[n])
  /\ \A n \in Thread : Range(wait[n]) \subseteq Range(got[n]) \ Range(r)
  /\ \A n \in Thread \ gone : Range(got[n]) \ Range(r) \subseteq Range(wait[n])
  /\ Range(r) \subseteq 1..k
  /\ \A n \in Thread : \A i, j \in 1..Len(r) : i < j /\ {r[i], r[j]} \subseteq Range(got[n]) => r[i] < r[j]
  /\ \A n \in Thread : \A f \in Range(r) \cap Range(got[n]), g \in Range(wait[n]) : f < g

\* Routed one after the other.
Before(r, f, g) == \E k, l \in 1..Len(r) : k < l /\ r[k] = f /\ r[l] = g

InOrder(s, r) ==
  /\ Range(s) \subseteq Range(r)
  /\ \A i, j \in 1..Len(s) : i < j => Before(r, s[i], s[j])

\* What the thread at Dst has still to write.
ToDst(th, at) == IF at[Dst] = 0 THEN <<>> ELSE th[at[Dst]].sendQ

OnlyDst(th) == \A n \in Thread : th[n] # Gone /\ th[n].addr # Dst => th[n].sendQ = <<>>

\* What the router thread knows of the thread that it visits.
VisitOK(m, th, at) ==
  /\ m.pc # "route" => m.recvQ = <<>>
  /\ m.pc \in {"visit", "route"} /\ ~m.running => th[at[Min(m.todo)]].pc = "ended"
  /\ m.pc = "route" /\ ~m.running => th[at[Min(m.todo)]].recvQ = <<>>

FrameTypes ==
  /\ gotBy \in [Thread -> Seq(Frame)] /\ routed \in Seq(Frame) /\ wire \in Seq(Frame)
  /\ \A n \in Thread : n > threads => gotBy[n] = <<>>

FramesInv ==
  /\ FrameTypes
  /\ VisitOK(main, thread, clientAt)
  /\ Follows(gotBy, PendingOf(thread, main, clientAt), routed, frames, dropped)
  /\ OnlyDst(thread)
  /\ InOrder(wire \o ToDst(thread, clientAt), routed)


-----------------------------------------------------------------------------
(* How the queues of frames change.                                        *)

LEMMA FrameNumbers == MaxFrames \in Nat /\ Frame \subseteq Nat
BY TcpAssumption DEF Frame

LEMMA RangeConcat ==
  ASSUME NEW T, NEW a \in Seq(T), NEW b \in Seq(T)
  PROVE  /\ a \o b \in Seq(T) /\ Len(a \o b) = Len(a) + Len(b)
         /\ \A i \in 1..Len(a) : (a \o b)[i] = a[i]
         /\ \A i \in 1..Len(b) : (a \o b)[Len(a) + i] = b[i]
         /\ Range(a \o b) = Range(a) \cup Range(b)
<1>1. /\ a \o b \in Seq(T) /\ Len(a \o b) = Len(a) + Len(b) /\ Len(a) \in Nat /\ Len(b) \in Nat
      /\ \A i \in 1..Len(a) : (a \o b)[i] = a[i]
  OBVIOUS
<1>2. \A i \in 1..Len(b) : (a \o b)[Len(a) + i] = b[i] OBVIOUS
<1>3. DOMAIN (a \o b) = 1..(Len(a) + Len(b)) /\ DOMAIN a = 1..Len(a) /\ DOMAIN b = 1..Len(b) BY <1>1
<1>4. \A i \in 1..(Len(a) + Len(b)) : i \in 1..Len(a) \/ \E j \in 1..Len(b) : i = Len(a) + j
  <2> TAKE i \in 1..(Len(a) + Len(b))
  <2>1. CASE i <= Len(a) BY <2>1, <1>1
  <2>2. CASE ~(i <= Len(a))
    <3>1. i - Len(a) \in 1..Len(b) /\ i = Len(a) + (i - Len(a)) BY <2>2, <1>1
    <3> QED BY <3>1
  <2> QED BY <2>1, <2>2
<1>5. Range(a \o b) \subseteq Range(a) \cup Range(b)
  <2> SUFFICES ASSUME NEW i \in DOMAIN (a \o b) PROVE (a \o b)[i] \in Range(a) \cup Range(b) BY DEF Range
  <2>1. CASE i \in 1..Len(a) BY <2>1, <1>1, <1>3 DEF Range
  <2>2. CASE \E j \in 1..Len(b) : i = Len(a) + j BY <2>2, <1>2, <1>3 DEF Range
  <2> QED BY <1>3, <1>4, <2>1, <2>2
<1>6. Range(a) \subseteq Range(a \o b)
  <2>1. \A i \in 1..Len(a) : i \in DOMAIN (a \o b) BY <1>1, <1>3
  <2> QED BY <2>1, <1>1, <1>3 DEF Range
<1>7. Range(b) \subseteq Range(a \o b)
  <2>1. \A i \in 1..Len(b) : Len(a) + i \in DOMAIN (a \o b) BY <1>1, <1>3
  <2> QED BY <2>1, <1>2, <1>3 DEF Range
<1> QED BY <1>1, <1>2, <1>5, <1>6, <1>7

LEMMA ConcatEnds ==
  ASSUME NEW T, NEW a \in Seq(T), NEW b \in Seq(T)
  PROVE  /\ \A x \in T : a \o Append(b, x) = Append(a \o b, x)
         /\ a # <<>> => Head(a \o b) = Head(a) /\ Tail(a) \o b = Tail(a \o b) /\ a \o b # <<>>
         /\ <<>> \o b = b /\ a \o <<>> = a
OBVIOUS

LEMMA IncreasingEmpty == Increasing(<<>>)
BY DEF Increasing

LEMMA IncreasingAppend ==
  ASSUME NEW s \in Seq(Frame), Increasing(s), NEW x \in Frame, \A f \in Range(s) : f < x
  PROVE  Increasing(Append(s, x))
<1>1. Len(Append(s, x)) = Len(s) + 1 /\ Len(s) \in Nat /\ Append(s, x)[Len(s) + 1] = x
      /\ \A i \in 1..Len(s) : Append(s, x)[i] = s[i] /\ s[i] \in Range(s)
  BY DEF Range
<1>2. \A i \in 1..Len(s) + 1 : i \in 1..Len(s) \/ i = Len(s) + 1 BY <1>1
<1>3. SUFFICES ASSUME NEW i \in 1..Len(s) + 1, NEW j \in 1..Len(s) + 1, i < j
               PROVE  Append(s, x)[i] < Append(s, x)[j]
  BY <1>1 DEF Increasing
<1>4. i \in 1..Len(s) BY <1>1, <1>3
<1>5. CASE j \in 1..Len(s) BY <1>1, <1>3, <1>4, <1>5 DEF Increasing
<1>6. CASE j = Len(s) + 1 BY <1>1, <1>4, <1>6
<1> QED BY <1>2, <1>5, <1>6

LEMMA IncreasingTail ==
  ASSUME NEW s \in Seq(Frame), Increasing(s), s # <<>>
  PROVE  Increasing(Tail(s)) /\ \A f \in Range(Tail(s)) : Head(s) < f
<1>1. Len(Tail(s)) = Len(s) - 1 /\ Len(s) \in Nat \ {0} /\ Tail(s) \in Seq(Frame) /\ Head(s) = s[1]
      /\ \A i \in 1..Len(Tail(s)) : Tail(s)[i] = s[i + 1]
  OBVIOUS
<1>2. \A i \in 1..Len(Tail(s)) : i + 1 \in 1..Len(s) /\ 1 < i + 1 BY <1>1
<1>3. Increasing(Tail(s)) BY <1>1, <1>2 DEF Increasing
<1>4. DOMAIN Tail(s) = 1..Len(Tail(s)) BY <1>1
<1>5. \A i \in 1..Len(Tail(s)) : Head(s) < Tail(s)[i] BY <1>1, <1>2 DEF Increasing
<1> QED BY <1>3, <1>4, <1>5 DEF Range

LEMMA FollowsReceive ==
  ASSUME NEW got \in [Thread -> Seq(Frame)], NEW wait, NEW r \in Seq(Frame), NEW k \in 0..MaxFrames, NEW gone,
         Follows(got, wait, r, k, gone), NEW n \in Thread, k + 1 \in Frame,
         NEW gotNow, gotNow[n] = Append(got[n], k + 1), \A m \in Thread : m # n => gotNow[m] = got[m],
         NEW waitNow, waitNow[n] = Append(wait[n], k + 1), \A m \in Thread : m # n => waitNow[m] = wait[m]
  PROVE  Follows(gotNow, waitNow, r, k + 1, gone)
<1> USE DEF Follows
<1>1. k \in Nat /\ k + 1 \notin 1..k /\ 1..k \subseteq 1..(k + 1) /\ k + 1 \in 1..(k + 1) /\ \A f \in 1..k : f < k + 1
  BY FrameNumbers
<1>2. got[n] \in Seq(Frame) /\ wait[n] \in Seq(Frame) OBVIOUS
<1>3. \A m \in Thread : Range(gotNow[m]) = Range(got[m]) \cup (IF m = n THEN {k + 1} ELSE {})
  <2>1. Range(gotNow[n]) = Range(got[n]) \cup {k + 1} BY <1>2, RangeAppend
  <2> TAKE m \in Thread
  <2>2. CASE m = n BY <2>1, <2>2
  <2>3. CASE m # n BY <2>3
  <2> QED BY <2>2, <2>3
<1>4. \A m \in Thread : Range(waitNow[m]) = Range(wait[m]) \cup (IF m = n THEN {k + 1} ELSE {})
  <2>1. Range(waitNow[n]) = Range(wait[n]) \cup {k + 1} BY <1>2, RangeAppend
  <2> TAKE m \in Thread
  <2>2. CASE m = n BY <2>1, <2>2
  <2>3. CASE m # n BY <2>3
  <2> QED BY <2>2, <2>3
<1>5. \A m \in Thread : Range(wait[m]) \subseteq 1..k /\ Range(got[m]) \subseteq 1..k OBVIOUS
<1>6. \A f \in Range(wait[n]) : f < k + 1 BY <1>1, <1>5
<1>7. Increasing(waitNow[n]) /\ waitNow[n] \in Seq(Frame) BY <1>2, <1>6, IncreasingAppend, RangeAppend
<1>8. Range(r) \subseteq 1..k OBVIOUS
<1>9. \A m \in Thread : Range(gotNow[m]) \subseteq 1..(k + 1)
  <2> TAKE m \in Thread
  <2> QED BY <1>1, <1>3, <1>5
<1>10. \A n1, n2 \in Thread : n1 # n2 => Range(gotNow[n1]) \cap Range(gotNow[n2]) = {}
  <2> TAKE n1, n2 \in Thread
  <2> HAVE n1 # n2
  <2>1. Range(got[n1]) \cap Range(got[n2]) = {} /\ k + 1 \notin Range(got[n1]) /\ k + 1 \notin Range(got[n2])
    BY <1>1, <1>5
  <2>2. Range(gotNow[n1]) = Range(got[n1]) \cup (IF n1 = n THEN {k + 1} ELSE {})
        /\ Range(gotNow[n2]) = Range(got[n2]) \cup (IF n2 = n THEN {k + 1} ELSE {})
    BY <1>3
  <2> QED BY <2>1, <2>2
<1>11. \A m \in Thread : waitNow[m] \in Seq(Frame) /\ Increasing(waitNow[m])
  BY <1>7
<1>12. \A m \in Thread : Range(waitNow[m]) \subseteq Range(gotNow[m]) \ Range(r)
  <2> TAKE m \in Thread
  <2>1. Range(wait[m]) \subseteq Range(got[m]) \ Range(r) /\ k + 1 \notin Range(r) BY <1>1, <1>8
  <2>2. Range(gotNow[m]) = Range(got[m]) \cup (IF m = n THEN {k + 1} ELSE {}) BY <1>3
  <2>3. Range(waitNow[m]) = Range(wait[m]) \cup (IF m = n THEN {k + 1} ELSE {}) BY <1>4
  <2> QED BY <2>1, <2>2, <2>3
<1>13. \A m \in Thread \ gone : Range(gotNow[m]) \ Range(r) \subseteq Range(waitNow[m])
  <2> TAKE m \in Thread \ gone
  <2>1. Range(got[m]) \ Range(r) \subseteq Range(wait[m]) OBVIOUS
  <2>2. Range(gotNow[m]) = Range(got[m]) \cup (IF m = n THEN {k + 1} ELSE {}) BY <1>3
  <2>3. Range(waitNow[m]) = Range(wait[m]) \cup (IF m = n THEN {k + 1} ELSE {}) BY <1>4
  <2> QED BY <2>1, <2>2, <2>3
<1>14. \A m \in Thread : \A f \in Range(r) : f \in Range(gotNow[m]) => f \in Range(got[m])
  <2> TAKE m \in Thread
  <2>1. k + 1 \notin Range(r) BY <1>1, <1>8
  <2> QED BY <2>1, <1>3
<1>15. \A i \in 1..Len(r) : r[i] \in Range(r) BY DEF Range
<1>16. \A m \in Thread : \A i, j \in 1..Len(r) :
         i < j /\ {r[i], r[j]} \subseteq Range(gotNow[m]) => r[i] < r[j]
  <2> TAKE m \in Thread
  <2> TAKE i, j \in 1..Len(r)
  <2> HAVE i < j /\ {r[i], r[j]} \subseteq Range(gotNow[m])
  <2>1. {r[i], r[j]} \subseteq Range(got[m]) BY <1>14, <1>15
  <2> QED BY <2>1
<1>17. \A m \in Thread : \A f \in Range(r) \cap Range(gotNow[m]), g \in Range(waitNow[m]) : f < g
  <2> TAKE m \in Thread
  <2> TAKE f \in Range(r) \cap Range(gotNow[m]), g \in Range(waitNow[m])
  <2>1. f \in Range(r) \cap Range(got[m]) /\ f < k + 1 BY <1>1, <1>8, <1>14
  <2>2. g = k + 1 \/ g \in Range(wait[m])
    <3>1. Range(waitNow[m]) = Range(wait[m]) \cup (IF m = n THEN {k + 1} ELSE {}) BY <1>4
    <3> QED BY <3>1
  <2> QED BY <2>1, <2>2
<1> QED BY <1>1, <1>8, <1>9, <1>10, <1>11, <1>12, <1>13, <1>16, <1>17


LEMMA FollowsRoute ==
  ASSUME NEW got \in [Thread -> Seq(Frame)], NEW wait, NEW r \in Seq(Frame), NEW k \in 0..MaxFrames, NEW gone,
         Follows(got, wait, r, k, gone), NEW n \in Thread, wait[n] # <<>>,
         NEW waitNow, waitNow[n] = Tail(wait[n]), \A m \in Thread : m # n => waitNow[m] = wait[m]
  PROVE  /\ Head(wait[n]) \in Frame /\ Head(wait[n]) \notin Range(r)
         /\ Follows(got, waitNow, Append(r, Head(wait[n])), k, gone)
<1> DEFINE f == Head(wait[n])
           now == Append(r, f)
<1> USE DEF Follows
<1>1. wait[n] \in Seq(Frame) OBVIOUS
<1>2. f \in Frame /\ Tail(wait[n]) \in Seq(Frame) /\ Range(wait[n]) = {f} \cup Range(Tail(wait[n]))
  BY <1>1, RangeHeadTail
<1>3. f \in Range(got[n]) /\ f \notin Range(r) /\ f \in 1..k BY <1>2
<1>4. Increasing(Tail(wait[n])) /\ \A g \in Range(Tail(wait[n])) : f < g BY <1>1, IncreasingTail
<1>5. now \in Seq(Frame) /\ Range(now) = Range(r) \cup {f} BY <1>2, RangeAppend
<1>6. Len(now) = Len(r) + 1 /\ Len(r) \in Nat /\ now[Len(r) + 1] = f /\ \A i \in 1..Len(r) : now[i] = r[i]
  BY <1>2
<1>7. \A m \in Thread : m # n => f \notin Range(got[m])
  <2> TAKE m \in Thread
  <2> HAVE m # n
  <2>1. Range(got[m]) \cap Range(got[n]) = {} OBVIOUS
  <2> QED BY <2>1, <1>3
<1> HIDE DEF now, f
<1>8. \A m \in Thread : waitNow[m] \in Seq(Frame) /\ Increasing(waitNow[m]) BY <1>2, <1>4
<1>9. \A m \in Thread : Range(waitNow[m]) \subseteq Range(got[m]) \ Range(now)
  <2> TAKE m \in Thread
  <2>1. Range(wait[m]) \subseteq Range(got[m]) \ Range(r) OBVIOUS
  <2>2. CASE m = n
    <3>1. f \notin Range(Tail(wait[n]))
      <4>1. Frame \subseteq Nat BY FrameNumbers
      <4> QED BY <4>1, <1>2, <1>4
    <3> QED BY <2>1, <2>2, <3>1, <1>2, <1>5
  <2>3. CASE m # n
    <3>1. waitNow[m] = wait[m] /\ f \notin Range(got[m]) BY <2>3, <1>7
    <3> QED BY <2>1, <3>1, <1>5
  <2> QED BY <2>2, <2>3
<1>10. \A m \in Thread \ gone : Range(got[m]) \ Range(now) \subseteq Range(waitNow[m])
  <2> TAKE m \in Thread \ gone
  <2>1. Range(got[m]) \ Range(r) \subseteq Range(wait[m]) OBVIOUS
  <2>2. CASE m = n BY <2>1, <2>2, <1>2, <1>5
  <2>3. CASE m # n
    <3>1. waitNow[m] = wait[m] BY <2>3
    <3> QED BY <2>1, <3>1, <1>5
  <2> QED BY <2>2, <2>3
<1>11. Range(now) \subseteq 1..k BY <1>3, <1>5
<1>12. \A m \in Thread : \A i, j \in 1..Len(now) :
         i < j /\ {now[i], now[j]} \subseteq Range(got[m]) => now[i] < now[j]
  <2> SUFFICES ASSUME NEW m \in Thread, NEW i \in 1..Len(now), NEW j \in 1..Len(now), i < j,
                      {now[i], now[j]} \subseteq Range(got[m])
               PROVE  now[i] < now[j]
    OBVIOUS
  <2>0. i \in 1..(Len(r) + 1) /\ j \in 1..(Len(r) + 1) /\ Len(r) \in Nat BY <1>6, Zenon
  <2>1. i \in 1..Len(r) /\ now[i] = r[i]
    <3>1. i \in 1..Len(r) BY <2>0
    <3> QED BY <3>1, <1>6
  <2>2. CASE j \in 1..Len(r)
    <3>1. now[j] = r[j] BY <2>2, <1>6
    <3> QED BY <2>1, <2>2, <3>1
  <2>3. CASE j = Len(r) + 1
    <3>1. now[j] = f /\ f \in Range(got[m]) BY <2>3, <1>6
    <3>2. m = n BY <3>1, <1>7
    <3>3. r[i] \in Range(r) BY <2>1 DEF Range
    <3>4. r[i] \in Range(r) \cap Range(got[n]) /\ f \in Range(wait[n]) BY <2>1, <3>2, <3>3, <1>2
    <3>5. r[i] < f BY <3>4
    <3> QED BY <2>1, <3>1, <3>5
  <2>4. j \in 1..Len(r) \/ j = Len(r) + 1
    <3>1. \A a \in Nat : \A b \in 1..(a + 1) : b \in 1..a \/ b = a + 1 OBVIOUS
    <3> QED BY <2>0, <3>1, Zenon
  <2> QED BY <2>2, <2>3, <2>4
<1>13. \A m \in Thread : \A g \in Range(now) \cap Range(got[m]), h \in Range(waitNow[m]) : g < h
  <2> TAKE m \in Thread
  <2> TAKE g \in Range(now) \cap Range(got[m]), h \in Range(waitNow[m])
  <2>1. CASE g = f
    <3>1. m = n BY <2>1, <1>7
    <3> QED BY <2>1, <3>1, <1>4
  <2>2. CASE g \in Range(r)
    <3>1. h \in Range(wait[m]) BY <1>2
    <3> QED BY <2>2, <3>1
  <2> QED BY <2>1, <2>2, <1>5
<1> QED BY <1>2, <1>3, <1>8, <1>9, <1>10, <1>11, <1>12, <1>13 DEF f, now

LEMMA FollowsDrop ==
  ASSUME NEW got \in [Thread -> Seq(Frame)], NEW wait, NEW r \in Seq(Frame), NEW k \in 0..MaxFrames, NEW gone,
         Follows(got, wait, r, k, gone), NEW n \in Thread,
         NEW waitNow, waitNow[n] = <<>>, \A m \in Thread : m # n => waitNow[m] = wait[m]
  PROVE  Follows(got, waitNow, r, k, gone \cup {n})
<1> USE DEF Follows
<1>1. Range(waitNow[n]) = {} /\ waitNow[n] \in Seq(Frame) /\ Increasing(waitNow[n]) BY RangeEmpty, IncreasingEmpty
<1>2. \A m \in Thread : Range(waitNow[m]) \subseteq Range(wait[m]) BY <1>1
<1>3. \A m \in Thread : waitNow[m] \in Seq(Frame) /\ Increasing(waitNow[m]) BY <1>1
<1>4. \A m \in Thread : Range(waitNow[m]) \subseteq Range(got[m]) \ Range(r)
  <2> TAKE m \in Thread
  <2>1. Range(wait[m]) \subseteq Range(got[m]) \ Range(r) OBVIOUS
  <2> QED BY <2>1, <1>2
<1>5. \A m \in Thread \ (gone \cup {n}) : Range(got[m]) \ Range(r) \subseteq Range(waitNow[m])
  <2> TAKE m \in Thread \ (gone \cup {n})
  <2>1. Range(got[m]) \ Range(r) \subseteq Range(wait[m]) /\ waitNow[m] = wait[m] OBVIOUS
  <2> QED BY <2>1
<1>6. \A m \in Thread : \A f \in Range(r) \cap Range(got[m]), g \in Range(waitNow[m]) : f < g
  <2> TAKE m \in Thread
  <2>1. \A f \in Range(r) \cap Range(got[m]), g \in Range(wait[m]) : f < g OBVIOUS
  <2> QED BY <2>1, <1>2
<1> QED BY <1>3, <1>4, <1>5, <1>6

\* The same threads wait for the same.
LEMMA FollowsSame ==
  ASSUME NEW got, NEW wait, NEW r, NEW k, NEW gone, Follows(got, wait, r, k, gone),
         NEW waitNow, \A m \in Thread : waitNow[m] = wait[m]
  PROVE  Follows(got, waitNow, r, k, gone)
<1> USE DEF Follows
<1>1. \A m \in Thread : Range(waitNow[m]) = Range(wait[m]) /\ waitNow[m] = wait[m] OBVIOUS
<1> QED BY <1>1

LEMMA InOrderPrefix ==
  ASSUME NEW T, NEW s \in Seq(T), NEW p \in Seq(T), Len(p) <= Len(s), \A i \in 1..Len(p) : p[i] = s[i],
         NEW r, InOrder(s, r)
  PROVE  InOrder(p, r)
<1> USE DEF InOrder
<1>1. Len(p) \in Nat /\ Len(s) \in Nat /\ DOMAIN p = 1..Len(p) /\ DOMAIN s = 1..Len(s) OBVIOUS
<1>2. \A i \in 1..Len(p) : i \in 1..Len(s) BY <1>1
<1>3. Range(p) \subseteq Range(s) BY <1>1, <1>2 DEF Range
<1> QED BY <1>2, <1>3

LEMMA InOrderRoute ==
  ASSUME NEW s \in Seq(Frame), NEW r \in Seq(Frame), InOrder(s, r), NEW f \in Frame
  PROVE  InOrder(s, Append(r, f)) /\ InOrder(Append(s, f), Append(r, f))
<1> DEFINE now == Append(r, f)
<1>1. /\ Len(now) = Len(r) + 1 /\ Len(r) \in Nat /\ now[Len(r) + 1] = f
      /\ \A i \in 1..Len(r) : now[i] = r[i] /\ i \in 1..Len(now) /\ i < Len(r) + 1
  OBVIOUS
<1>2. Range(now) = Range(r) \cup {f} BY RangeAppend
<1>3. Range(Append(s, f)) = Range(s) \cup {f} BY RangeAppend
<1>4. Len(Append(s, f)) = Len(s) + 1 /\ Len(s) \in Nat /\ Append(s, f)[Len(s) + 1] = f
      /\ \A i \in 1..Len(s) : Append(s, f)[i] = s[i]
  OBVIOUS
<1>5. Len(r) + 1 \in 1..Len(now) BY <1>1
<1> HIDE DEF now
<1>6. \A g, h : Before(r, g, h) => Before(now, g, h) BY <1>1 DEF Before
<1>7. \A g \in Range(r) : Before(now, g, f)
  <2> TAKE g \in Range(r)
  <2>1. PICK k \in 1..Len(r) : r[k] = g BY DEF Range
  <2> QED BY <2>1, <1>1, <1>5 DEF Before
<1>8. InOrder(s, now) BY <1>2, <1>6 DEF InOrder
<1>9. ASSUME NEW i \in 1..Len(s) + 1, NEW j \in 1..Len(s) + 1, i < j
      PROVE  Before(now, Append(s, f)[i], Append(s, f)[j])
  <2>1. i \in 1..Len(s) BY <1>4, <1>9
  <2>2. CASE j \in 1..Len(s)
    <3>1. Before(now, s[i], s[j]) BY <2>1, <2>2, <1>9, <1>8 DEF InOrder
    <3> QED BY <2>1, <2>2, <3>1, <1>4
  <2>3. CASE j = Len(s) + 1
    <3>1. s[i] \in Range(s) BY <2>1 DEF Range
    <3>2. Before(now, s[i], f) BY <3>1, <1>7 DEF InOrder
    <3> QED BY <2>1, <2>3, <3>2, <1>4
  <2> QED BY <2>2, <2>3, <1>4
<1>10. InOrder(Append(s, f), now)
  <2>1. Range(Append(s, f)) \subseteq Range(now) BY <1>2, <1>3 DEF InOrder
  <2> QED BY <2>1, <1>4, <1>9 DEF InOrder
<1> QED BY <1>8, <1>10 DEF now


-----------------------------------------------------------------------------
(* The steps.                                                              *)

LEMMA PendingTyped ==
  ASSUME Inv, FramesInv, NEW n \in Thread
  PROVE  PendingOf(thread, main, clientAt)[n] \in Seq(Frame)
BY DEF FramesInv, Follows

LEMMA ToDstTyped ==
  ASSUME NEW th \in [Thread -> ThreadRecord \cup {Gone}], NEW at \in [Addr -> Thread \cup {0}],
         NEW k, MapOK(th, at, k)
  PROVE  ToDst(th, at) \in Seq(Frame)
<1>1. CASE at[Dst] = 0
  <2>1. ToDst(th, at) = <<>> BY <1>1 DEF ToDst
  <2>2. <<>> \in Seq(Frame) OBVIOUS
  <2> QED BY <2>1, <2>2
<1>2. CASE at[Dst] # 0
  <2>1. at[Dst] \in Thread /\ th[at[Dst]] # Gone BY <1>2, TcpAssumption DEF MapOK
  <2>2. th[at[Dst]] \in ThreadRecord BY <2>1
  <2> QED BY <1>2, <2>2 DEF ToDst, ThreadRecord
<1> QED BY <1>1, <1>2

\* A step that routes, receives and writes nothing: what waits stays, or is thrown away with
\* the thread, and what Dst has still to get stays or is forgotten.
LEMMA QuietStep ==
  ASSUME Inv, FramesInv, Inv', UNCHANGED frameVars,
         VisitOK(main', thread', clientAt'), OnlyDst(thread'), threads <= threads',
         ToDst(thread', clientAt') \in {ToDst(thread, clientAt), <<>>},
         \A n \in Thread : PendingOf(thread', main', clientAt')[n] = PendingOf(thread, main, clientAt)[n],
         dropped' = dropped
  PROVE  FramesInv'
<1>1. frames' = frames /\ gotBy' = gotBy /\ routed' = routed /\ wire' = wire BY DEF frameVars
<1>2. FrameTypes'
  <2>1. threads \in Nat /\ threads' \in Nat BY DEF Inv, Types
  <2>2. \A n \in Thread : n > threads' => n > threads
    <3>1. Thread \subseteq Nat BY ConstantsTyped DEF Thread, ConstantTypes
    <3> QED BY <2>1, <3>1
  <2> QED BY <1>1, <2>2 DEF FramesInv, FrameTypes
<1>3. Follows(gotBy', PendingOf(thread', main', clientAt'), routed', frames', dropped')
  BY <1>1, FollowsSame DEF FramesInv
<1>4. InOrder(wire' \o ToDst(thread', clientAt'), routed')
  <2>1. wire \in Seq(Frame) BY DEF FramesInv, FrameTypes
  <2>2. ToDst(thread, clientAt) \in Seq(Frame) BY ToDstTyped DEF Inv, Types
  <2>3. InOrder(wire \o ToDst(thread, clientAt), routed) BY DEF FramesInv
  <2>4. InOrder(wire \o <<>>, routed)
    <3>1. wire \o <<>> = wire BY <2>1
    <3>2. /\ wire \o ToDst(thread, clientAt) \in Seq(Frame) /\ Len(wire) <= Len(wire \o ToDst(thread, clientAt))
          /\ \A i \in 1..Len(wire) : (wire \o ToDst(thread, clientAt))[i] = wire[i]
      BY <2>1, <2>2
    <3> QED BY <2>1, <2>3, <3>1, <3>2, InOrderPrefix
  <2> QED BY <1>1, <2>3, <2>4
<1> QED BY <1>2, <1>3, <1>4 DEF FramesInv

\* A thread that keeps its queues and its address.
LEMMA QueuesKept ==
  ASSUME Inv, FramesInv, NEW n \in Thread, thread[n] # Gone, NEW new \in ThreadRecord,
         new.addr = thread[n].addr, new.recvQ = thread[n].recvQ, new.sendQ = thread[n].sendQ,
         NEW th, th = [thread EXCEPT ![n] = new],
         NEW m, main.pc = "route" <=> m.pc = "route",
         main.pc = "route" => m.recvQ = main.recvQ /\ m.todo = main.todo
  PROVE  /\ OnlyDst(th) /\ ToDst(th, clientAt) = ToDst(thread, clientAt)
         /\ \A i \in Thread : PendingOf(th, m, clientAt)[i] = PendingOf(thread, main, clientAt)[i]
<1>1. thread \in [Thread -> ThreadRecord \cup {Gone}] /\ clientAt \in [Addr -> Thread \cup {0}] BY DEF Inv, Types
<1>2. new # Gone BY GoneAssumption
<1>3. th[n] = new /\ \A i \in Thread : i # n => th[i] = thread[i] BY <1>1
<1>4. \A i \in Thread : (th[i] = Gone <=> thread[i] = Gone) /\ th[i].addr = thread[i].addr
                        /\ th[i].recvQ = thread[i].recvQ /\ th[i].sendQ = thread[i].sendQ
  <2> TAKE i \in Thread
  <2>1. CASE i = n BY <2>1, <1>2, <1>3
  <2>2. CASE i # n BY <2>2, <1>3
  <2> QED BY <2>1, <2>2
<1>5. OnlyDst(th) BY <1>4 DEF FramesInv, OnlyDst
<1>6. ToDst(th, clientAt) = ToDst(thread, clientAt)
  <2>1. clientAt[Dst] = 0 \/ clientAt[Dst] \in Thread BY <1>1, TcpAssumption
  <2> QED BY <2>1, <1>4 DEF ToDst
<1>7. \A i \in Thread : PendingOf(th, m, clientAt)[i] = PendingOf(thread, main, clientAt)[i]
  BY <1>4 DEF PendingOf, Pending
<1> QED BY <1>5, <1>6, <1>7

LEMMA ThreadFrames ==
  ASSUME Inv, FramesInv, Inv', NEW n \in Thread, thread[n] # Gone, NEW new \in ThreadRecord, ThreadChange(n, new),
         new.addr = thread[n].addr, new.recvQ = thread[n].recvQ, new.sendQ = thread[n].sendQ,
         thread[n].pc = "ended" => new.pc = "ended", UNCHANGED frameVars
  PROVE  FramesInv'
<1>1. thread' = [thread EXCEPT ![n] = new] /\ threads' = threads /\ clientAt' = clientAt /\ main' = main
      /\ dropped' = dropped
  BY DEF ThreadChange
<1>2. /\ OnlyDst(thread') /\ ToDst(thread', clientAt) = ToDst(thread, clientAt)
      /\ \A i \in Thread : PendingOf(thread', main, clientAt)[i] = PendingOf(thread, main, clientAt)[i]
  BY <1>1, QueuesKept
<1>3. threads \in Nat /\ thread \in [Thread -> ThreadRecord \cup {Gone}] BY DEF Inv, Types
<1>4. thread'[n] = new /\ \A i : i # n => thread'[i] = thread[i] BY <1>1, <1>3
<1>5. VisitOK(main, thread', clientAt)
  <2>1. VisitOK(main, thread, clientAt) BY DEF FramesInv
  <2> DEFINE v == clientAt[Min(main.todo)]
  <2>2. CASE v = n
    <3>1. thread'[v] = new /\ thread[v] = thread[n] BY <2>2, <1>4
    <3> QED BY <2>1, <3>1 DEF VisitOK
  <2>3. CASE v # n
    <3>1. thread'[v] = thread[v] BY <2>3, <1>4
    <3> QED BY <2>1, <3>1 DEF VisitOK
  <2> QED BY <2>2, <2>3
<1>6. VisitOK(main', thread', clientAt') BY <1>1, <1>5
<1>7. ToDst(thread', clientAt') \in {ToDst(thread, clientAt), <<>>} BY <1>1, <1>2
<1>8. \A i \in Thread : PendingOf(thread', main', clientAt')[i] = PendingOf(thread, main, clientAt)[i] BY <1>1, <1>2
<1>9. threads <= threads' BY <1>1, <1>3
<1> QED BY <1>1, <1>2, <1>6, <1>7, <1>8, <1>9, QuietStep

\* The router thread alone goes on, or stops a thread.
LEMMA MainFrames ==
  ASSUME Inv, FramesInv, Inv', UNCHANGED <<clientAt, threads, frameVars, dropped>>, thread' = thread,
         main.pc = "route" <=> main'.pc = "route",
         main.pc = "route" => main'.recvQ = main.recvQ /\ main'.todo = main.todo,
         VisitOK(main', thread, clientAt)
  PROVE  FramesInv'
<1>1. \A i \in Thread : PendingOf(thread', main', clientAt')[i] = PendingOf(thread, main, clientAt)[i]
  BY DEF PendingOf, Pending
<1>2. threads <= threads' /\ OnlyDst(thread') /\ ToDst(thread', clientAt') = ToDst(thread, clientAt)
  BY DEF Inv, Types, FramesInv
<1> QED BY <1>1, <1>2, QuietStep

LEMMA ServerFrames ==
  ASSUME Inv, FramesInv, Inv',
         ServerListen \/ ServerLeave \/ ServerClose \/ ServerEnd \/ \E a \in Addr : ServerAccept(a)
  PROVE  FramesInv'
<1>1. UNCHANGED <<clientAt, threads, thread, main, frameVars, dropped>>
  BY DEF ServerListen, ServerLeave, ServerClose, ServerEnd, ServerAccept, ServerChange
<1> QED BY <1>1, MainFrames DEF FramesInv

\* The steps of a connection's thread.
LEMMA ReceiveFrames ==
  ASSUME Inv, FramesInv, Inv', NEW n \in Thread, ThreadRecv(n)
  PROVE  FramesInv'
<1> DEFINE r == thread[n]
           new == [r EXCEPT !.recvQ = Append(@, frames + 1)]
           W == PendingOf(thread, main, clientAt)
           now == PendingOf(thread', main, clientAt)
<1>1. r # Gone /\ r.pc = "open" /\ frames < MaxFrames /\ frames' = frames + 1
      /\ gotBy' = [gotBy EXCEPT ![n] = Append(@, frames + 1)] /\ ThreadChange(n, new)
      /\ routed' = routed /\ wire' = wire
  BY DEF ThreadRecv, Alive
<1>2. r \in ThreadRecord BY <1>1, AliveIsRecord DEF Inv
<1>3. thread' = [thread EXCEPT ![n] = new] /\ threads' = threads /\ clientAt' = clientAt /\ main' = main
      /\ dropped' = dropped
  BY <1>1 DEF ThreadChange
<1>4. frames \in 0..MaxFrames /\ frames + 1 \in Frame /\ threads \in Nat
  BY <1>1, FrameNumbers DEF Inv, Types, Frame
<1>5. Append(r.recvQ, frames + 1) \in Seq(Frame) BY <1>2, <1>4 DEF ThreadRecord
<1>6. new \in ThreadRecord /\ new.addr = r.addr /\ new.recvQ = Append(r.recvQ, frames + 1)
      /\ new.sendQ = r.sendQ /\ new.pc = r.pc
  BY <1>2, <1>5 DEF ThreadRecord
<1>7. thread \in [Thread -> ThreadRecord \cup {Gone}] /\ clientAt \in [Addr -> Thread \cup {0}] BY DEF Inv, Types
<1> HIDE DEF new
<1>8. new # Gone BY <1>6, GoneAssumption
<1>9. thread'[n] = new /\ \A i : i # n => thread'[i] = thread[i] BY <1>3, <1>7
<1>10. FrameTypes /\ VisitOK(main, thread, clientAt) /\ OnlyDst(thread) /\ Follows(gotBy, W, routed, frames, dropped)
       /\ InOrder(wire \o ToDst(thread, clientAt), routed)
  BY DEF FramesInv
<1>11. /\ gotBy'[n] = Append(gotBy[n], frames + 1) /\ gotBy' \in [Thread -> Seq(Frame)]
       /\ \A i \in Thread : i # n => gotBy'[i] = gotBy[i]
  <2>1. gotBy \in [Thread -> Seq(Frame)] BY <1>10 DEF FrameTypes
  <2>2. Append(gotBy[n], frames + 1) \in Seq(Frame) BY <2>1, <1>4
  <2> QED BY <1>1, <2>1, <2>2
<1>12. now[n] = Append(W[n], frames + 1) /\ \A i \in Thread : i # n => now[i] = W[i]
  <2>1. \A i \in Thread : i # n => now[i] = W[i] BY <1>9 DEF PendingOf, Pending
  <2>2. now[n] = Append(W[n], frames + 1)
    <3>1. CASE main.pc = "route" /\ n = clientAt[Min(main.todo)]
      <4>1. now[n] = main.recvQ \o Append(r.recvQ, frames + 1) /\ W[n] = main.recvQ \o r.recvQ
        BY <1>1, <1>6, <1>8, <1>9, <3>1 DEF PendingOf, Pending
      <4>2. main.recvQ \in Seq(Frame) /\ r.recvQ \in Seq(Frame) BY <1>2, MainTyped DEF MainRecord, ThreadRecord
      <4>3. \A x \in Frame : main.recvQ \o Append(r.recvQ, x) = Append(main.recvQ \o r.recvQ, x)
        <5> HIDE DEF r
        <5>1. \A a, b \in Seq(Frame) : \A x \in Frame : a \o Append(b, x) = Append(a \o b, x)
          BY ConcatEnds
        <5> QED BY <4>2, <5>1
      <4> HIDE DEF now, W
      <4> QED BY <4>1, <4>3, <1>4
    <3>2. CASE ~(main.pc = "route" /\ n = clientAt[Min(main.todo)])
      BY <1>1, <1>6, <1>8, <1>9, <3>2 DEF PendingOf, Pending
    <3> QED BY <3>1, <3>2
  <2> QED BY <2>1, <2>2
<1>13. FrameTypes'
  <2>1. \A i \in Thread : i > threads => i # n
    <3>1. n <= threads /\ n \in Nat BY <1>1, ConstantsTyped DEF Inv, MapOK, Thread, ConstantTypes
    <3> QED BY <3>1, <1>4
  <2>2. \A i \in Thread : i > threads => gotBy'[i] = <<>> BY <2>1, <1>10, <1>11 DEF FrameTypes
  <2>3. routed' \in Seq(Frame) /\ wire' \in Seq(Frame) BY <1>1, <1>10 DEF FrameTypes
  <2>4. \A i \in Thread : i > threads' => gotBy'[i] = <<>> BY <1>3, <2>2
  <2> QED BY <1>11, <2>3, <2>4 DEF FrameTypes
<1>14. VisitOK(main', thread', clientAt')
  <2> DEFINE v == clientAt[Min(main.todo)]
  <2>1. CASE v = n
    <3>1. thread'[v].pc = "open" /\ thread[v].pc = "open" BY <1>1, <1>6, <1>9, <2>1
    <3> QED BY <1>3, <1>10, <3>1 DEF VisitOK
  <2>2. CASE v # n
    <3>1. thread'[v] = thread[v] BY <1>9, <2>2
    <3> QED BY <1>3, <1>10, <3>1 DEF VisitOK
  <2> QED BY <2>1, <2>2
<1>15. Follows(gotBy', now, routed, frames + 1, dropped)
  <2>1. gotBy \in [Thread -> Seq(Frame)] /\ routed \in Seq(Frame) BY <1>10 DEF FrameTypes
  <2> HIDE DEF now, W
  <2> QED BY <2>1, <1>4, <1>10, <1>11, <1>12, FollowsReceive
<1>16. OnlyDst(thread')
  <2> SUFFICES ASSUME NEW i \in Thread, thread'[i] # Gone, thread'[i].addr # Dst PROVE thread'[i].sendQ = <<>>
    BY DEF OnlyDst
  <2>1. CASE i = n BY <2>1, <1>1, <1>6, <1>9, <1>10 DEF OnlyDst
  <2>2. CASE i # n BY <2>2, <1>9, <1>10 DEF OnlyDst
  <2> QED BY <2>1, <2>2
<1>17. ToDst(thread', clientAt) = ToDst(thread, clientAt) BY <1>6, <1>9 DEF ToDst
<1>18. InOrder(wire' \o ToDst(thread', clientAt'), routed') BY <1>1, <1>3, <1>10, <1>17
<1>19. Follows(gotBy', PendingOf(thread', main', clientAt'), routed', frames', dropped') BY <1>1, <1>3, <1>15
<1> QED BY <1>13, <1>14, <1>16, <1>18, <1>19 DEF FramesInv

LEMMA SendFrames ==
  ASSUME Inv, FramesInv, Inv', NEW n \in Thread, ThreadSend(n)
  PROVE  FramesInv'
<1> DEFINE r == thread[n]
           W == PendingOf(thread, main, clientAt)
           now == PendingOf(thread', main, clientAt)
<1>1. r # Gone /\ r.pc = "open" /\ r.sendQ # <<>> /\ frames' = frames /\ gotBy' = gotBy /\ routed' = routed
  BY DEF ThreadSend, Alive
<1>2. PICK k \in 0..Len(r.sendQ) :
        /\ wire' = wire \o SubSeq(r.sendQ, 1, k)
        /\ ThreadChange(n, [r EXCEPT !.sendQ = <<>>, !.pc = IF k = Len(r.sendQ) THEN "open" ELSE "close"])
  BY DEF ThreadSend
<1> DEFINE new == [r EXCEPT !.sendQ = <<>>, !.pc = IF k = Len(r.sendQ) THEN "open" ELSE "close"]
<1>3. r \in ThreadRecord BY <1>1, AliveIsRecord DEF Inv
<1>4. new \in ThreadRecord /\ new.addr = r.addr /\ new.recvQ = r.recvQ /\ new.sendQ = <<>> /\ new.pc # "ended"
  <2>1. PICK q \in Seq(Frame), c \in {"open", "close"} : new = [r EXCEPT !.sendQ = q, !.pc = c] /\ q = <<>>
    <3>1. <<>> \in Seq(Frame) OBVIOUS
    <3> QED BY <3>1
  <2> HIDE DEF new
  <2> QED BY <1>3, <2>1 DEF ThreadRecord
<1>5. thread' = [thread EXCEPT ![n] = new] /\ threads' = threads /\ clientAt' = clientAt /\ main' = main
      /\ dropped' = dropped
  BY <1>2 DEF ThreadChange
<1> HIDE DEF new
<1>6. thread \in [Thread -> ThreadRecord \cup {Gone}] /\ clientAt \in [Addr -> Thread \cup {0}]
      /\ MapOK(thread, clientAt, threads)
  BY DEF Inv, Types
<1>7. new # Gone BY <1>4, GoneAssumption
<1>8. thread'[n] = new /\ \A i : i # n => thread'[i] = thread[i] BY <1>5, <1>6
<1>9. FrameTypes /\ VisitOK(main, thread, clientAt) /\ OnlyDst(thread) /\ Follows(gotBy, W, routed, frames, dropped)
       /\ InOrder(wire \o ToDst(thread, clientAt), routed)
  BY DEF FramesInv
<1>10. clientAt[Dst] = n /\ ToDst(thread, clientAt) = r.sendQ
  <2>1. r.addr = Dst BY <1>1, <1>9 DEF OnlyDst
  <2>2. clientAt[Dst] = n /\ n # 0 BY <1>1, <1>6, <2>1, ConstantsTyped DEF MapOK, Thread, ConstantTypes
  <2> QED BY <2>2 DEF ToDst
<1>11. ToDst(thread', clientAt') = <<>>
  <2>1. n # 0 BY ConstantsTyped DEF Thread, ConstantTypes
  <2> QED BY <2>1, <1>4, <1>5, <1>8, <1>10 DEF ToDst
<1>12. wire' \in Seq(Frame) /\ InOrder(wire' \o <<>>, routed)
  <2>1. wire \in Seq(Frame) /\ r.sendQ \in Seq(Frame) BY <1>3, <1>9 DEF FrameTypes, ThreadRecord
  <2>2. SubSeq(r.sendQ, 1, k) \in Seq(Frame) /\ Len(SubSeq(r.sendQ, 1, k)) = k
        /\ \A i \in 1..k : SubSeq(r.sendQ, 1, k)[i] = r.sendQ[i]
    BY <2>1
  <2> DEFINE p == SubSeq(r.sendQ, 1, k)
  <2> HIDE DEF p
  <2>3. wire \o p \in Seq(Frame) /\ wire \o r.sendQ \in Seq(Frame) /\ Len(wire \o p) = Len(wire) + k
        /\ Len(wire \o r.sendQ) = Len(wire) + Len(r.sendQ) /\ Len(wire) \in Nat /\ Len(r.sendQ) \in Nat
    BY <2>1, <2>2 DEF p
  <2>4. \A i \in 1..Len(wire \o p) : (wire \o p)[i] = (wire \o r.sendQ)[i]
    <3> TAKE i \in 1..Len(wire \o p)
    <3>1. CASE i \in 1..Len(wire)
      <4>1. (wire \o p)[i] = wire[i] /\ (wire \o r.sendQ)[i] = wire[i] BY <3>1, <2>1, <2>2, RangeConcat DEF p
      <4> QED BY <4>1
    <3>2. CASE i \notin 1..Len(wire)
      <4>1. i - Len(wire) \in 1..k /\ i = Len(wire) + (i - Len(wire)) BY <3>2, <2>3
      <4>2. PICK j \in 1..k : i = Len(wire) + j BY <4>1
      <4>3. j \in 1..Len(r.sendQ) BY <2>3
      <4>4. (wire \o p)[i] = p[j] BY <4>2, <2>1, <2>2, RangeConcat DEF p
      <4>5. (wire \o r.sendQ)[i] = r.sendQ[j] BY <4>2, <4>3, <2>1, RangeConcat
      <4> QED BY <4>4, <4>5, <2>2 DEF p
    <3> QED BY <3>1, <3>2
  <2>5. Len(wire \o p) <= Len(wire \o r.sendQ) BY <2>3
  <2>6. InOrder(wire \o p, routed) BY <2>3, <2>4, <2>5, <1>9, <1>10, InOrderPrefix
  <2>7. wire' = wire \o p BY <1>2 DEF p
  <2>8. wire' \o <<>> = wire' BY <2>3, <2>7
  <2> QED BY <2>3, <2>6, <2>7, <2>8
<1>13. \A i \in Thread : now[i] = W[i]
  <2> TAKE i \in Thread
  <2>1. CASE i = n BY <2>1, <1>1, <1>4, <1>7, <1>8 DEF PendingOf, Pending
  <2>2. CASE i # n BY <2>2, <1>8 DEF PendingOf, Pending
  <2> QED BY <2>1, <2>2
<1>14. OnlyDst(thread')
  <2> SUFFICES ASSUME NEW i \in Thread, thread'[i] # Gone, thread'[i].addr # Dst PROVE thread'[i].sendQ = <<>>
    BY DEF OnlyDst
  <2>1. CASE i = n BY <2>1, <1>4, <1>8
  <2>2. CASE i # n BY <2>2, <1>8, <1>9 DEF OnlyDst
  <2> QED BY <2>1, <2>2
<1>15. VisitOK(main', thread', clientAt')
  <2> DEFINE v == clientAt[Min(main.todo)]
  <2>1. CASE v = n
    <3>1. thread[v].pc = "open" BY <1>1, <2>1
    <3> QED BY <1>5, <1>9, <3>1 DEF VisitOK
  <2>2. CASE v # n
    <3>1. thread'[v] = thread[v] BY <1>8, <2>2
    <3> QED BY <1>5, <1>9, <3>1 DEF VisitOK
  <2> QED BY <2>1, <2>2
<1>16. Follows(gotBy, now, routed, frames, dropped)
  <2> HIDE DEF now, W
  <2> QED BY <1>9, <1>13, FollowsSame
<1>17. Follows(gotBy', PendingOf(thread', main', clientAt'), routed', frames', dropped') BY <1>1, <1>5, <1>16
<1>18. FrameTypes' BY <1>1, <1>5, <1>9, <1>12 DEF FrameTypes
<1>19. InOrder(wire' \o ToDst(thread', clientAt'), routed') BY <1>1, <1>11, <1>12
<1> QED BY <1>14, <1>15, <1>17, <1>18, <1>19 DEF FramesInv

LEMMA ClientFrames ==
  ASSUME Inv, FramesInv, NEW n \in Thread, Client(n) \/ ThreadRecv(n) \/ ThreadSend(n) \/ ThreadLeave(n)
  PROVE  FramesInv'
<1> DEFINE r == thread[n]
<1>1. r # Gone
  BY DEF Client, ThreadRecv, ThreadSend, ThreadLeave, ThreadTake, ThreadOpen, ThreadClose, ThreadEnd, Alive
<1>2. r \in ThreadRecord BY <1>1, AliveIsRecord DEF Inv
<1>3. Inv' BY ThreadKeeps
<1>4. ASSUME NEW new \in ThreadRecord, ThreadChange(n, new), UNCHANGED frameVars, r.pc # "ended",
             new.addr = r.addr, new.recvQ = r.recvQ, new.sendQ = r.sendQ
      PROVE  FramesInv'
  BY <1>1, <1>3, <1>4, ThreadFrames
<1>5. CASE ThreadTake(n)
  <2> DEFINE new == [r EXCEPT !.tcp = IF r.accepted = 0 THEN Own ELSE r.accepted, !.accepted = 0, !.pc = "opening"]
  <2>1. r.pc # "ended" /\ ThreadChange(n, new) /\ UNCHANGED frameVars BY <1>5 DEF ThreadTake
  <2>2. new \in ThreadRecord /\ new.addr = r.addr /\ new.recvQ = r.recvQ /\ new.sendQ = r.sendQ
    BY <1>2 DEF ThreadRecord
  <2> HIDE DEF new
  <2> QED BY <1>4, <2>1, <2>2
<1>6. CASE ThreadOpen(n)
  <2>1. r.pc # "ended" /\ UNCHANGED frameVars BY <1>6 DEF ThreadOpen
  <2>2. PICK new \in {[r EXCEPT !.pc = "open", !.up = TRUE], [r EXCEPT !.pc = "close"]} : ThreadChange(n, new)
    BY <1>6 DEF ThreadOpen
  <2>3. new \in ThreadRecord /\ new.addr = r.addr /\ new.recvQ = r.recvQ /\ new.sendQ = r.sendQ
    BY <1>2 DEF ThreadRecord
  <2> QED BY <1>4, <2>1, <2>2, <2>3
<1>7. CASE ThreadClose(n)
  <2> DEFINE new == [r EXCEPT !.tcp = 0, !.up = FALSE, !.pc = IF r.reconnects THEN "loop" ELSE "ended"]
  <2>1. r.pc # "ended" /\ ThreadChange(n, new) /\ UNCHANGED frameVars BY <1>7 DEF ThreadClose
  <2>2. new \in ThreadRecord /\ new.addr = r.addr /\ new.recvQ = r.recvQ /\ new.sendQ = r.sendQ
    BY <1>2 DEF ThreadRecord
  <2> HIDE DEF new
  <2> QED BY <1>4, <2>1, <2>2
<1>8. CASE ThreadEnd(n)
  <2> DEFINE new == [r EXCEPT !.pc = "ended"]
  <2>1. r.pc # "ended" /\ ThreadChange(n, new) /\ UNCHANGED frameVars BY <1>8 DEF ThreadEnd
  <2>2. new \in ThreadRecord /\ new.addr = r.addr /\ new.recvQ = r.recvQ /\ new.sendQ = r.sendQ
    BY <1>2 DEF ThreadRecord
  <2> HIDE DEF new
  <2> QED BY <1>4, <2>1, <2>2
<1>9. CASE ThreadLeave(n)
  <2> DEFINE new == [r EXCEPT !.pc = "close"]
  <2>1. r.pc # "ended" /\ ThreadChange(n, new) /\ UNCHANGED frameVars BY <1>9 DEF ThreadLeave
  <2>2. new \in ThreadRecord /\ new.addr = r.addr /\ new.recvQ = r.recvQ /\ new.sendQ = r.sendQ
    BY <1>2 DEF ThreadRecord
  <2> HIDE DEF new
  <2> QED BY <1>4, <2>1, <2>2
<1> QED BY <1>3, <1>5, <1>6, <1>7, <1>8, <1>9, ReceiveFrames, SendFrames DEF Client

\* The steps of the router thread that move no frame.
LEMMA LoopFrames ==
  ASSUME Inv, FramesInv, Inv',
         \/ LoopOrStop \/ SampleServer \/ FlushServer \/ ReapServer \/ SampleClient \/ EndOfLoop
         \/ Stop \/ StopServer \/ JoinServer \/ Finish
  PROVE  FramesInv'
<1>1. main \in MainRecord BY MainTyped
<1>2. UNCHANGED <<clientAt, threads, thread, frameVars, dropped>>
  BY DEF LoopOrStop, SampleServer, FlushServer, ReapServer, SampleClient, EndOfLoop, Stop, StopServer,
         JoinServer, Finish
<1>3. VisitOK(main, thread, clientAt) BY DEF FramesInv
<1>4. CASE SampleClient
  <2> DEFINE new == [main EXCEPT !.pc = "visit", !.running = thread[Visited].pc # "ended"]
  <2>1. main.pc = "clients" /\ main' = new BY <1>4 DEF SampleClient, MainChange
  <2>2. new.pc = "visit" /\ (new.running <=> thread[Visited].pc # "ended") /\ new.todo = main.todo
        /\ new.recvQ = main.recvQ
    BY <1>1 DEF MainRecord
  <2> HIDE DEF new
  <2>3. VisitOK(new, thread, clientAt) BY <1>3, <2>1, <2>2 DEF VisitOK, Visited
  <2> QED BY <1>2, <2>1, <2>2, <2>3, MainFrames
<1>5. CASE Stop
  <2> DEFINE new == [main EXCEPT !.run = FALSE]
  <2>1. main' = new BY <1>5 DEF Stop, MainChange
  <2>2. new.pc = main.pc /\ new.running = main.running /\ new.todo = main.todo /\ new.recvQ = main.recvQ
    BY <1>1 DEF MainRecord
  <2> HIDE DEF new
  <2>3. VisitOK(new, thread, clientAt) BY <1>3, <2>1, <2>2 DEF VisitOK
  <2> QED BY <1>2, <2>1, <2>2, <2>3, MainFrames
<1>6. ASSUME main.pc \notin {"route", "visit"}, main'.pc \notin {"route", "visit"}, main'.recvQ = main.recvQ
      PROVE  FramesInv'
  <2>1. VisitOK(main', thread, clientAt) BY <1>3, <1>6 DEF VisitOK
  <2> QED BY <1>2, <1>6, <2>1, MainFrames
<1>7. CASE LoopOrStop \/ SampleServer \/ FlushServer \/ ReapServer \/ EndOfLoop \/ StopServer \/ JoinServer \/ Finish
  <2>1. main.pc \notin {"route", "visit"}
    BY <1>7 DEF LoopOrStop, SampleServer, FlushServer, ReapServer, EndOfLoop, StopServer, JoinServer, Finish
  <2>2. main'.pc \notin {"route", "visit"} /\ main'.recvQ = main.recvQ
    <3>1. CASE LoopOrStop
      <4>1. main' = [main EXCEPT !.pc = CASE ~main.run -> "stopServer"
                                          [] main.run /\ server.pc = "deleted" -> "clients"
                                          [] main.run /\ server.pc # "deleted" -> "server",
                                 !.todo = Clients]
        BY <3>1 DEF LoopOrStop, MainChange
      <4>2. PICK c \in {"stopServer", "clients", "server"} : main' = [main EXCEPT !.pc = c, !.todo = Clients]
        BY <1>1, <4>1 DEF MainRecord
      <4> QED BY <1>1, <4>2 DEF MainRecord
    <3>2. CASE SampleServer BY <1>1, <3>2 DEF SampleServer, MainChange, MainRecord
    <3>3. CASE FlushServer BY <1>1, <3>3 DEF FlushServer, MainChange, MainRecord
    <3>4. CASE ReapServer BY <1>1, <3>4 DEF ReapServer, MainChange, MainRecord
    <3>5. CASE EndOfLoop BY <1>1, <3>5 DEF EndOfLoop, MainChange, MainRecord
    <3>6. CASE StopServer
      <4>1. PICK c \in {"stopClients", "joinServer"} : main' = [main EXCEPT !.pc = c, !.todo = Clients]
        BY <3>6 DEF StopServer, MainChange
      <4> QED BY <1>1, <4>1 DEF MainRecord
    <3>7. CASE JoinServer BY <1>1, <3>7 DEF JoinServer, MainChange, MainRecord
    <3>8. CASE Finish BY <1>1, <3>8 DEF Finish, MainChange, MainRecord
    <3> QED BY <1>7, <3>1, <3>2, <3>3, <3>4, <3>5, <3>6, <3>7, <3>8
  <2> QED BY <1>6, <2>1, <2>2
<1> QED BY <1>4, <1>5, <1>7

\* The router thread stops a thread.
LEMMA StopFrames ==
  ASSUME Inv, FramesInv, Inv', Replace \/ StopClient
  PROVE  FramesInv'
<1>1. main \in MainRecord /\ clientAt \in [Addr -> Thread \cup {0}] /\ MainOK(main, server, clientAt, addrOf)
  BY MainTyped
<1>2. PICK n \in Thread, c \in {"replace", "joinClient"} :
        /\ thread[n] # Gone /\ StopThread(n) /\ main' = [main EXCEPT !.pc = c] /\ main.pc \notin {"visit", "route"}
  <2>1. CASE Replace
    <3> DEFINE n == clientAt[addrOf[Head(main.connQ)]]
    <3>1. main.pc = "adopt" /\ main.connQ # <<>> /\ n # 0 /\ StopThread(n) /\ main' = [main EXCEPT !.pc = "replace"]
      BY <2>1 DEF Replace, MainChange
    <3>2. addrOf[Head(main.connQ)] \in Addr
      <4>1. main.connQ \in Seq(Tcp) BY <1>1 DEF MainRecord
      <4>2. Head(main.connQ) \in Range(main.connQ) BY <3>1, <4>1, RangeHeadTail
      <4>3. Range(main.connQ) \subseteq 1..tcps BY DEF Inv, Owned, Sole
      <4> QED BY <4>2, <4>3 DEF Inv
    <3>3. n \in Thread /\ thread[n] # Gone BY <3>1, <3>2, <1>1 DEF Inv, MapOK
    <3> HIDE DEF n
    <3> QED BY <3>1, <3>3
  <2>2. CASE StopClient
    <3>1. main.pc = "stopClients" /\ main.todo # {} /\ StopThread(Visited)
          /\ main' = [main EXCEPT !.pc = "joinClient"]
      BY <2>2 DEF StopClient, MainChange
    <3>2. Visited \in Thread /\ thread[Visited] # Gone BY <3>1, ClientsExist
    <3> QED BY <3>1, <3>2
  <2> QED BY <2>1, <2>2
<1>3. thread[n] \in ThreadRecord BY <1>2, AliveIsRecord DEF Inv
<1> DEFINE new == [thread[n] EXCEPT !.run = FALSE]
<1>4. new \in ThreadRecord /\ new.addr = thread[n].addr /\ new.recvQ = thread[n].recvQ
      /\ new.sendQ = thread[n].sendQ
  BY <1>3 DEF ThreadRecord
<1>5. thread' = [thread EXCEPT ![n] = new] BY <1>2 DEF StopThread
<1>6. main'.pc \notin {"visit", "route"} /\ main'.recvQ = main.recvQ BY <1>1, <1>2 DEF MainRecord
<1>7. UNCHANGED <<clientAt, threads, frameVars, dropped>> BY DEF Replace, StopClient
<1> HIDE DEF new
<1>8. VisitOK(main', thread', clientAt') BY <1>2, <1>6 DEF FramesInv, VisitOK
<1>9. /\ OnlyDst(thread') /\ ToDst(thread', clientAt) = ToDst(thread, clientAt)
      /\ \A i \in Thread : PendingOf(thread', main', clientAt)[i] = PendingOf(thread, main, clientAt)[i]
  BY <1>2, <1>4, <1>5, <1>6, QueuesKept
<1>10. ToDst(thread', clientAt') \in {ToDst(thread, clientAt), <<>>} BY <1>7, <1>9
<1>11. \A i \in Thread : PendingOf(thread', main', clientAt')[i] = PendingOf(thread, main, clientAt)[i] BY <1>7, <1>9
<1>12. threads <= threads' BY <1>7 DEF Inv, Types
<1> QED BY <1>7, <1>8, <1>9, <1>10, <1>11, <1>12, QuietStep

\* The router thread takes the queue of a thread.
LEMMA FlushFrames ==
  ASSUME Inv, FramesInv, Inv', FlushClient
  PROVE  FramesInv'
<1> DEFINE v == Visited
           r == thread[v]
           W == PendingOf(thread, main, clientAt)
           m == [main EXCEPT !.pc = "route", !.recvQ = r.recvQ]
<1>1. /\ main.pc = "visit" /\ thread' = [thread EXCEPT ![v].recvQ = <<>>] /\ main' = m
      /\ UNCHANGED <<clientAt, threads, frameVars, dropped>>
  BY DEF FlushClient, MainChange
<1>2. main \in MainRecord /\ MainOK(main, server, clientAt, addrOf) /\ clientAt \in [Addr -> Thread \cup {0}]
  BY MainTyped
<1>3. main.todo # {} BY <1>1, <1>2 DEF MainOK
<1>4. v \in Thread /\ r # Gone /\ r \in ThreadRecord /\ v = clientAt[Min(main.todo)]
  BY <1>1, <1>3, ClientsExist DEF Visited
<1> DEFINE new == [r EXCEPT !.recvQ = <<>>]
<1>5. new \in ThreadRecord /\ new.addr = r.addr /\ new.sendQ = r.sendQ /\ new.recvQ = <<>> /\ new.pc = r.pc
  <2>1. PICK q \in Seq(Frame) : q = <<>>
    <3>1. <<>> \in Seq(Frame) OBVIOUS
    <3> QED BY <3>1
  <2>2. new = [r EXCEPT !.recvQ = q] BY <2>1
  <2> HIDE DEF new, r
  <2> QED BY <1>4, <2>1, <2>2 DEF ThreadRecord
<1>6. thread' = [thread EXCEPT ![v] = new] BY <1>1
<1>7. m.pc = "route" /\ m.recvQ = r.recvQ /\ m.todo = main.todo /\ m.running = main.running
  BY <1>2 DEF MainRecord
<1>8. thread \in [Thread -> ThreadRecord \cup {Gone}] BY DEF Inv, Types
<1> HIDE DEF new, m
<1>9. new # Gone BY <1>5, GoneAssumption
<1>10. thread'[v] = new /\ \A i : i # v => thread'[i] = thread[i] BY <1>4, <1>6, <1>8
<1>11. VisitOK(main, thread, clientAt) /\ OnlyDst(thread) BY DEF FramesInv
<1>12. VisitOK(main', thread', clientAt')
  <2>1. ~main.running => r.pc = "ended" BY <1>1, <1>4, <1>11 DEF VisitOK
  <2>2. main'.pc = "route" /\ (~main'.running => thread'[v].pc = "ended") /\ thread'[v].recvQ = <<>>
    BY <1>1, <1>5, <1>7, <1>10, <2>1
  <2>3. clientAt'[Min(main'.todo)] = v BY <1>1, <1>4, <1>7
  <2> QED BY <2>2, <2>3 DEF VisitOK
<1>13. OnlyDst(thread')
  <2> SUFFICES ASSUME NEW i \in Thread, thread'[i] # Gone, thread'[i].addr # Dst PROVE thread'[i].sendQ = <<>>
    BY DEF OnlyDst
  <2>1. CASE i = v BY <2>1, <1>4, <1>5, <1>10, <1>11 DEF OnlyDst
  <2>2. CASE i # v BY <2>2, <1>10, <1>11 DEF OnlyDst
  <2> QED BY <2>1, <2>2
<1>14. ToDst(thread', clientAt') = ToDst(thread, clientAt) BY <1>1, <1>5, <1>10 DEF ToDst
<1>15. \A i \in Thread : PendingOf(thread', main', clientAt')[i] = W[i]
  <2> TAKE i \in Thread
  <2>1. CASE i = v
    <3>1. PendingOf(thread', main', clientAt')[v] = r.recvQ \o <<>>
      BY <1>1, <1>4, <1>5, <1>7, <1>9, <1>10 DEF PendingOf, Pending
    <3>2. W[v] = r.recvQ BY <1>1, <1>4 DEF PendingOf, Pending
    <3>3. r.recvQ \in Seq(Frame) BY <1>4 DEF ThreadRecord
    <3>4. r.recvQ \o <<>> = r.recvQ BY <3>3
    <3> QED BY <2>1, <3>1, <3>2, <3>4
  <2>2. CASE i # v
    BY <2>2, <1>1, <1>4, <1>7, <1>10 DEF PendingOf, Pending
  <2> QED BY <2>1, <2>2
<1>16. threads <= threads' BY <1>1 DEF Inv, Types
<1> HIDE DEF v
<1> QED BY <1>1, <1>12, <1>13, <1>14, <1>15, <1>16, QuietStep

\* The router thread routes a frame.
LEMMA RouteFrames ==
  ASSUME Inv, FramesInv, Inv', Route
  PROVE  FramesInv'
<1> DEFINE f == Head(main.recvQ)
           d == clientAt[Dst]
           v == Visited
           W == PendingOf(thread, main, clientAt)
           now == PendingOf(thread', main', clientAt')
           m == [main EXCEPT !.recvQ = Tail(main.recvQ)]
<1>1. /\ main.pc = "route" /\ main.recvQ # <<>> /\ routed' = Append(routed, f) /\ main' = m
      /\ UNCHANGED <<clientAt, threads, frames, gotBy, wire, dropped>>
      /\ thread' = IF d # 0 /\ thread[d].up THEN [thread EXCEPT ![d].sendQ = Append(@, f)] ELSE thread
  BY DEF Route, MainChange
<1>2. main \in MainRecord /\ MainOK(main, server, clientAt, addrOf) /\ clientAt \in [Addr -> Thread \cup {0}]
      /\ main.recvQ \in Seq(Frame)
  BY MainTyped DEF MainRecord
<1>3. main.todo # {} BY <1>1, <1>2 DEF MainOK
<1>4. v \in Thread /\ thread[v] # Gone /\ thread[v] \in ThreadRecord /\ v = clientAt[Min(main.todo)]
  BY <1>1, <1>3, ClientsExist DEF Visited
<1>5. m.pc = "route" /\ m.recvQ = Tail(main.recvQ) /\ m.todo = main.todo /\ m.running = main.running
  BY <1>1, <1>2 DEF MainRecord
<1>6. f \in Frame /\ Tail(main.recvQ) \in Seq(Frame) BY <1>1, <1>2, RangeHeadTail
<1>7. thread \in [Thread -> ThreadRecord \cup {Gone}] /\ MapOK(thread, clientAt, threads) BY DEF Inv, Types
<1>8. FrameTypes /\ VisitOK(main, thread, clientAt) /\ OnlyDst(thread) /\ Follows(gotBy, W, routed, frames, dropped)
      /\ InOrder(wire \o ToDst(thread, clientAt), routed)
  BY DEF FramesInv
<1> HIDE DEF m, f
<1>9. /\ \A i \in Thread : (thread'[i] = Gone <=> thread[i] = Gone) /\ thread'[i].recvQ = thread[i].recvQ
                           /\ thread'[i].addr = thread[i].addr /\ thread'[i].pc = thread[i].pc
      /\ \A i \in Thread : i # d => thread'[i] = thread[i]
      /\ d # 0 => thread'[d].sendQ \in {thread[d].sendQ, Append(thread[d].sendQ, f)}
  <2>1. CASE d # 0 /\ thread[d].up
    <3>1. d \in Thread /\ thread[d] # Gone BY <2>1, <1>2, <1>7, TcpAssumption DEF MapOK
    <3>2. thread[d] \in ThreadRecord BY <3>1, <1>7
    <3> DEFINE new == [thread[d] EXCEPT !.sendQ = Append(thread[d].sendQ, f)]
    <3>3. Append(thread[d].sendQ, f) \in Seq(Frame) BY <3>2, <1>6 DEF ThreadRecord
    <3>4. new \in ThreadRecord /\ new.addr = thread[d].addr /\ new.recvQ = thread[d].recvQ
          /\ new.pc = thread[d].pc /\ new.sendQ = Append(thread[d].sendQ, f)
      BY <3>2, <3>3 DEF ThreadRecord
    <3>5. thread' = [thread EXCEPT ![d] = new] BY <1>1, <2>1
    <3> HIDE DEF new, d
    <3>6. new # Gone BY <3>4, GoneAssumption
    <3>7. thread'[d] = new /\ \A i : i # d => thread'[i] = thread[i] BY <3>1, <3>5, <1>7
    <3> QED BY <3>1, <3>4, <3>6, <3>7
  <2>2. CASE ~(d # 0 /\ thread[d].up)
    <3>1. thread' = thread BY <1>1, <2>2
    <3> QED BY <3>1
  <2> QED BY <2>1, <2>2
<1>10. VisitOK(main', thread', clientAt')
  <2>1. ~main.running => thread[v].pc = "ended" /\ thread[v].recvQ = <<>> BY <1>1, <1>4, <1>8 DEF VisitOK
  <2>2. main'.pc = "route" /\ (~main'.running => thread'[v].pc = "ended" /\ thread'[v].recvQ = <<>>)
    BY <2>1, <1>1, <1>4, <1>5, <1>9
  <2>3. clientAt'[Min(main'.todo)] = v BY <1>1, <1>4, <1>5
  <2> QED BY <2>2, <2>3 DEF VisitOK
<1>11. OnlyDst(thread')
  <2> SUFFICES ASSUME NEW i \in Thread, thread'[i] # Gone, thread'[i].addr # Dst PROVE thread'[i].sendQ = <<>>
    BY DEF OnlyDst
  <2>1. thread[i] # Gone /\ thread[i].addr # Dst BY <1>9
  <2>2. i # d
    <3> SUFFICES ASSUME i = d PROVE FALSE OBVIOUS
    <3>1. d # 0 BY ConstantsTyped DEF Thread, ConstantTypes
    <3> QED BY <2>1, <3>1, <1>7, TcpAssumption DEF MapOK
  <2> QED BY <2>1, <2>2, <1>8, <1>9 DEF OnlyDst
<1>12. W[v] = main.recvQ \o thread[v].recvQ BY <1>1, <1>4 DEF PendingOf, Pending
<1>13. thread[v].recvQ \in Seq(Frame) BY <1>4 DEF ThreadRecord
<1>14. W[v] # <<>> /\ Head(W[v]) = f /\ Tail(W[v]) = Tail(main.recvQ) \o thread[v].recvQ
  <2>1. \A a, b \in Seq(Frame) : a # <<>> =>
          Head(a \o b) = Head(a) /\ Tail(a) \o b = Tail(a \o b) /\ a \o b # <<>>
    BY ConcatEnds
  <2> HIDE DEF W, v
  <2> QED BY <1>1, <1>2, <1>12, <1>13, <2>1 DEF f
<1>15. now[v] = Tail(W[v])
  <2>1. now[v] = main'.recvQ \o thread'[v].recvQ BY <1>1, <1>4, <1>5, <1>9 DEF PendingOf, Pending
  <2> QED BY <2>1, <1>1, <1>4, <1>5, <1>9, <1>14
<1>16. \A i \in Thread : i # v => now[i] = W[i]
  BY <1>1, <1>4, <1>5, <1>9 DEF PendingOf, Pending
<1>17. Follows(gotBy, now, Append(routed, f), frames, dropped)
  <2>1. gotBy \in [Thread -> Seq(Frame)] /\ routed \in Seq(Frame) /\ frames \in 0..MaxFrames
    BY <1>8 DEF FrameTypes, Inv, Types
  <2> HIDE DEF now, W, v
  <2> QED BY <2>1, <1>4, <1>8, <1>14, <1>15, <1>16, FollowsRoute
<1>18. Follows(gotBy', now, routed', frames', dropped') BY <1>1, <1>17
<1>19. InOrder(wire' \o ToDst(thread', clientAt'), routed')
  <2>1. wire \in Seq(Frame) /\ routed \in Seq(Frame) BY <1>8 DEF FrameTypes
  <2>2. ToDst(thread, clientAt) \in Seq(Frame) BY <1>2, <1>7, ToDstTyped
  <2> DEFINE s == wire \o ToDst(thread, clientAt)
  <2>3. s \in Seq(Frame) BY <2>1, <2>2
  <2>4. InOrder(s, Append(routed, f)) /\ InOrder(Append(s, f), Append(routed, f))
    <3> HIDE DEF s
    <3>1. InOrder(s, routed) BY <1>8 DEF s
    <3> QED BY <2>1, <2>3, <3>1, <1>6, InOrderRoute
  <2>5. ToDst(thread', clientAt) \in {ToDst(thread, clientAt), Append(ToDst(thread, clientAt), f)}
    BY <1>9 DEF ToDst
  <2>6. wire \o Append(ToDst(thread, clientAt), f) = Append(s, f)
    BY <2>1, <2>2, <1>6, ConcatEnds
  <2> QED BY <1>1, <2>4, <2>5, <2>6
<1>20. FrameTypes'
  <2>1. Append(routed, f) \in Seq(Frame) BY <1>6, <1>8 DEF FrameTypes
  <2> QED BY <2>1, <1>1, <1>8 DEF FrameTypes
<1> QED BY <1>10, <1>11, <1>18, <1>19, <1>20 DEF FramesInv

\* A thread is made.
LEMMA AdoptFrames ==
  ASSUME Inv, FramesInv, Inv', Adopt
  PROVE  FramesInv'
<1> DEFINE a == addrOf[Head(main.connQ)]
           n == threads + 1
           new == Started(a, Head(main.connQ), FALSE)
           m == [main EXCEPT !.connQ = Tail(main.connQ)]
<1>1. /\ main.pc = "adopt" /\ main' = m /\ clientAt[a] = 0 /\ threads' = threads + 1
      /\ thread' = [thread EXCEPT ![n] = new] /\ clientAt' = [clientAt EXCEPT ![a] = n]
      /\ UNCHANGED <<frameVars, dropped>>
  BY DEF Adopt, MainChange
<1>2. main \in MainRecord BY MainTyped
<1>3. m.pc = main.pc /\ m.recvQ = main.recvQ /\ m.todo = main.todo /\ m.running = main.running
  BY <1>2 DEF MainRecord
<1>4. thread \in [Thread -> ThreadRecord \cup {Gone}] /\ clientAt \in [Addr -> Thread \cup {0}]
      /\ MapOK(thread, clientAt, threads) /\ threads \in Nat
  BY DEF Inv, Types
<1>5. new.recvQ = <<>> /\ new.sendQ = <<>> BY DEF Started
<1> HIDE DEF m, new
<1>6. FrameTypes /\ VisitOK(main, thread, clientAt) /\ OnlyDst(thread) BY DEF FramesInv
<1>7. \A i \in Thread : i # n => thread'[i] = thread[i] BY <1>1, <1>4
<1>8. n \in Thread => thread'[n] = new /\ thread[n] = Gone
  <2>1. n \in Thread => thread[n] = Gone
    <3>1. ~(n <= threads) BY <1>4
    <3> QED BY <3>1, <1>4 DEF MapOK
  <2> QED BY <2>1, <1>1, <1>4
<1>9. VisitOK(main', thread', clientAt') BY <1>1, <1>3, <1>6 DEF VisitOK
<1>10. OnlyDst(thread')
  <2> SUFFICES ASSUME NEW i \in Thread, thread'[i] # Gone, thread'[i].addr # Dst PROVE thread'[i].sendQ = <<>>
    BY DEF OnlyDst
  <2>1. CASE i = n BY <2>1, <1>5, <1>8
  <2>2. CASE i # n BY <2>2, <1>6, <1>7 DEF OnlyDst
  <2> QED BY <2>1, <2>2
<1>11. ToDst(thread', clientAt') \in {ToDst(thread, clientAt), <<>>}
  <2>1. Dst \in Addr BY TcpAssumption
  <2>2. clientAt' \in [Addr -> Thread \cup {0}] BY DEF Inv, Types
  <2>3. CASE a = Dst
    <3>1. clientAt'[Dst] = n /\ n # 0 BY <1>1, <1>4, <2>1, <2>3
    <3>2. n \in Thread BY <3>1, <2>1, <2>2
    <3> QED BY <3>1, <3>2, <1>5, <1>8 DEF ToDst
  <2>4. CASE a # Dst
    <3>1. clientAt'[Dst] = clientAt[Dst] BY <1>1, <1>4, <2>1, <2>4
    <3>2. CASE clientAt[Dst] = 0 BY <3>1, <3>2 DEF ToDst
    <3>3. CASE clientAt[Dst] # 0
      <4>1. clientAt[Dst] \in Thread /\ thread[clientAt[Dst]] # Gone BY <3>3, <1>4, <2>1 DEF MapOK
      <4>2. clientAt[Dst] # n BY <4>1, <1>8
      <4> QED BY <3>1, <4>1, <4>2, <1>7 DEF ToDst
    <3> QED BY <3>2, <3>3
  <2> QED BY <2>3, <2>4
<1>12. \A i \in Thread : PendingOf(thread', main', clientAt')[i] = PendingOf(thread, main, clientAt)[i]
  <2> TAKE i \in Thread
  <2>1. main.pc # "route" /\ main'.pc # "route" BY <1>1, <1>3
  <2>2. CASE i = n
    <3>1. thread'[i] = new /\ thread[i] = Gone BY <2>2, <1>8
    <3> QED BY <2>1, <3>1, <1>5 DEF PendingOf, Pending
  <2>3. CASE i # n BY <2>1, <2>3, <1>7 DEF PendingOf, Pending
  <2> QED BY <2>2, <2>3
<1>13. threads <= threads' BY <1>1, <1>4
<1> QED BY <1>1, <1>9, <1>10, <1>11, <1>12, <1>13, QuietStep

\* A thread is deleted: what waited is thrown away with it, and so is what Dst had still to get.
LEMMA DeleteQueues ==
  ASSUME Inv, FramesInv, NEW n \in Thread, thread[n] # Gone, DeleteThread(n),
         main.pc = "route" => n = Visited /\ main.recvQ = <<>>, main'.pc # "route"
  PROVE  /\ OnlyDst(thread') /\ ToDst(thread', clientAt') \in {ToDst(thread, clientAt), <<>>}
         /\ PendingOf(thread', main', clientAt')[n] = <<>>
         /\ \A i \in Thread : i # n =>
              PendingOf(thread', main', clientAt')[i] = PendingOf(thread, main, clientAt)[i]
<1>1. thread' = [thread EXCEPT ![n] = Gone] /\ clientAt' = [clientAt EXCEPT ![thread[n].addr] = 0]
  BY DEF DeleteThread
<1>2. thread \in [Thread -> ThreadRecord \cup {Gone}] /\ clientAt \in [Addr -> Thread \cup {0}]
      /\ MapOK(thread, clientAt, threads)
  BY DEF Inv, Types
<1>3. thread[n].addr \in Addr /\ clientAt[thread[n].addr] = n BY <1>2 DEF ThreadRecord, MapOK
<1>4. thread'[n] = Gone /\ \A i : i # n => thread'[i] = thread[i] BY <1>1, <1>2
<1>5. OnlyDst(thread') BY <1>4 DEF FramesInv, OnlyDst
<1>6. ToDst(thread', clientAt') \in {ToDst(thread, clientAt), <<>>}
  <2>1. Dst \in Addr BY TcpAssumption
  <2>2. CASE thread[n].addr = Dst
    <3>1. clientAt'[Dst] = 0 BY <1>1, <1>2, <2>1, <2>2
    <3> QED BY <3>1 DEF ToDst
  <2>3. CASE thread[n].addr # Dst
    <3>1. clientAt'[Dst] = clientAt[Dst] BY <1>1, <1>2, <2>1, <2>3
    <3>2. clientAt[Dst] # 0 => clientAt[Dst] # n BY <1>2, <2>1, <2>3 DEF MapOK
    <3> QED BY <3>1, <3>2, <1>4 DEF ToDst
  <2> QED BY <2>2, <2>3
<1>7. PendingOf(thread', main', clientAt')[n] = <<>> BY <1>4 DEF PendingOf, Pending
<1>8. ASSUME NEW i \in Thread, i # n
      PROVE  PendingOf(thread', main', clientAt')[i] = PendingOf(thread, main, clientAt)[i]
  <2>1. ~(main.pc = "route" /\ i = clientAt[Min(main.todo)]) BY <1>8 DEF Visited
  <2> QED BY <2>1, <1>4, <1>8 DEF PendingOf, Pending
<1> QED BY <1>5, <1>6, <1>7, <1>8

LEMMA DropFrames ==
  ASSUME Inv, FramesInv, Inv', NEW n \in Thread, thread[n] # Gone, DeleteThread(n), UNCHANGED <<threads, frameVars>>,
         main.pc # "route", main'.pc \notin {"visit", "route"}, main'.recvQ = main.recvQ, dropped' = dropped \cup {n}
  PROVE  FramesInv'
<1>1. /\ OnlyDst(thread') /\ ToDst(thread', clientAt') \in {ToDst(thread, clientAt), <<>>}
      /\ PendingOf(thread', main', clientAt')[n] = <<>>
      /\ \A i \in Thread : i # n =>
           PendingOf(thread', main', clientAt')[i] = PendingOf(thread, main, clientAt)[i]
  BY DeleteQueues
<1>2. frames' = frames /\ gotBy' = gotBy /\ routed' = routed /\ wire' = wire /\ threads' = threads
  BY DEF frameVars
<1>3. FrameTypes /\ VisitOK(main, thread, clientAt)
      /\ Follows(gotBy, PendingOf(thread, main, clientAt), routed, frames, dropped)
      /\ InOrder(wire \o ToDst(thread, clientAt), routed)
  BY DEF FramesInv
<1>4. FrameTypes' BY <1>2, <1>3 DEF FrameTypes
<1>5. VisitOK(main', thread', clientAt') BY <1>3 DEF VisitOK
<1>6. Follows(gotBy, PendingOf(thread', main', clientAt'), routed, frames, dropped \cup {n})
  <2>1. gotBy \in [Thread -> Seq(Frame)] /\ routed \in Seq(Frame) /\ frames \in 0..MaxFrames
    BY <1>3 DEF FrameTypes, Inv, Types
  <2> QED BY <2>1, <1>1, <1>3, FollowsDrop
<1>7. InOrder(wire' \o ToDst(thread', clientAt'), routed')
  <2>1. wire \in Seq(Frame) BY <1>3 DEF FrameTypes
  <2>2. ToDst(thread, clientAt) \in Seq(Frame) BY ToDstTyped DEF Inv, Types
  <2>3. InOrder(wire \o <<>>, routed)
    <3>1. wire \o <<>> = wire BY <2>1
    <3>2. /\ wire \o ToDst(thread, clientAt) \in Seq(Frame) /\ Len(wire) <= Len(wire \o ToDst(thread, clientAt))
          /\ \A i \in 1..Len(wire) : (wire \o ToDst(thread, clientAt))[i] = wire[i]
      BY <2>1, <2>2
    <3> QED BY <2>1, <3>1, <3>2, <1>3, InOrderPrefix
  <2> QED BY <1>1, <1>2, <1>3, <2>3
<1>8. Follows(gotBy', PendingOf(thread', main', clientAt'), routed', frames', dropped') BY <1>2, <1>6
<1> QED BY <1>1, <1>4, <1>5, <1>7, <1>8 DEF FramesInv

\* The router thread has routed what the thread had, and deletes it if it had ended before.
LEMMA NextFrames ==
  ASSUME Inv, FramesInv, Inv', NextClient
  PROVE  FramesInv'
<1> DEFINE v == Visited
           m == [main EXCEPT !.pc = "clients", !.todo = main.todo \ {Min(main.todo)}]
<1>1. main.pc = "route" /\ main.recvQ = <<>> /\ main' = m /\ UNCHANGED <<threads, frameVars, dropped>>
  BY DEF NextClient, MainChange
<1>2. main \in MainRecord /\ MainOK(main, server, clientAt, addrOf) BY MainTyped
<1>3. main.todo # {} BY <1>1, <1>2 DEF MainOK
<1>4. v \in Thread /\ thread[v] # Gone /\ thread[v] \in ThreadRecord /\ v = clientAt[Min(main.todo)]
  BY <1>1, <1>3, ClientsExist DEF Visited
<1>5. m.pc = "clients" /\ m.recvQ = <<>> BY <1>1, <1>2 DEF MainRecord
<1> HIDE DEF m
<1>6. VisitOK(main, thread, clientAt) /\ OnlyDst(thread) BY DEF FramesInv
<1>7. VisitOK(main', thread', clientAt') BY <1>1, <1>5 DEF VisitOK
<1>8. PendingOf(thread, main, clientAt)[v] = thread[v].recvQ
  <2>1. PendingOf(thread, main, clientAt)[v] = <<>> \o thread[v].recvQ BY <1>1, <1>4 DEF PendingOf, Pending
  <2>2. thread[v].recvQ \in Seq(Frame) BY <1>4 DEF ThreadRecord
  <2>3. \A q \in Seq(Frame) : <<>> \o q = q OBVIOUS
  <2> QED BY <2>1, <2>2, <2>3
<1>9. threads <= threads' BY <1>1 DEF Inv, Types
<1>10. CASE main.running
  <2>1. thread' = thread /\ clientAt' = clientAt BY <1>10 DEF NextClient
  <2>2. \A i \in Thread : PendingOf(thread', main', clientAt')[i] = PendingOf(thread, main, clientAt)[i]
    <3> TAKE i \in Thread
    <3>1. PendingOf(thread', main', clientAt')[i] = IF thread[i] = Gone THEN <<>> ELSE thread[i].recvQ
      BY <2>1, <1>1, <1>5 DEF PendingOf, Pending
    <3>2. CASE i = v BY <3>1, <3>2, <1>4, <1>8
    <3>3. CASE i # v BY <3>1, <3>3, <1>4 DEF PendingOf, Pending
    <3> QED BY <3>2, <3>3
  <2>3. OnlyDst(thread') /\ ToDst(thread', clientAt') \in {ToDst(thread, clientAt), <<>>} BY <2>1, <1>6
  <2> HIDE DEF v
  <2> QED BY <1>1, <1>7, <1>9, <2>2, <2>3, QuietStep
<1>11. CASE ~main.running
  <2>1. DeleteThread(v) BY <1>11 DEF NextClient
  <2>2. thread[v].recvQ = <<>> BY <1>1, <1>4, <1>6, <1>11 DEF VisitOK
  <2>3. main'.pc # "route" BY <1>1, <1>5
  <2>4. /\ OnlyDst(thread') /\ ToDst(thread', clientAt') \in {ToDst(thread, clientAt), <<>>}
        /\ PendingOf(thread', main', clientAt')[v] = <<>>
        /\ \A i \in Thread : i # v =>
             PendingOf(thread', main', clientAt')[i] = PendingOf(thread, main, clientAt)[i]
    BY <1>1, <1>4, <2>1, <2>3, DeleteQueues
  <2>5. \A i \in Thread : PendingOf(thread', main', clientAt')[i] = PendingOf(thread, main, clientAt)[i]
    BY <2>2, <2>4, <1>8
  <2> HIDE DEF v
  <2> QED BY <1>1, <1>7, <1>9, <2>4, <2>5, QuietStep
<1> QED BY <1>10, <1>11

LEMMA ReapFrames ==
  ASSUME Inv, FramesInv, Inv', Replaced \/ JoinClient
  PROVE  FramesInv'
<1>1. main \in MainRecord /\ MainOK(main, server, clientAt, addrOf) /\ clientAt \in [Addr -> Thread \cup {0}]
  BY MainTyped
<1>2. CASE Replaced
  <2> DEFINE n == clientAt[addrOf[Head(main.connQ)]]
             m == [main EXCEPT !.pc = "adopt"]
  <2>1. main.pc = "replace" /\ DeleteThread(n) /\ main' = m /\ dropped' = dropped \cup {n}
        /\ UNCHANGED <<threads, frameVars>>
    BY <1>2 DEF Replaced, MainChange
  <2>2. main.connQ # <<>> /\ n # 0 BY <1>1, <2>1 DEF MainOK
  <2>3. addrOf[Head(main.connQ)] \in Addr
    <3>1. main.connQ \in Seq(Tcp) BY <1>1 DEF MainRecord
    <3>2. Head(main.connQ) \in Range(main.connQ) BY <2>2, <3>1, RangeHeadTail
    <3>3. Range(main.connQ) \subseteq 1..tcps BY DEF Inv, Owned, Sole
    <3> QED BY <3>2, <3>3 DEF Inv
  <2>4. n \in Thread /\ thread[n] # Gone BY <1>1, <2>2, <2>3 DEF Inv, MapOK
  <2>5. m.pc = "adopt" /\ m.recvQ = main.recvQ BY <1>1 DEF MainRecord
  <2> HIDE DEF n, m
  <2> QED BY <2>1, <2>4, <2>5, DropFrames
<1>3. CASE JoinClient
  <2> DEFINE m == [main EXCEPT !.pc = "stopClients", !.todo = main.todo \ {Min(main.todo)}]
  <2>1. main.pc = "joinClient" /\ DeleteThread(Visited) /\ main' = m /\ dropped' = dropped \cup {Visited}
        /\ UNCHANGED <<threads, frameVars>>
    BY <1>3 DEF JoinClient, MainChange
  <2>2. main.todo # {} BY <1>1, <2>1 DEF MainOK
  <2>3. Visited \in Thread /\ thread[Visited] # Gone BY <2>1, <2>2, ClientsExist
  <2>4. m.pc = "stopClients" /\ m.recvQ = main.recvQ BY <1>1 DEF MainRecord
  <2> HIDE DEF m
  <2> QED BY <2>1, <2>3, <2>4, DropFrames
<1> QED BY <1>2, <1>3

LEMMA FramesInit == Init => FramesInv
<1> SUFFICES ASSUME Init PROVE FramesInv OBVIOUS
<1>1. Inv BY InvInit
<1>2. gotBy = [n \in Thread |-> <<>>] /\ routed = <<>> /\ wire = <<>> /\ dropped = {} /\ frames = 0
      /\ main.pc = "top" /\ main.recvQ = <<>>
  BY DEF Init
<1>3. <<>> \in Seq(Frame) OBVIOUS
<1>4. FrameTypes BY <1>2, <1>3 DEF FrameTypes
<1>5. VisitOK(main, thread, clientAt) BY <1>2 DEF VisitOK
<1>6. \A n \in Thread : thread[n] # Gone => thread[n].recvQ = <<>> /\ thread[n].sendQ = <<>>
  BY DEF Init, Started
<1>7. \A n \in Thread : PendingOf(thread, main, clientAt)[n] = <<>> /\ gotBy[n] = <<>>
  BY <1>2, <1>6 DEF PendingOf, Pending
<1>8. Follows(gotBy, PendingOf(thread, main, clientAt), routed, frames, dropped)
  <2>1. Len(routed) = 0 BY <1>2
  <2>2. \A n \in Thread : Range(PendingOf(thread, main, clientAt)[n]) = {} /\ Range(gotBy[n]) = {}
    BY <1>7, RangeEmpty
  <2>3. Range(routed) = {} BY <1>2, RangeEmpty
  <2> QED BY <1>3, <1>7, <2>1, <2>2, <2>3, IncreasingEmpty DEF Follows
<1>9. OnlyDst(thread) BY <1>6 DEF OnlyDst
<1>10. ToDst(thread, clientAt) = <<>>
  <2>1. clientAt[Dst] # 0 => clientAt[Dst] \in Thread /\ thread[clientAt[Dst]] # Gone
    BY <1>1, TcpAssumption DEF Inv, Types, MapOK
  <2> QED BY <2>1, <1>6 DEF ToDst
<1>11. InOrder(wire \o ToDst(thread, clientAt), routed)
  <2>1. wire \o ToDst(thread, clientAt) = <<>> BY <1>2, <1>10
  <2>2. InOrder(<<>>, routed) BY RangeEmpty DEF InOrder
  <2> QED BY <2>1, <2>2
<1> QED BY <1>4, <1>5, <1>8, <1>9, <1>11 DEF FramesInv

LEMMA FramesStep == Inv /\ FramesInv /\ Inv' /\ [Next]_vars => FramesInv'
<1> SUFFICES ASSUME Inv, FramesInv, Inv', [Next]_vars PROVE FramesInv' OBVIOUS
<1>1. CASE Server \/ ServerLeave \/ \E a \in Addr : ServerAccept(a) BY <1>1, ServerFrames DEF Server
<1>2. CASE \E n \in Thread : Client(n) \/ ThreadRecv(n) \/ ThreadSend(n) \/ ThreadLeave(n)
  BY <1>2, ClientFrames
<1>3. CASE Main \/ Stop
  BY <1>3, LoopFrames, StopFrames, FlushFrames, RouteFrames, AdoptFrames, NextFrames, ReapFrames DEF Main
<1>4. CASE UNCHANGED vars
  <2>1. UNCHANGED <<clientAt, threads, thread, main, frameVars, dropped>> BY <1>4 DEF vars, frameVars
  <2>2. VisitOK(main', thread, clientAt) BY <2>1 DEF FramesInv
  <2> QED BY <2>1, <2>2, MainFrames
<1> QED BY <1>1, <1>2, <1>3, <1>4 DEF Next

LEMMA FramesAreSound == Inv /\ FramesInv => FramesFollow
<1> SUFFICES ASSUME Inv, FramesInv PROVE FramesFollow OBVIOUS
<1> DEFINE W == PendingOf(thread, main, clientAt)
<1>1. /\ FrameTypes /\ Follows(gotBy, W, routed, frames, dropped)
      /\ InOrder(wire \o ToDst(thread, clientAt), routed)
  BY DEF FramesInv
<1>2. \A n \in Thread : Waiting(n) = W[n]
  <2> TAKE n \in Thread
  <2>1. Alive(n) <=> thread[n] # Gone BY DEF Alive, Inv, MapOK
  <2> QED BY <2>1 DEF Waiting, Pending, PendingOf, Visited
<1>3. NoFrameLost
  <2> HIDE DEF W
  <2>1. DOMAIN routed = 1..Len(routed) BY <1>1 DEF FrameTypes
  <2>2. ASSUME NEW n \in Thread
        PROVE  /\ n \notin dropped => Range(gotBy[n]) \ Range(routed) = Range(Waiting(n))
               /\ \A i, j \in DOMAIN routed :
                    i < j /\ {routed[i], routed[j]} \subseteq Range(gotBy[n]) => routed[i] < routed[j]
    <3>1. Range(Waiting(n)) = Range(W[n]) BY <1>2
    <3>2. Range(W[n]) \subseteq Range(gotBy[n]) \ Range(routed) BY <1>1 DEF Follows
    <3>3. n \notin dropped => Range(gotBy[n]) \ Range(routed) \subseteq Range(W[n]) BY <1>1 DEF Follows
    <3>4. \A i, j \in 1..Len(routed) :
            i < j /\ {routed[i], routed[j]} \subseteq Range(gotBy[n]) => routed[i] < routed[j]
      BY <1>1 DEF Follows
    <3> QED BY <2>1, <3>1, <3>2, <3>3, <3>4
  <2> QED BY <2>2 DEF NoFrameLost
<1>4. WireFollowsRouted
  <2>1. wire \in Seq(Frame) /\ DOMAIN wire = 1..Len(wire) /\ DOMAIN routed = 1..Len(routed)
    BY <1>1 DEF FrameTypes
  <2>2. ToDst(thread, clientAt) \in Seq(Frame) BY ToDstTyped DEF Inv, Types
  <2>3. /\ wire \o ToDst(thread, clientAt) \in Seq(Frame) /\ Len(wire) <= Len(wire \o ToDst(thread, clientAt))
        /\ \A i \in 1..Len(wire) : (wire \o ToDst(thread, clientAt))[i] = wire[i]
    BY <2>1, <2>2
  <2>4. InOrder(wire, routed) BY <1>1, <2>1, <2>3, InOrderPrefix
  <2> QED BY <2>1, <2>4 DEF WireFollowsRouted, InOrder, Before
<1> QED BY <1>3, <1>4 DEF FramesFollow

\* The frames of a connection are routed once each and in the order in which they were received,
\* and none is lost when its thread ends by itself; and what is written to the destination is in
\* the order of routing, over any number of connections to it.
THEOREM FramesFollowEachOther == Spec => []FramesFollow
<1>1. Init => FramesInv BY FramesInit
<1>2. Inv /\ FramesInv /\ Inv' /\ [Next]_vars => FramesInv' BY FramesStep
<1>3. Inv /\ FramesInv => FramesFollow BY FramesAreSound
<1> QED BY <1>1, <1>2, <1>3, ConnectionsInvariant, PTL DEF Spec

=============================================================================
