---------------------------- MODULE SocketBuffers ----------------------------
(***************************************************************************)
(* The buffers of packets below the sACN output, and the lock of the map   *)
(* of sockets, in the Windows build: worker threads take what a completion *)
(* port has for them, hand a packet over inside a read lock and start the  *)
(* next read with a buffer of a pool; the router's thread makes and        *)
(* destroys sockets inside a write lock.                                   *)
(*                                                                         *)
(* A read lock is a count that is changed inside a critical section, a     *)
(* write lock is the critical section itself, held while the count goes    *)
(* down to 0.  A buffer that is free has the next free one in its first    *)
(* bytes, one that is not has a packet there.                              *)
(***************************************************************************)
EXTENDS Naturals, FiniteSets

CONSTANTS
  BufWorkers,  \* the threads of WorkThread
  BufApp,      \* the thread of the router
  BufSocks,    \* sockets
  Reserved,    \* buffers that Startup reserves
  MaxBuffers,  \* bound on the buffers
  NoOwner, NoSock

ASSUME BufAssumption ==
  /\ Reserved \in Nat /\ MaxBuffers \in Nat /\ Reserved <= MaxBuffers
  /\ IsFiniteSet(BufWorkers) /\ BufApp \notin BufWorkers
  /\ NoOwner \notin BufWorkers \cup {BufApp} /\ NoSock \notin BufSocks

VARIABLES
  bufThread,   \* what a thread is about to do, with which socket
  bufOver,     \* the overlapped structure of a socket, and its buffer
  bufEntry,    \* m_sockmap: not there, active, or shut down and not removed
  bufSockets,  \* CStreamServer::m_sockets
  bufOwner,    \* the owner of m_socklock.m_cs
  bufReaders,  \* m_socklock.m_readcount
  bufNext,     \* the first bytes of a buffer
  bufHead,     \* m_pool.m_head
  bufCount     \* m_pool.m_curcount

bufVars == <<bufThread, bufOver, bufEntry, bufSockets, bufOwner, bufReaders, bufNext, bufHead, bufCount>>
bufPool == <<bufNext, bufHead, bufCount>>
bufLock == <<bufOwner, bufReaders>>

Buffers == 1..MaxBuffers
NoBuffer == 0
Written == MaxBuffers + 1   \* the first bytes of a packet

Doing(at, sock) == [at |-> at, sock |-> sock]
Idle == Doing("idle", NoSock)
NoOver == [at |-> "none", buffer |-> NoBuffer]

\* Startup: Reserve frees one buffer after another.
BufInit ==
  /\ bufThread = [t \in BufWorkers \cup {BufApp} |-> Idle]
  /\ bufOver = [s \in BufSocks |-> NoOver]
  /\ bufEntry = [s \in BufSocks |-> "none"]
  /\ bufSockets = {}
  /\ bufOwner = NoOwner /\ bufReaders = 0
  /\ bufNext = [b \in Buffers |-> IF b <= Reserved THEN b - 1 ELSE Written]
  /\ bufHead = Reserved /\ bufCount = Reserved

-----------------------------------------------------------------------------
(* CMemPool.                                                               *)
Alloc(b) ==
  \/ /\ bufHead = NoBuffer /\ bufCount < MaxBuffers
     /\ b = bufCount + 1 /\ bufCount' = b
     /\ UNCHANGED <<bufNext, bufHead>>
  \/ /\ bufHead # NoBuffer
     /\ b = bufHead /\ bufHead' = bufNext[bufHead]
     /\ UNCHANGED <<bufNext, bufCount>>

Free(b) ==
  IF b = NoBuffer THEN UNCHANGED bufPool
  ELSE bufNext' = [bufNext EXCEPT ![b] = bufHead] /\ bufHead' = b /\ UNCHANGED bufCount

-----------------------------------------------------------------------------
(* CXReadWriteLock.                                                        *)
Goes(t, at) == bufThread' = [bufThread EXCEPT ![t].at = at]

ReadLock(t, at) ==
  /\ bufOwner = NoOwner
  /\ bufReaders' = bufReaders + 1
  /\ Goes(t, at) /\ UNCHANGED bufOwner

ReadUnlock(t, at) ==
  /\ bufReaders' = bufReaders - 1
  /\ Goes(t, at) /\ UNCHANGED bufOwner

WriteLockBy(t, at) ==
  /\ bufOwner = NoOwner /\ bufOwner' = t
  /\ Goes(t, at) /\ UNCHANGED bufReaders

\* The owner waits, and no reader can come.
ReadersGone(t, at) ==
  /\ bufReaders = 0
  /\ Goes(t, at) /\ UNCHANGED bufLock

-----------------------------------------------------------------------------
(* The router's thread.                                                    *)
Locks(t, wants, waits, writes) ==
  /\ \/ bufThread[t].at = wants /\ WriteLockBy(t, waits)
     \/ bufThread[t].at = waits /\ ReadersGone(t, writes)
  /\ UNCHANGED <<bufOver, bufEntry, bufSockets, bufPool>>

\* m_newid has gone round all ids before one is used again.
AppCalls(what, s) ==
  /\ bufThread[BufApp].at = "idle"
  /\ what = "create" => bufEntry[s] = "none" /\ bufOver[s] = NoOver
  /\ what # "create" => s \in bufSockets
  /\ bufThread' = [bufThread EXCEPT ![BufApp] = Doing(what, s)]
  /\ bufSockets' = IF what = "destroy" THEN bufSockets \ {s} ELSE bufSockets
  /\ UNCHANGED <<bufOver, bufEntry, bufLock, bufPool>>

\* CreateUnicastSocket, with SocketStart, which asks a worker for the first read.  If it cannot,
\* the socket is destroyed, and stays in the map as one that is shut down.
Created ==
  LET s == bufThread[BufApp].sock
  IN  /\ bufThread[BufApp].at = "creating"
      /\ \/ /\ bufEntry' = [bufEntry EXCEPT ![s] = "active"]
            /\ bufOver' = [bufOver EXCEPT ![s] = [NoOver EXCEPT !.at = "start"]]
            /\ bufSockets' = bufSockets \cup {s}
         \/ bufEntry' = [bufEntry EXCEPT ![s] = "inactive"] /\ UNCHANGED <<bufOver, bufSockets>>
      /\ bufOwner' = NoOwner
      /\ bufThread' = [bufThread EXCEPT ![BufApp] = Idle]
      /\ UNCHANGED <<bufReaders, bufPool>>

\* Mutant: a socket goes at once.
AfterDestructionAtOnce(entry) == "none"

\* InitiateDestruction of an active socket, FinalizeDestruction of another.
AfterDestruction(entry) == IF entry = "active" THEN "inactive" ELSE "none"

DestroysSocket ==
  LET s == bufThread[BufApp].sock
  IN  /\ bufThread[BufApp].at = "destroying"
      /\ bufEntry' = [bufEntry EXCEPT ![s] = AfterDestruction(@)]
      /\ bufOwner' = NoOwner
      /\ bufThread' = [bufThread EXCEPT ![BufApp] = Idle]
      /\ UNCHANGED <<bufOver, bufSockets, bufReaders, bufPool>>

\* SendPacket, which sends inside a read lock.
SendPacket ==
  /\ \/ bufThread[BufApp].at = "send" /\ ReadLock(BufApp, "sending")
     \/ bufThread[BufApp].at = "sending" /\ ReadUnlock(BufApp, "idle")
  /\ UNCHANGED <<bufOver, bufEntry, bufSockets, bufPool>>

AppActs ==
  \/ \E s \in BufSocks, what \in {"create", "destroy", "send"} : AppCalls(what, s)
  \/ Locks(BufApp, "create", "createWaits", "creating") \/ Created
  \/ Locks(BufApp, "destroy", "destroyWaits", "destroying") \/ DestroysSocket
  \/ SendPacket

-----------------------------------------------------------------------------
(* The completion port: a read that is pending ends with a packet, with    *)
(* nothing, or with an error, which it does at the latest when the socket  *)
(* is shut down.                                                           *)
ReadEnds(s, how) ==
  /\ bufOver[s].at = "pending"
  /\ bufEntry[s] # "active" => how = "failed"
  /\ bufOver' = [bufOver EXCEPT ![s].at = how]
  /\ bufNext' = IF how = "packet" THEN [bufNext EXCEPT ![bufOver[s].buffer] = Written] ELSE bufNext
  /\ UNCHANGED <<bufThread, bufEntry, bufSockets, bufLock, bufHead, bufCount>>

-----------------------------------------------------------------------------
(* WorkThread.                                                             *)
Over(w) == bufOver[bufThread[w].sock]
OverBecomes(w, over) == bufOver' = [bufOver EXCEPT ![bufThread[w].sock] = over]

\* GetQueuedCompletionStatus.
Takes(w, s) ==
  /\ bufThread[w].at = "idle"
  /\ \E step \in {<<"start", "alloc">>, <<"packet", "notify">>, <<"empty", "drop">>, <<"failed", "close">>} :
       /\ bufOver[s].at = step[1]
       /\ bufThread' = [bufThread EXCEPT ![w] = Doing(step[2], s)]
  /\ bufOver' = [bufOver EXCEPT ![s].at = "held"]
  /\ UNCHANGED <<bufEntry, bufSockets, bufLock, bufPool>>

\* NotifyReceivePacket: CStreamServer::ReceivePacket gives the buffer back at once.
NotifyReceivePacket(w) ==
  \/ /\ bufThread[w].at = "notify" /\ ReadLock(w, "inside")
     /\ UNCHANGED <<bufOver, bufEntry, bufSockets, bufPool>>
  \/ /\ bufThread[w].at = "inside"
     /\ IF bufEntry[bufThread[w].sock] = "active"
        THEN Free(Over(w).buffer) /\ OverBecomes(w, [Over(w) EXCEPT !.buffer = NoBuffer]) /\ Goes(w, "handed")
        ELSE Goes(w, "refused") /\ UNCHANGED <<bufOver, bufPool>>
     /\ UNCHANGED <<bufEntry, bufSockets, bufLock>>
  \/ /\ \E step \in {<<"handed", "alloc">>, <<"refused", "drop">>} :
          bufThread[w].at = step[1] /\ ReadUnlock(w, step[2])
     /\ UNCHANGED <<bufOver, bufEntry, bufSockets, bufPool>>

\* A buffer that nobody took.
Drops(w) ==
  /\ bufThread[w].at = "drop"
  /\ Free(Over(w).buffer) /\ OverBecomes(w, [Over(w) EXCEPT !.buffer = NoBuffer]) /\ Goes(w, "alloc")
  /\ UNCHANGED <<bufEntry, bufSockets, bufLock>>

\* IOCP_STARTRECV: the read of a socket that is closed fails, and that of another may.
StartsRead(w) ==
  /\ bufThread[w].at = "alloc"
  /\ \E b \in Buffers :
       /\ Alloc(b)
       /\ \/ /\ bufEntry[bufThread[w].sock] = "active"
             /\ OverBecomes(w, [at |-> "pending", buffer |-> b])
             /\ bufThread' = [bufThread EXCEPT ![w] = Idle]
          \/ OverBecomes(w, [at |-> "held", buffer |-> b]) /\ Goes(w, "close")
  /\ UNCHANGED <<bufEntry, bufSockets, bufLock>>

\* Without a buffer the worker leaves the socket alone: nothing is ever read from it again.
FailsOut(w) ==
  /\ bufThread[w].at = "alloc"
  /\ OverBecomes(w, [NoOver EXCEPT !.at = "lost"])
  /\ bufThread' = [bufThread EXCEPT ![w] = Idle]
  /\ UNCHANGED <<bufEntry, bufSockets, bufLock, bufPool>>

\* WorkerDetectClose.
WorkerDetectClose(w) ==
  /\ bufThread[w].at = "closing"
  /\ bufEntry' = [bufEntry EXCEPT ![bufThread[w].sock] = AfterDestruction(@)]
  /\ bufOwner' = NoOwner
  /\ Goes(w, "delete")
  /\ UNCHANGED <<bufOver, bufSockets, bufReaders, bufPool>>

DeletesOver(w) ==
  /\ bufThread[w].at = "delete"
  /\ Free(Over(w).buffer) /\ OverBecomes(w, NoOver)
  /\ bufThread' = [bufThread EXCEPT ![w] = Idle]
  /\ UNCHANGED <<bufEntry, bufSockets, bufLock>>

WorkThread(w) ==
  \/ \E s \in BufSocks : Takes(w, s)
  \/ NotifyReceivePacket(w) \/ Drops(w) \/ StartsRead(w) \/ FailsOut(w)
  \/ Locks(w, "close", "closeWaits", "closing") \/ WorkerDetectClose(w) \/ DeletesOver(w)

BufNext ==
  \/ AppActs
  \/ \E s \in BufSocks, how \in {"packet", "empty", "failed"} : ReadEnds(s, how)
  \/ \E w \in BufWorkers : WorkThread(w)

BufSpec == BufInit /\ [][BufNext]_bufVars

-----------------------------------------------------------------------------
(* Properties.                                                             *)

Inside == {t \in DOMAIN bufThread : bufThread[t].at \in {"inside", "handed", "refused", "sending"}}
Writing == {t \in DOMAIN bufThread : bufThread[t].at \in {"creating", "destroying", "closing"}}

\* Who changes the map of sockets is alone with it, and the readers it waits for are others,
\* all of which will come out (CXReadWriteLock over WorkThread, NotifyReceivePacket,
\* DestroySocket and SendPacket).
MapIsLocked ==
  /\ bufReaders = Cardinality(Inside) /\ bufOwner \notin Inside
  /\ Writing # {} => Writing = {bufOwner} /\ Inside = {}

\* The buffers one finds from the head of the free ones.
Chain ==
  LET next[k \in 0..MaxBuffers] ==
        IF k = 0 THEN bufHead
        ELSE IF next[k - 1] \in Buffers THEN bufNext[next[k - 1]] ELSE next[k - 1]
  IN  next

\* Every buffer is either free or a socket's, and one socket's, through packets that are handed
\* over or refused, reads that fail and sockets that are destroyed meanwhile: the list of free
\* ones never leads into a packet (CMemPool, WorkThread).
BuffersAccounted ==
  LET free == {Chain[k] : k \in 0..MaxBuffers} \ {NoBuffer}
      held == {bufOver[s].buffer : s \in BufSocks} \ {NoBuffer}
  IN  /\ Chain[MaxBuffers] = NoBuffer
      /\ free \cup held = 1..bufCount /\ free \cap held = {}
      /\ \A s, t \in BufSocks : s # t /\ bufOver[s].buffer # NoBuffer => bufOver[s].buffer # bufOver[t].buffer

\* A socket stays in the map as long as a read of it can end: a worker that comes with a
\* completion never finds the id gone (WorkerDetectClose, DestroySocket).
EntryOutlivesReads ==
  \A s \in BufSocks :
    bufOver[s].at \notin {"none", "lost"}
    /\ ~(\E w \in BufWorkers : bufThread[w] = Doing("delete", s))
    => bufEntry[s] # "none"

BuffersSound == MapIsLocked /\ BuffersAccounted /\ EntryOutlivesReads
=============================================================================
