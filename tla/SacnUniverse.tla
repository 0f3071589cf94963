----------------------------- MODULE SacnUniverse -----------------------------
(***************************************************************************)
(* The data RouterThread keeps of an sACN universe, and the branches by    *)
(* which RecvsACN folds the data of one source into the merge of the       *)
(* sources before it.  SacnMerge runs them in RecvsACN's loop,             *)
(* SacnReceive uses the result of the whole loop.                          *)
(***************************************************************************)
EXTENDS Naturals

CONSTANTS
  N,            \* number of sources; source i has the i-th smallest CID
  Channels,     \* the 512 slots of a universe
  Levels,       \* values of a slot
  Absent        \* no entry for the universe

Priority == 0..255
Ip == 0..N

\* RouterThread::Universe, less the members that only the log uses.
Universe == [priority: Priority, pcp: BOOLEAN, channelPriority: [Channels -> Priority],
             dmx: [Channels -> Levels], ip: Ip]

\* The default-constructed Universe.
NoData == [priority |-> 0, pcp |-> FALSE, channelPriority |-> [c \in Channels |-> 0],
           dmx |-> [c \in Channels |-> 0], ip |-> 0]

\* The priority a universe gives a channel.
Effective(u, c) == IF u.pcp THEN u.channelPriority[c] ELSE u.priority

-----------------------------------------------------------------------------
(* The first source of the pass that has the universe.                     *)

FirstInstance(m, u) ==
  [m EXCEPT !.ip = u.ip,
            !.dmx = u.dmx,
            !.pcp = u.pcp,
            !.channelPriority = IF u.pcp THEN u.channelPriority ELSE @,
            !.priority = IF u.pcp THEN @ ELSE u.priority]

(* The four ways a further source u is folded into the merge m.            *)

TakeWhere(m, u, wins, channelPriority) ==
  [m EXCEPT !.dmx = [c \in Channels |-> IF c \in wins THEN u.dmx[c] ELSE m.dmx[c]],
            !.channelPriority = channelPriority,
            !.pcp = TRUE,
            !.ip = IF wins # {} THEN u.ip ELSE @]

\* Mutant: the address follows every source, also one that wins no channel.
PcpIntoPcpAlwaysAddress(m, u) ==
  LET wins == {c \in Channels : u.channelPriority[c] > m.channelPriority[c]}
  IN  [TakeWhere(m, u, wins, [c \in Channels |->
        IF c \in wins THEN u.channelPriority[c] ELSE m.channelPriority[c]])
       EXCEPT !.ip = u.ip]

PcpIntoPcp(m, u) ==
  LET wins == {c \in Channels : u.channelPriority[c] > m.channelPriority[c]}
  IN  TakeWhere(m, u, wins, [c \in Channels |->
        IF c \in wins THEN u.channelPriority[c] ELSE m.channelPriority[c]])

\* Mutant: the channels that stay keep whatever channel priority was left there.
PcpIntoBasicStale(m, u) ==
  LET wins == {c \in Channels : u.channelPriority[c] > m.priority}
  IN  TakeWhere(m, u, wins, [c \in Channels |->
        IF c \in wins THEN u.channelPriority[c] ELSE m.channelPriority[c]])

PcpIntoBasic(m, u) ==
  LET wins == {c \in Channels : u.channelPriority[c] > m.priority}
  IN  TakeWhere(m, u, wins, [c \in Channels |->
        IF c \in wins THEN u.channelPriority[c] ELSE m.priority])

BasicIntoPcp(m, u) ==
  LET wins == {c \in Channels : u.priority > m.channelPriority[c]}
  IN  TakeWhere(m, u, wins, [c \in Channels |->
        IF c \in wins THEN u.priority ELSE m.channelPriority[c]])

BasicIntoBasic(m, u) ==
  IF u.priority > m.priority
  THEN [m EXCEPT !.dmx = u.dmx, !.priority = u.priority, !.ip = u.ip]
  ELSE m

MergeInto(m, u) ==
  CASE u.pcp /\ m.pcp   -> PcpIntoPcp(m, u)
    [] u.pcp /\ ~m.pcp  -> PcpIntoBasic(m, u)
    [] ~u.pcp /\ m.pcp  -> BasicIntoPcp(m, u)
    [] ~u.pcp /\ ~m.pcp -> BasicIntoBasic(m, u)

\* The whole loop over the sources, from what an earlier call left in `merged`:
\* operator[] makes a default Universe when there is no entry.
MergeAll(left, src) ==
  LET pass[k \in 0..N] ==
        IF k = 0
        THEN [active |-> FALSE, merged |-> IF left = Absent THEN NoData ELSE left]
        ELSE LET before == pass[k - 1]
             IN  CASE src[k] = Absent -> before
                   [] src[k] # Absent /\ ~before.active ->
                        [active |-> TRUE, merged |-> FirstInstance(before.merged, src[k])]
                   [] src[k] # Absent /\ before.active ->
                        [active |-> TRUE, merged |-> MergeInto(before.merged, src[k])]
  IN  IF pass[N].active THEN pass[N].merged ELSE Absent
=============================================================================
