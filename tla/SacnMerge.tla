------------------------------ MODULE SacnMerge ------------------------------
(***************************************************************************)
(* How RouterThread::RecvsACN combines the universe data of several sACN   *)
(* sources: for every dirty universe it walks the sources in CID order and *)
(* folds each one into `merged`, by one of four branches, according to     *)
(* whether the source and the merge so far carry per-channel priorities.   *)
(*                                                                         *)
(* The loop is a state machine of its own (one step per source) so that    *)
(* what it computes can be proved for any number of sources.  The whole    *)
(* loop runs under m_sACNRecv.mutex, so SacnReceive uses its result as one *)
(* step.  Universes are independent of one another: one is modelled.       *)
(***************************************************************************)
EXTENDS SacnUniverse

CONSTANTS
  Inputs,       \* universe data a source may have on record
  Leftovers     \* what an earlier call may have left in m_sACNRecv.merged

ASSUME MergeAssumption ==
  /\ N \in Nat
  /\ Channels # {}
  /\ Inputs \subseteq Universe
  /\ Leftovers \subseteq Universe
  /\ Absent \notin Universe

-----------------------------------------------------------------------------
(* The loop over the sources, for one dirty universe.                      *)

VARIABLES
  source,   \* m_sACNRecv.sources: per source its universe data, or Absent
  i,        \* the source the loop looks at; N + 1 after the last one
  active,   \* the universe is in activeUniverses
  merged    \* m_sACNRecv.merged[universe], Absent once erased

mergeVars == <<source, i, active, merged>>

MergeInit ==
  /\ source \in [1..N -> Inputs \cup {Absent}]
  /\ i = 1
  /\ active = FALSE
  /\ merged \in Leftovers

\* `continue`: the source is not on this universe.
SkipSource ==
  /\ i \in 1..N
  /\ source[i] = Absent
  /\ i' = i + 1
  /\ UNCHANGED <<source, active, merged>>

StartMerge ==
  /\ i \in 1..N
  /\ source[i] # Absent
  /\ ~active
  /\ active' = TRUE
  /\ merged' = FirstInstance(merged, source[i])
  /\ i' = i + 1
  /\ UNCHANGED source

MergeSource ==
  /\ i \in 1..N
  /\ source[i] # Absent
  /\ active
  /\ merged' = MergeInto(merged, source[i])
  /\ i' = i + 1
  /\ UNCHANGED <<source, active>>

\* After the loop: a dirty universe that no source has is erased.
RemoveInactive ==
  /\ i = N + 1
  /\ ~active
  /\ merged # Absent
  /\ merged' = Absent
  /\ UNCHANGED <<source, i, active>>

MergeNext == SkipSource \/ StartMerge \/ MergeSource \/ RemoveInactive

MergeSpec == MergeInit /\ [][MergeNext]_mergeVars

-----------------------------------------------------------------------------
(* What the merge should be.                                               *)

\* Source w controls channel c among the sources in S: nobody has a higher
\* priority there, and nobody with a smaller CID has the same.
Controls(src, w, S, c) ==
  /\ w \in S
  /\ \A j \in S : /\ Effective(src[j], c) <= Effective(src[w], c)
                  /\ j < w => Effective(src[j], c) < Effective(src[w], c)

\* The sources of the universe the loop has been through.
Seen == {j \in 1..N : j < i /\ source[j] # Absent}

MergeTypeOK ==
  /\ source \in [1..N -> Inputs \cup {Absent}]
  /\ i \in 1..(N + 1)
  /\ active \in BOOLEAN
  /\ merged \in Universe \cup {Absent}

\* A per-channel priority of 0 means "ignore my values on this channel" in the client's header
\* (STARTCODE_PRIORITY).  The merge knows no such priority, and takes it for a bid of 0.
Ignored(u, c) == u.pcp /\ u.channelPriority[c] = 0

\* Where a source that is to be ignored can have no say: nobody is, or somebody bids higher.
Contested(src, S, c) ==
  \/ \A j \in S : ~Ignored(src[j], c)
  \/ \E j \in S : Effective(src[j], c) > 0

\* Once the pass is over, each channel of the merged universe carries the level and the priority
\* of the one source that controls it, whichever mixture of basic and per-channel priorities the
\* sources use and whatever an earlier call left in `merged` (RecvsACN's merge branches), and
\* that source does not ask to be ignored there.  The channels on which nobody bids above 0 and
\* somebody asks to be ignored are excepted: RecvsACN serves them as if nobody did.
HighestPriorityWins ==
  i = N + 1 /\ active =>
    \A c \in {d \in Channels : Contested(source, Seen, d)} : \E w \in Seen :
      /\ Controls(source, w, Seen, c) /\ ~Ignored(source[w], c)
      /\ merged.dmx[c] = source[w].dmx[c]
      /\ Effective(merged, c) = Effective(source[w], c)

\* The address the merged universe is routed under is that of a source which
\* controls at least one of its channels, never of one that has been outbid
\* everywhere (the merged.ip assignments of RecvsACN).
RoutedUnderAController ==
  i = N + 1 /\ active =>
    \E c \in Channels : \E w \in Seen :
      Controls(source, w, Seen, c) /\ merged.ip = source[w].ip
=============================================================================
