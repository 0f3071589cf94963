---------------------------------- MODULE Psn ----------------------------------
(***************************************************************************)
(* PosiStageNet: the encoder, a network that loses and doubles packets,    *)
(* the decoder of an EosUdpInThread, which collects the packets of a frame,*)
(* and RecvPacketPSN, which turns a frame into OSC packets.                *)
(*                                                                         *)
(* The value of a tracker in a frame is the number of the frame.           *)
(***************************************************************************)
EXTENDS Naturals, Sequences, FiniteSets, SequencesExt

CONSTANTS
  Tracker,        \* tracker ids
  PsnSplits,      \* how the trackers of a frame are split over packets: see Split
  PsnIds,         \* 256: frame ids are uint8
  MaxPsnFrames,   \* bound on the frames sent
  MaxPsnFaults    \* bound on the packets lost and doubled

Split == Seq(SUBSET Tracker)

\* The encoder makes no packet of a frame without trackers.
ASSUME PsnAssumption ==
  /\ PsnSplits \subseteq Split \ {<<>>}
  /\ PsnIds \in Nat \ {0, 1} /\ MaxPsnFrames \in Nat /\ MaxPsnFaults \in Nat

VARIABLES
  psnSent,      \* the sender: number of the frame, its split, and the packets of it not yet sent
  psnDecoder,   \* psn_decoder, for data packets
  psnFrame,     \* m_PSNFrame, or NoFrame
  psnShown,     \* per tracker the value that was queued last, 0 for none
  psnHistory    \* [faults, whole]: packets lost or doubled, and the number of frames in a row
                \* whose packets all came once, up to 3

psnVars == <<psnSent, psnDecoder, psnFrame, psnShown, psnHistory>>

NoFrame == PsnIds
NoTracker == [t \in Tracker |-> 0]

PsnInit ==
  /\ psnSent = [frame |-> 0, split |-> <<>>, left |-> <<>>]
  /\ psnDecoder = [count |-> 0,
                   data |-> [id |-> 0, packets |-> 0, trackers |-> NoTracker],
                   toCommit |-> [id |-> 0, packets |-> 0, trackers |-> NoTracker]]
  /\ psnFrame = NoFrame
  /\ psnShown = NoTracker
  /\ psnHistory = [faults |-> 0, whole |-> 0]

-----------------------------------------------------------------------------
(* The fields of a tracker and the OSC packets they are queued as.         *)

PsnField == {"pos", "speed", "orientation", "acceleration", "target", "status", "timestamp"}

\* The order in which RecvPacketPSN looks at the fields.
FieldOrder == <<"pos", "speed", "orientation", "acceleration", "target", "status", "timestamp">>

Width(f) == IF f \in {"status", "timestamp"} THEN 1 ELSE 3

\* The parts of the path of the packet with all fields: the timestamp goes with the status.
PathOf(fields) ==
  SelectSeq(FieldOrder, LAMBDA f : IF f = "timestamp" THEN "status" \in fields ELSE f \in fields)

\* Its arguments: argument i of field f is <<f, i>>.
ArgsOf(path) == FlattenSeq([p \in DOMAIN path |-> [i \in 1..Width(path[p]) |-> <<path[p], i>>]])

\* Where MakePSNPacket expects the first argument of a part.
ArgIndex(path, p) ==
  1 + FoldLeft(LAMBDA n, f : n + Width(f), 0, SubSeq(path, 1, p - 1))

\* MakePSNPacket: per part of the path the arguments it takes, if there are enough.
MadeOf(path, args) ==
  [p \in DOMAIN path |->
     LET first == ArgIndex(path, p)
     IN  IF first + Width(path[p]) - 1 <= Len(args)
         THEN SubSeq(args, first, first + Width(path[p]) - 1)
         ELSE <<>>]

-----------------------------------------------------------------------------
(* The decoder.                                                            *)

\* Mutant: a new id amid a frame does not end it.
DecodeDataHeaderJoin(d, id, packets) ==
  [d EXCEPT !.toCommit = [@ EXCEPT !.id = id, !.packets = packets]]

\* decode_data_header.  A new id amid a frame hands over what there is, under the new id.
\* The trackers stay, to be handed over again with the new frame.
DecodeDataHeader(d, id, packets) ==
  LET next == [d.toCommit EXCEPT !.id = id, !.packets = packets]
  IN  IF id # d.toCommit.id /\ d.count # 0
      THEN [count |-> 0, data |-> next, toCommit |-> next]
      ELSE [d EXCEPT !.toCommit = next]

\* decode_data_tracker_list.
DecodeTrackers(d, trackers, value) ==
  [d EXCEPT !.toCommit.trackers = [t \in Tracker |-> IF t \in trackers THEN value ELSE @[t]]]

\* Mutant: the trackers of a frame are kept for the next one, with their number.
CommittedKept(d) ==
  IF d.count + 1 < d.toCommit.packets THEN [d EXCEPT !.count = @ + 1]
  ELSE [d EXCEPT !.data = d.toCommit]

\* The end of decode_data: with its last packet the frame is handed over.
Committed(d) ==
  IF d.count + 1 < d.toCommit.packets THEN [d EXCEPT !.count = @ + 1]
  ELSE [count |-> 0, data |-> d.toCommit, toCommit |-> [d.toCommit EXCEPT !.trackers = NoTracker]]

Decode(d, p) ==
  Committed(DecodeTrackers(DecodeDataHeader(d, p.id, p.packets), p.trackers, p.value))

IsNew(frame, d) == frame # d.data.id

\* RecvPacketPSN, after decode.
Receive(st, d) ==
  [decoder |-> d, frame |-> d.data.id,
   shown |-> IF IsNew(st.frame, d)
             THEN [t \in Tracker |-> IF d.data.trackers[t] # 0 THEN d.data.trackers[t] ELSE st.shown[t]]
             ELSE st.shown]

PsnReceived(st, p) == Receive(st, Decode(st.decoder, p))

\* A packet that comes once, not at all, or twice.
ReceiveTimes(st, p, times) ==
  CASE times = 0 -> st
    [] times = 1 -> PsnReceived(st, p)
    [] times = 2 -> PsnReceived(PsnReceived(st, p), p)

PsnState == [decoder |-> psnDecoder, frame |-> psnFrame, shown |-> psnShown]

PsnBecomes(st) ==
  /\ psnDecoder' = st.decoder
  /\ psnFrame' = st.frame
  /\ psnShown' = st.shown

-----------------------------------------------------------------------------
(* The steps.                                                              *)

\* encode_data: the packets of the next frame.  MakePSNPacket makes frames of one tracker.
EncodeData(split) ==
  /\ psnSent.left = <<>> /\ psnSent.frame < MaxPsnFrames
  /\ psnSent' = [frame |-> psnSent.frame + 1, split |-> split, left |-> split]
  /\ psnHistory' = [psnHistory EXCEPT !.whole = IF @ < 3 THEN @ + 1 ELSE @]
  /\ UNCHANGED <<psnDecoder, psnFrame, psnShown>>

NextPacket ==
  [id |-> psnSent.frame % PsnIds, packets |-> Len(psnSent.split),
   trackers |-> Head(psnSent.left), value |-> psnSent.frame]

Deliver(times) ==
  /\ psnSent.left # <<>>
  /\ psnHistory.faults + (IF times = 1 THEN 0 ELSE 1) <= MaxPsnFaults
  /\ PsnBecomes(ReceiveTimes(PsnState, NextPacket, times))
  /\ psnSent' = [psnSent EXCEPT !.left = Tail(@)]
  /\ psnHistory' = IF times = 1 THEN psnHistory
                   ELSE [faults |-> psnHistory.faults + 1, whole |-> 0]

\* A packet with names: decode changes nothing of the data, and RecvPacketPSN goes on.
DeliverInfo ==
  /\ PsnBecomes(Receive(PsnState, psnDecoder))
  /\ UNCHANGED <<psnSent, psnHistory>>

PsnNext ==
  \/ \E split \in PsnSplits : EncodeData(split)
  \/ \E times \in 0..2 : Deliver(times)
  \/ DeliverInfo

PsnSpec == PsnInit /\ [][PsnNext]_psnVars

-----------------------------------------------------------------------------
(* Properties.                                                             *)

Shown == [Tracker -> 0..MaxPsnFrames]
PsnHeader == [id: 0..(PsnIds - 1), packets: Nat, trackers: Shown]

PsnTypeOK ==
  /\ psnSent \in [frame: 0..MaxPsnFrames, split: PsnSplits \cup {<<>>}, left: Split]
  /\ psnDecoder \in [count: Nat, data: PsnHeader, toCommit: PsnHeader]
  /\ psnDecoder.count = 0 \/ psnDecoder.count < psnDecoder.toCommit.packets
  /\ psnFrame \in 0..NoFrame
  /\ psnShown \in Shown
  /\ psnHistory \in [faults: 0..MaxPsnFaults, whole: 0..3]

\* The packet with all fields of a tracker, sent to a PSN destination, sets every field to its
\* own arguments, whichever of them there are (RecvPacketPSN, MakePSNPacket).
FieldsSurvive ==
  \A fields \in SUBSET PsnField :
    LET path == PathOf(fields)
        made == MadeOf(path, ArgsOf(path))
    IN  \A p \in DOMAIN path : made[p] = [i \in 1..Width(path[p]) |-> <<path[p], i>>]

\* A lost or doubled packet costs at most two whole frames more, the third is routed in full:
\* the decoder hands over the rest of the broken frame under the id of the next one, which is
\* then taken for one already received; and if the next one that comes has the same id, 256
\* frames on, it is first taken for the rest of the broken one (decode_data_header,
\* RecvPacketPSN).
ThirdFrameShown ==
  psnHistory.whole = 3 /\ psnSent.left = <<>> =>
    \A t \in UNION {psnSent.split[i] : i \in DOMAIN psnSent.split} : psnShown[t] = psnSent.frame
=============================================================================
