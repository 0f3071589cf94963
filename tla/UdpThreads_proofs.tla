--------------------------- MODULE UdpThreads_proofs ---------------------------
(***************************************************************************)
(* Proofs about UdpThreads, for any ports, destinations and routes: the    *)
(* types, that a mute takes hold, that what Send has taken is kept, that   *)
(* ended threads are reported before they are deleted, and that packets    *)
(* do not overtake each other on their way.  At the end, proofs about      *)
(* SacnOutput, the output that needs no thread of its own: its types, and  *)
(* that the router's handles name live streams of their universes.         *)
(***************************************************************************)
EXTENDS UdpThreads, SacnOutput, Induction

-----------------------------------------------------------------------------
(* The types, and where the router thread is.                              *)

InShutdown == main.pc \in {"stopOuts", "joinOut", "stopIns", "joinIn", "done"}

\* What is still to be visited exists, and frames are only held while they are routed.
MainOK ==
  /\ main.pc \in {"ins", "visitIn", "route", "stopIns", "joinIn"} =>
       \A p \in main.todo : p \in Port /\ in[p] # Gone
  /\ main.pc \in {"visitIn", "route", "joinIn"} =>
       main.at \in Port /\ in[main.at] # Gone /\ main.at \notin main.todo
  /\ main.pc \in {"outs", "visitOut", "stopOuts", "joinOut"} =>
       \A d \in main.todo : d \in Dst /\ out[d] # Gone
  /\ main.pc \in {"visitOut", "joinOut"} =>
       main.at \in Dst /\ out[main.at] # Gone /\ main.at \notin main.todo
  /\ main.pc # "route" => main.recvQ = <<>>

TypeInv == TypeOK /\ MainOK

LEMMA InitTypeInv == Init => TypeInv
<1> SUFFICES ASSUME Init PROVE TypeInv
  OBVIOUS
<1>1. StartedIn(muteIncoming) \in InRecord
  BY DEF StartedIn, InRecord, State, Init
<1>2. StartedOut \in OutRecord
  BY DEF StartedOut, OutRecord, State
<1>3. in \in [Port -> InRecord \cup {Gone}]
  BY <1>1 DEF Init
<1>4. out \in [Dst -> OutRecord \cup {Gone}]
  BY <1>2 DEF Init
<1>5. main \in MainRecord /\ shown \in [in: [Port -> State], out: [Dst -> State]]
  BY DEF Init, MainRecord, State
<1>6. \A d \in Dst : out[d] # Gone /\ out[d].pc = "open" => out[d].qEnabled
  BY DEF Init, StartedOut
<1>7. Len(from) <= MaxPackets /\ from \in Seq(Port)
  BY UdpAssumption DEF Init
<1>8. MainOK
  BY DEF Init, MainOK
<1> QED BY <1>3, <1>4, <1>5, <1>6, <1>7, <1>8 DEF Init, TypeInv, TypeOK

\* A step of an input thread changes its record only, and may receive.
LEMMA InChangeTypeInv ==
  ASSUME TypeInv, NEW p \in Port, in[p] # Gone, NEW new \in InRecord, InChange(p, new),
         from' \in Seq(Port), Len(from') <= MaxPackets
  PROVE  TypeInv' /\ in'[p] # Gone
<1>1. in' = [in EXCEPT ![p] = new] /\ new # Gone
  BY GoneAssumption DEF InChange
<1>2. in' \in [Port -> InRecord \cup {Gone}]
  BY <1>1 DEF TypeInv, TypeOK
<1>3. \A k \in Port : in'[k] = Gone <=> in[k] = Gone
  BY <1>1 DEF TypeInv, TypeOK
<1>4. UNCHANGED <<reconnects, muteIncoming, out, main, shown, wire, accepted, unopened>>
  BY DEF InChange, sent
<1>5. TypeOK'
  BY <1>2, <1>4 DEF TypeInv, TypeOK
<1>6. MainOK'
  BY <1>3, <1>4 DEF TypeInv, MainOK
<1> QED BY <1>3, <1>5, <1>6 DEF TypeInv

\* A step of an output thread changes its record only, and may send.
LEMMA OutChangeTypeInv ==
  ASSUME TypeInv, NEW d \in Dst, out[d] # Gone, NEW new \in OutRecord, OutChange(d, new),
         new.pc = "open" => new.qEnabled, wire' \in [Dst -> Seq(Packet)]
  PROVE  TypeInv' /\ out'[d] # Gone
<1>1. out' = [out EXCEPT ![d] = new] /\ new # Gone
  BY GoneAssumption DEF OutChange
<1>2. out' \in [Dst -> OutRecord \cup {Gone}]
  BY <1>1 DEF TypeInv, TypeOK
<1>3. \A k \in Dst : out'[k] = Gone <=> out[k] = Gone
  BY <1>1 DEF TypeInv, TypeOK
<1>4. UNCHANGED <<reconnects, muteIncoming, in, main, shown, from, accepted, unopened>>
  BY DEF OutChange
<1>5. \A k \in Dst : out'[k] # Gone /\ out'[k].pc = "open" => out'[k].qEnabled
  BY <1>1 DEF TypeInv, TypeOK
<1>6. TypeOK'
  BY <1>2, <1>4, <1>5 DEF TypeInv, TypeOK
<1>7. MainOK'
  BY <1>3, <1>4 DEF TypeInv, MainOK
<1> QED BY <1>3, <1>6, <1>7 DEF TypeInv

LEMMA InTypeInv ==
  ASSUME TypeInv, NEW p \in Port, In(p) \/ InRecv(p)
  PROVE  TypeInv' /\ in'[p] # Gone
<1>1. in[p] # Gone => in[p] \in InRecord
  BY DEF TypeInv, TypeOK
<1>2. from \in Seq(Port) /\ Len(from) <= MaxPackets /\ Len(from) \in Nat
  BY DEF TypeInv, TypeOK
<1>3. CASE InLoop(p)
  <2>1. [in[p] EXCEPT !.pc = "opening", !.state = "connecting"] \in InRecord
    BY <1>1, <1>3 DEF InLoop, InRecord, State
  <2>2. [in[p] EXCEPT !.pc = "ended"] \in InRecord
    BY <1>1, <1>3 DEF InLoop, InRecord
  <2> QED BY <2>1, <2>2, <1>2, <1>3, InChangeTypeInv DEF InLoop
<1>4. CASE InOpen(p)
  <2>1. [in[p] EXCEPT !.pc = "open", !.state = "connected"] \in InRecord
    BY <1>1, <1>4 DEF InOpen, InRecord, State
  <2>2. [in[p] EXCEPT !.pc = "close"] \in InRecord
    BY <1>1, <1>4 DEF InOpen, InRecord
  <2> QED BY <2>1, <2>2, <1>2, <1>4, InChangeTypeInv DEF InOpen
<1>5. CASE InRecv(p)
  <2>1. from' = Append(from, p) /\ Len(from) < MaxPackets
    BY <1>5 DEF InRecv
  <2>2. from' \in Seq(Port) /\ Len(from') <= MaxPackets
    BY <2>1, <1>2, UdpAssumption
  <2>3. Len(from) + 1 \in Packet
    BY <2>1, <1>2, UdpAssumption DEF Packet
  <2>4. [in[p] EXCEPT !.held = IF in[p].mute THEN 0 ELSE Len(from) + 1] \in InRecord
    BY <1>1, <1>5, <2>3 DEF InRecv, InRecord
  <2> QED BY <2>2, <2>4, <1>5, InChangeTypeInv DEF InRecv
<1>6. CASE InQueue(p)
  <2>1. in[p].held \in Packet /\ in[p].q \in Seq(Packet)
    BY <1>1, <1>6 DEF InQueue, InRecord
  <2>2. Append(in[p].q, in[p].held) \in Seq(Packet)
    BY <2>1
  <2>3. [in[p] EXCEPT !.held = 0, !.q = Append(@, in[p].held)] \in InRecord
    BY <1>1, <1>6, <2>2 DEF InQueue, InRecord
  <2> QED BY <2>3, <1>2, <1>6, InChangeTypeInv DEF InQueue
<1>7. CASE InLeave(p)
  <2>1. [in[p] EXCEPT !.pc = "close"] \in InRecord
    BY <1>1, <1>7 DEF InLeave, InRecord
  <2> QED BY <2>1, <1>2, <1>7, InChangeTypeInv DEF InLeave
<1>8. CASE InClose(p)
  <2>1. [in[p] EXCEPT !.state = "not_connected",
                      !.pc = IF reconnects THEN "loop" ELSE "ended"] \in InRecord
    BY <1>1, <1>8 DEF InClose, InRecord, State
  <2> QED BY <2>1, <1>2, <1>8, InChangeTypeInv DEF InClose
<1> QED BY <1>3, <1>4, <1>5, <1>6, <1>7, <1>8 DEF In

LEMMA OutTypeInv ==
  ASSUME TypeInv, NEW d \in Dst, Out(d)
  PROVE  TypeInv' /\ out'[d] # Gone
<1>1. out[d] # Gone => out[d] \in OutRecord
  BY DEF TypeInv, TypeOK
<1>2. wire \in [Dst -> Seq(Packet)]
  BY DEF TypeInv, TypeOK
<1>3. CASE OutLoop(d)
  <2>1. [out[d] EXCEPT !.pc = "opening", !.state = "connecting"] \in OutRecord
    BY <1>1, <1>3 DEF OutLoop, OutRecord, State
  <2>2. [out[d] EXCEPT !.pc = "opening", !.state = "connecting"].pc = "opening"
    BY <1>1, <1>3 DEF OutLoop, OutRecord
  <2> QED BY <2>1, <2>2, <1>2, <1>3, OutChangeTypeInv DEF OutLoop
<1>4. CASE OutOpen(d)
  <2> DEFINE opened == [out[d] EXCEPT !.pc = "open", !.state = "connected", !.qEnabled = TRUE,
                                      !.opened = TRUE]
             failed == [out[d] EXCEPT !.pc = "close"]
  <2>1. opened \in OutRecord /\ opened.qEnabled
    BY <1>1, <1>4 DEF OutOpen, OutRecord, State
  <2>2. failed \in OutRecord /\ failed.pc = "close"
    BY <1>1, <1>4 DEF OutOpen, OutRecord
  <2>3. OutChange(d, opened) \/ OutChange(d, failed)
    BY <1>4 DEF OutOpen
  <2>4. wire' = wire /\ out[d] # Gone
    BY <1>4 DEF OutOpen
  <2> HIDE DEF opened, failed
  <2>5. CASE OutChange(d, opened)
    BY <2>1, <2>4, <2>5, <1>2, OutChangeTypeInv
  <2>6. CASE OutChange(d, failed)
    BY <2>2, <2>4, <2>6, <1>2, OutChangeTypeInv
  <2> QED BY <2>3, <2>5, <2>6
<1>5. CASE OutSwap(d)
  <2> DEFINE new == [out[d] EXCEPT !.writing = out[d].q, !.q = <<>>]
  <2>1. new \in OutRecord /\ new.pc = out[d].pc /\ new.qEnabled = out[d].qEnabled
    BY <1>1, <1>5 DEF OutSwap, OutRecord
  <2>2. out[d].pc = "open" => out[d].qEnabled
    BY <1>5 DEF OutSwap, TypeInv, TypeOK
  <2> QED BY <2>1, <2>2, <1>2, <1>5, OutChangeTypeInv DEF OutSwap
<1>6. CASE OutSend(d)
  <2> DEFINE new == [out[d] EXCEPT !.writing = Tail(@)]
  <2>1. out[d].writing \in Seq(Packet) /\ out[d].writing # <<>>
    BY <1>1, <1>6 DEF OutSend, OutRecord
  <2>2. Head(out[d].writing) \in Packet /\ Tail(out[d].writing) \in Seq(Packet)
    BY <2>1, RangeHeadTail
  <2>3. new \in OutRecord /\ new.pc = out[d].pc /\ new.qEnabled = out[d].qEnabled
    BY <2>2, <1>1, <1>6 DEF OutSend, OutRecord
  <2>4. out[d].pc = "open" => out[d].qEnabled
    BY <1>6 DEF OutSend, TypeInv, TypeOK
  <2>5. wire' = [wire EXCEPT ![d] = Append(@, Head(out[d].writing))]
    BY <1>6 DEF OutSend
  <2>6. wire' \in [Dst -> Seq(Packet)]
    BY <2>2, <2>5, <1>2, RangeAppend
  <2> QED BY <2>3, <2>4, <2>6, <1>6, OutChangeTypeInv DEF OutSend
<1>7. CASE OutLeave(d)
  <2> DEFINE new == [out[d] EXCEPT !.pc = "close", !.writing = <<>>]
  <2>0. <<>> \in Seq(Packet)
    OBVIOUS
  <2>1. new \in OutRecord /\ new.pc = "close"
    BY <1>1, <1>7, <2>0 DEF OutLeave, OutRecord
  <2> QED BY <2>1, <1>2, <1>7, OutChangeTypeInv DEF OutLeave
<1>8. CASE OutClose(d)
  <2> DEFINE new == [out[d] EXCEPT !.state = "not_connected", !.qEnabled = FALSE,
                                   !.pc = IF reconnects THEN "while" ELSE "ended"]
  <2>1. new \in OutRecord /\ new.pc # "open"
    BY <1>1, <1>8 DEF OutClose, OutRecord, State
  <2> QED BY <2>1, <1>2, <1>8, OutChangeTypeInv DEF OutClose
<1>9. CASE OutWhile(d)
  <2> DEFINE new == [out[d] EXCEPT !.pc = IF out[d].run THEN "loop" ELSE "ended"]
  <2>1. new \in OutRecord /\ new.pc # "open"
    BY <1>1, <1>9 DEF OutWhile, OutRecord
  <2> QED BY <2>1, <1>2, <1>9, OutChangeTypeInv DEF OutWhile
<1> QED BY <1>3, <1>4, <1>5, <1>6, <1>7, <1>8, <1>9 DEF Out

\* The steps of the router thread that leave the threads as they are.
LEMMA WalkTypeInv ==
  ASSUME TypeInv,
         \/ LoopOrStop \/ EndOfIns \/ EndOfLoop \/ Stop \/ OutsStopped \/ Finish
         \/ \E p \in Port : SampleIn(p)
         \/ \E d \in Dst : SampleOut(d)
  PROVE  TypeInv'
<1>1. main \in MainRecord /\ muteIncoming \in BOOLEAN
  BY DEF TypeInv, TypeOK
<1>2. DOMAIN in = Port /\ DOMAIN out = Dst
  BY DEF TypeInv, TypeOK
<1>3. UNCHANGED <<reconnects, muteIncoming, in, out, shown, from, wire, accepted, unopened>>
  BY DEF LoopOrStop, EndOfIns, EndOfLoop, Stop, OutsStopped, Finish, SampleIn, SampleOut, MainChange
<1>4. main' \in MainRecord /\ MainOK'
  <2>1. CASE LoopOrStop
    <3>1. CASE main.run
      <4>1. main' = [main EXCEPT !.pc = "ins", !.muteIncoming = muteIncoming, !.todo = Existing(in)]
        BY <2>1, <3>1 DEF LoopOrStop, MainChange
      <4>2. main' \in MainRecord
        BY <4>1, <1>1, <1>2 DEF MainRecord, Existing
      <4>3. main'.pc = "ins" /\ main'.todo = Existing(in) /\ main'.recvQ = main.recvQ
        BY <4>1, <1>1 DEF MainRecord
      <4> QED BY <4>2, <4>3, <2>1, <1>2, <1>3 DEF MainOK, TypeInv, LoopOrStop, Existing
    <3>2. CASE ~main.run
      <4>1. main' = [main EXCEPT !.pc = "stopOuts", !.todo = Existing(out)]
        BY <2>1, <3>2 DEF LoopOrStop, MainChange
      <4>2. main' \in MainRecord
        BY <4>1, <1>1, <1>2 DEF MainRecord, Existing
      <4>3. main'.pc = "stopOuts" /\ main'.todo = Existing(out) /\ main'.recvQ = main.recvQ
        BY <4>1, <1>1 DEF MainRecord
      <4> QED BY <4>2, <4>3, <2>1, <1>2, <1>3 DEF MainOK, TypeInv, LoopOrStop, Existing
    <3> QED BY <3>1, <3>2
  <2>2. CASE EndOfIns
    <3>1. main' = [main EXCEPT !.pc = "outs", !.todo = Existing(out)]
      BY <2>2 DEF EndOfIns, MainChange
    <3>2. main' \in MainRecord
      BY <3>1, <1>1, <1>2 DEF MainRecord, Existing
    <3>3. main'.pc = "outs" /\ main'.todo = Existing(out) /\ main'.recvQ = main.recvQ
      BY <3>1, <1>1 DEF MainRecord
    <3> QED BY <3>2, <3>3, <2>2, <1>2, <1>3 DEF MainOK, TypeInv, EndOfIns, Existing
  <2>3. CASE EndOfLoop
    <3>1. main' = [main EXCEPT !.pc = "top"]
      BY <2>3 DEF EndOfLoop, MainChange
    <3>2. main' \in MainRecord /\ main'.pc = "top" /\ main'.recvQ = main.recvQ
      BY <3>1, <1>1 DEF MainRecord
    <3> QED BY <3>2, <2>3 DEF MainOK, TypeInv, EndOfLoop
  <2>4. CASE Stop
    <3>1. main' = [main EXCEPT !.run = FALSE]
      BY <2>4 DEF Stop, MainChange
    <3>2. /\ main' \in MainRecord /\ main'.pc = main.pc /\ main'.recvQ = main.recvQ
          /\ main'.at = main.at /\ main'.todo = main.todo
      BY <3>1, <1>1 DEF MainRecord
    <3> QED BY <3>2, <1>3 DEF MainOK, TypeInv
  <2>5. CASE OutsStopped
    <3>1. main' = [main EXCEPT !.pc = "stopIns", !.todo = Existing(in)]
      BY <2>5 DEF OutsStopped, MainChange
    <3>2. main' \in MainRecord
      BY <3>1, <1>1, <1>2 DEF MainRecord, Existing
    <3>3. main'.pc = "stopIns" /\ main'.todo = Existing(in) /\ main'.recvQ = main.recvQ
      BY <3>1, <1>1 DEF MainRecord
    <3> QED BY <3>2, <3>3, <2>5, <1>2, <1>3 DEF MainOK, TypeInv, OutsStopped, Existing
  <2>6. CASE Finish
    <3>1. main' = [main EXCEPT !.pc = "done"]
      BY <2>6 DEF Finish, MainChange
    <3>2. main' \in MainRecord /\ main'.pc = "done" /\ main'.recvQ = main.recvQ
      BY <3>1, <1>1 DEF MainRecord
    <3> QED BY <3>2, <2>6 DEF MainOK, TypeInv, Finish
  <2>7. ASSUME NEW p \in Port, SampleIn(p) PROVE main' \in MainRecord /\ MainOK'
    <3>1. main' = [main EXCEPT !.pc = "visitIn", !.at = p, !.todo = @ \ {p},
                               !.running = in[p].pc # "ended"]
      BY <2>7 DEF SampleIn, MainChange
    <3>2. main' \in MainRecord
      BY <3>1, <1>1 DEF MainRecord
    <3>3. /\ main'.pc = "visitIn" /\ main'.at = p /\ main'.todo = main.todo \ {p}
          /\ main'.recvQ = main.recvQ
      BY <3>1, <1>1 DEF MainRecord
    <3> QED BY <3>2, <3>3, <2>7, <1>3 DEF MainOK, TypeInv, SampleIn, IsNext
  <2>8. ASSUME NEW d \in Dst, SampleOut(d) PROVE main' \in MainRecord /\ MainOK'
    <3>1. main' = [main EXCEPT !.pc = "visitOut", !.at = d, !.todo = @ \ {d},
                               !.running = out[d].pc # "ended"]
      BY <2>8 DEF SampleOut, MainChange
    <3>2. main' \in MainRecord
      BY <3>1, <1>1 DEF MainRecord
    <3>3. /\ main'.pc = "visitOut" /\ main'.at = d /\ main'.todo = main.todo \ {d}
          /\ main'.recvQ = main.recvQ
      BY <3>1, <1>1 DEF MainRecord
    <3> QED BY <3>2, <3>3, <2>8, <1>3 DEF MainOK, TypeInv, SampleOut, IsNext
  <2> QED BY <2>1, <2>2, <2>3, <2>4, <2>5, <2>6, <2>7, <2>8
<1>5. TypeOK'
  BY <1>3, <1>4 DEF TypeInv, TypeOK
<1> QED BY <1>4, <1>5 DEF TypeInv

\* The steps of the router thread at an input thread.
LEMMA AtInTypeInv ==
  ASSUME TypeInv, VisitIn \/ NextIn \/ JoinIn \/ \E p \in Port : StopIn(p)
  PROVE  TypeInv'
<1>1. main \in MainRecord /\ in \in [Port -> InRecord \cup {Gone}]
  BY DEF TypeInv, TypeOK
<1>2. <<>> \in Seq(Packet)
  OBVIOUS
<1>3. UNCHANGED <<reconnects, muteIncoming, out, from, wire, accepted, unopened>>
  BY DEF VisitIn, NextIn, JoinIn, StopIn, MainChange
<1>4. CASE VisitIn
  <2> DEFINE p == main.at
             new == [in[p] EXCEPT !.mute = main.muteIncoming, !.q = <<>>]
  <2>1. p \in Port /\ in[p] \in InRecord /\ p \notin main.todo
    BY <1>1, <1>4 DEF TypeInv, MainOK, VisitIn
  <2>2. new \in InRecord /\ new # Gone
    <3>1. new \in InRecord
      BY <1>1, <1>2, <2>1 DEF InRecord, MainRecord
    <3> QED BY <3>1, GoneAssumption
  <2>3. in' = [in EXCEPT ![p] = new]
    BY <1>1, <1>4, <2>1 DEF VisitIn
  <2>4. main' = [main EXCEPT !.pc = "route", !.recvQ = in[p].q] /\ main.pc = "visitIn"
    BY <1>4 DEF VisitIn, MainChange
  <2>5. shown' = [shown EXCEPT !.in[p] = in[p].state]
    BY <1>4 DEF VisitIn
  <2>6. in[p].state \in State /\ in[p].q \in Seq(Packet)
    BY <2>1 DEF InRecord
  <2> HIDE DEF p, new
  <2>7. main' \in MainRecord
    BY <2>4, <2>6, <1>1 DEF MainRecord
  <2>8. main'.pc = "route" /\ main'.at = main.at /\ main'.todo = main.todo
    BY <2>4, <1>1 DEF MainRecord
  <2>9. in' \in [Port -> InRecord \cup {Gone}] /\ \A k \in Port : in'[k] = Gone <=> in[k] = Gone
    <3>1. in[p] # Gone
      BY <2>1, GoneAssumption
    <3> QED BY <2>1, <2>2, <2>3, <1>1, <3>1
  <2>10. shown' \in [in: [Port -> State], out: [Dst -> State]]
    BY <2>1, <2>5, <2>6 DEF TypeInv, TypeOK
  <2>11. MainOK'
    BY <2>4, <2>8, <2>9 DEF TypeInv, MainOK
  <2> QED BY <2>7, <2>9, <2>10, <2>11, <1>3 DEF TypeInv, TypeOK
<1>5. CASE NextIn
  <2>1. main.at \in Port /\ main.at \notin main.todo /\ main.pc = "route" /\ main.recvQ = <<>>
    BY <1>5 DEF TypeInv, MainOK, NextIn
  <2>2. in' \in [Port -> InRecord \cup {Gone}] /\ \A k \in Port : k # main.at => in'[k] = in[k]
    BY <1>1, <1>5, <2>1 DEF NextIn
  <2>3. main' = [main EXCEPT !.pc = "ins", !.at = 0] /\ shown' = shown
    BY <1>5 DEF NextIn, MainChange
  <2>4. main' \in MainRecord /\ main'.pc = "ins" /\ main'.todo = main.todo /\ main'.recvQ = main.recvQ
    BY <2>3, <1>1 DEF MainRecord
  <2>5. MainOK'
    BY <2>1, <2>2, <2>4 DEF TypeInv, MainOK
  <2> QED BY <2>2, <2>3, <2>4, <2>5, <1>3 DEF TypeInv, TypeOK
<1>6. CASE JoinIn
  <2>1. main.at \in Port /\ main.at \notin main.todo /\ main.pc = "joinIn" /\ main.recvQ = <<>>
    BY <1>6 DEF TypeInv, MainOK, JoinIn
  <2>2. in' \in [Port -> InRecord \cup {Gone}] /\ \A k \in Port : k # main.at => in'[k] = in[k]
    BY <1>1, <1>6, <2>1 DEF JoinIn
  <2>3. main' = [main EXCEPT !.pc = "stopIns", !.at = 0] /\ shown' = shown
    BY <1>6 DEF JoinIn, MainChange
  <2>4. /\ main' \in MainRecord /\ main'.pc = "stopIns" /\ main'.todo = main.todo
        /\ main'.recvQ = main.recvQ
    BY <2>3, <1>1 DEF MainRecord
  <2>5. MainOK'
    BY <2>1, <2>2, <2>4 DEF TypeInv, MainOK
  <2> QED BY <2>2, <2>3, <2>4, <2>5, <1>3 DEF TypeInv, TypeOK
<1>7. ASSUME NEW p \in Port, StopIn(p) PROVE TypeInv'
  <2> DEFINE new == [in[p] EXCEPT !.run = FALSE]
  <2>1. in[p] # Gone /\ in[p] \in InRecord /\ p \in main.todo /\ main.pc = "stopIns"
    BY <1>1, <1>7 DEF TypeInv, MainOK, StopIn, IsNext
  <2>2. new \in InRecord
    BY <2>1 DEF InRecord
  <2>3. new # Gone
    BY <2>2, GoneAssumption
  <2>4. in' = [in EXCEPT ![p] = new] /\ shown' = shown
    BY <1>7 DEF StopIn
  <2>5. main' = [main EXCEPT !.pc = "joinIn", !.at = p, !.todo = @ \ {p}]
    BY <1>7 DEF StopIn, MainChange
  <2> HIDE DEF new
  <2>6. in' \in [Port -> InRecord \cup {Gone}] /\ \A k \in Port : in'[k] = Gone <=> in[k] = Gone
    BY <2>1, <2>2, <2>3, <2>4, <1>1
  <2>7. /\ main' \in MainRecord /\ main'.pc = "joinIn" /\ main'.at = p
        /\ main'.todo = main.todo \ {p} /\ main'.recvQ = main.recvQ
    BY <2>5, <1>1 DEF MainRecord
  <2>8. MainOK'
    BY <2>1, <2>6, <2>7 DEF TypeInv, MainOK
  <2> QED BY <2>4, <2>6, <2>7, <2>8, <1>3 DEF TypeInv, TypeOK
<1> QED BY <1>4, <1>5, <1>6, <1>7

\* The steps of the router thread at an output thread.
LEMMA AtOutTypeInv ==
  ASSUME TypeInv, VisitOut \/ JoinOut \/ \E d \in Dst : StopOut(d)
  PROVE  TypeInv'
<1>1. main \in MainRecord /\ out \in [Dst -> OutRecord \cup {Gone}]
  BY DEF TypeInv, TypeOK
<1>2. UNCHANGED <<reconnects, muteIncoming, in, from, wire, accepted>>
  BY DEF VisitOut, JoinOut, StopOut, MainChange
<1>3. \A d \in Dst : out[d] # Gone /\ out[d].pc = "open" => out[d].qEnabled
  BY DEF TypeInv, TypeOK
<1>4. CASE VisitOut
  <2>1. /\ main.at \in Dst /\ main.at \notin main.todo /\ main.recvQ = <<>>
        /\ out[main.at] \in OutRecord
    BY <1>1, <1>4 DEF TypeInv, MainOK, VisitOut
  <2>2. out[main.at].state \in State /\ out[main.at].q \in Seq(Packet)
    BY <2>1 DEF OutRecord
  <2>3. shown' = [shown EXCEPT !.out[main.at] = out[main.at].state]
    BY <1>4 DEF VisitOut
  <2>4. shown' \in [in: [Port -> State], out: [Dst -> State]]
    BY <2>1, <2>2, <2>3 DEF TypeInv, TypeOK
  <2>5. out' = out \/ out' = [out EXCEPT ![main.at] = Gone]
    BY <1>4 DEF VisitOut
  <2>6. /\ out' \in [Dst -> OutRecord \cup {Gone}]
        /\ \A k \in Dst : out'[k] # Gone => out'[k] = out[k]
        /\ \A k \in Dst : k # main.at => out'[k] = out[k]
    BY <2>1, <2>5, <1>1
  <2>7. Range(out[main.at].q) \subseteq Packet
    BY <2>2 DEF Range
  <2>8. unopened' \in [Dst -> SUBSET Packet]
    <3> DEFINE lost == Range(out[main.at].q)
    <3>1. \/ unopened' = unopened
          \/ unopened' = [unopened EXCEPT ![main.at] = IF out[main.at].opened THEN @ ELSE @ \cup lost]
      BY <1>4 DEF VisitOut
    <3>2. lost \subseteq Packet /\ unopened \in [Dst -> SUBSET Packet]
      BY <2>7 DEF TypeInv, TypeOK
    <3> HIDE DEF lost
    <3> QED BY <3>1, <3>2, <2>1
  <2>9. main' = [main EXCEPT !.pc = "outs", !.at = 0]
    BY <1>4 DEF VisitOut, MainChange
  <2>10. main' \in MainRecord /\ main'.pc = "outs" /\ main'.todo = main.todo /\ main'.recvQ = main.recvQ
    BY <2>9, <1>1 DEF MainRecord
  <2>11. MainOK'
    BY <2>1, <2>6, <2>10, <1>4 DEF TypeInv, MainOK, VisitOut
  <2> QED BY <2>4, <2>6, <2>8, <2>10, <2>11, <1>2, <1>3 DEF TypeInv, TypeOK
<1>5. CASE JoinOut
  <2>1. main.at \in Dst /\ main.at \notin main.todo /\ main.pc = "joinOut" /\ main.recvQ = <<>>
    BY <1>5 DEF TypeInv, MainOK, JoinOut
  <2>2. /\ out' \in [Dst -> OutRecord \cup {Gone}]
        /\ \A k \in Dst : out'[k] # Gone => out'[k] = out[k]
        /\ \A k \in Dst : k # main.at => out'[k] = out[k]
    BY <1>1, <1>5, <2>1 DEF JoinOut
  <2>3. main' = [main EXCEPT !.pc = "stopOuts", !.at = 0] /\ UNCHANGED <<shown, unopened>>
    BY <1>5 DEF JoinOut, MainChange
  <2>4. /\ main' \in MainRecord /\ main'.pc = "stopOuts" /\ main'.todo = main.todo
        /\ main'.recvQ = main.recvQ
    BY <2>3, <1>1 DEF MainRecord
  <2>5. MainOK'
    BY <2>1, <2>2, <2>4 DEF TypeInv, MainOK
  <2> QED BY <2>2, <2>3, <2>4, <2>5, <1>2, <1>3 DEF TypeInv, TypeOK
<1>6. ASSUME NEW d \in Dst, StopOut(d) PROVE TypeInv'
  <2> DEFINE new == [out[d] EXCEPT !.run = FALSE]
  <2>1. out[d] # Gone /\ out[d] \in OutRecord /\ d \in main.todo /\ main.pc = "stopOuts"
    BY <1>1, <1>6 DEF TypeInv, MainOK, StopOut, IsNext
  <2>2. new \in OutRecord /\ new.pc = out[d].pc /\ new.qEnabled = out[d].qEnabled
    BY <2>1 DEF OutRecord
  <2>3. new # Gone
    BY <2>2, GoneAssumption
  <2>4. out' = [out EXCEPT ![d] = new] /\ UNCHANGED <<shown, unopened>>
    BY <1>6 DEF StopOut
  <2>5. main' = [main EXCEPT !.pc = "joinOut", !.at = d, !.todo = @ \ {d}]
    BY <1>6 DEF StopOut, MainChange
  <2> HIDE DEF new
  <2>6. out' \in [Dst -> OutRecord \cup {Gone}] /\ \A k \in Dst : out'[k] = Gone <=> out[k] = Gone
    BY <2>1, <2>2, <2>3, <2>4, <1>1
  <2>7. /\ main' \in MainRecord /\ main'.pc = "joinOut" /\ main'.at = d
        /\ main'.todo = main.todo \ {d} /\ main'.recvQ = main.recvQ
    BY <2>5, <1>1 DEF MainRecord
  <2>8. MainOK'
    BY <2>1, <2>6, <2>7 DEF TypeInv, MainOK
  <2>9. \A k \in Dst : out'[k] # Gone /\ out'[k].pc = "open" => out'[k].qEnabled
    BY <2>1, <2>2, <2>4, <1>1, <1>3
  <2> QED BY <2>4, <2>6, <2>7, <2>8, <2>9, <1>2 DEF TypeInv, TypeOK
<1> QED BY <1>4, <1>5, <1>6

\* What Send makes of a thread, or of none.
LEMMA SentToThread ==
  ASSUME NEW t \in OutRecord \cup {Gone}, NEW n \in Packet,
         t # Gone /\ t.pc = "open" => t.qEnabled
  PROVE  /\ SentTo(t, n) \in OutRecord
         /\ SentTo(t, n).pc = "open" => SentTo(t, n).qEnabled
<1> DEFINE u == IF t = Gone THEN StartedOut ELSE t
<1>1. <<>> \in Seq(Packet)
  OBVIOUS
<1>2. StartedOut \in OutRecord /\ StartedOut.pc = "loop"
  BY <1>1 DEF StartedOut, OutRecord, State
<1>3. u \in OutRecord /\ (u.pc = "open" => u.qEnabled)
  BY <1>2
<1>4. SentTo(t, n) = IF u.qEnabled THEN [u EXCEPT !.q = Append(u.q, n)] ELSE u
  BY DEF SentTo
<1> HIDE DEF u
<1>5. u.q \in Seq(Packet)
  BY <1>3 DEF OutRecord
<1>6. Append(u.q, n) \in Seq(Packet)
  BY <1>5
<1>7. [u EXCEPT !.q = Append(u.q, n)] \in OutRecord
  BY <1>3, <1>6 DEF OutRecord
<1>8. [u EXCEPT !.q = Append(u.q, n)].pc = u.pc /\ [u EXCEPT !.q = Append(u.q, n)].qEnabled = u.qEnabled
  BY <1>3 DEF OutRecord
<1> QED BY <1>3, <1>4, <1>7, <1>8

LEMMA RouteTypeInv ==
  ASSUME TypeInv, Route
  PROVE  TypeInv'
<1>1. /\ main \in MainRecord /\ out \in [Dst -> OutRecord \cup {Gone}]
      /\ \A d \in Dst : out[d] # Gone /\ out[d].pc = "open" => out[d].qEnabled
  BY DEF TypeInv, TypeOK
<1>2. main.recvQ \in Seq(Packet) /\ main.recvQ # <<>> /\ main.pc = "route"
  BY <1>1 DEF Route, MainRecord
<1>3. Head(main.recvQ) \in Packet /\ Tail(main.recvQ) \in Seq(Packet)
  BY <1>2, RangeHeadTail
<1> DEFINE n == Head(main.recvQ)
<1>4. out' = [d \in Dst |-> IF d \in To[main.at] THEN SentTo(out[d], n) ELSE out[d]]
  BY DEF Route
<1>5. accepted' = [d \in Dst |-> IF d \in To[main.at] /\ Accepts(out[d])
                                 THEN accepted[d] \cup {n} ELSE accepted[d]]
  BY DEF Route
<1>6. n \in Packet
  BY <1>3
<1> HIDE DEF n
<1>7. \A d \in Dst : out'[d] \in OutRecord \cup {Gone}
                     /\ (out'[d] # Gone /\ out'[d].pc = "open" => out'[d].qEnabled)
  <2> TAKE d \in Dst
  <2>1. SentTo(out[d], n) \in OutRecord /\ (SentTo(out[d], n).pc = "open" => SentTo(out[d], n).qEnabled)
    BY <1>1, <1>6, SentToThread
  <2>2. out'[d] = SentTo(out[d], n) \/ out'[d] = out[d]
    BY <1>4
  <2> QED BY <2>1, <2>2, <1>1
<1>8. accepted' \in [Dst -> SUBSET Packet]
  BY <1>5, <1>6 DEF TypeInv, TypeOK
<1>9. out' \in [Dst -> OutRecord \cup {Gone}]
  BY <1>4, <1>7
<1>10. UNCHANGED <<reconnects, muteIncoming, in, shown, from, wire, unopened>>
  BY DEF Route, MainChange
<1>11. main' = [main EXCEPT !.recvQ = Tail(@)]
  BY DEF Route, MainChange
<1>12. /\ main' \in MainRecord /\ main'.pc = "route" /\ main'.at = main.at
       /\ main'.todo = main.todo
  BY <1>1, <1>2, <1>3, <1>11 DEF MainRecord
<1>13. MainOK'
  BY <1>2, <1>10, <1>12 DEF TypeInv, MainOK
<1> QED BY <1>7, <1>8, <1>9, <1>10, <1>12, <1>13 DEF TypeInv, TypeOK

LEMMA NextTypeInv == TypeInv /\ [Next]_vars => TypeInv'
<1> SUFFICES ASSUME TypeInv, [Next]_vars PROVE TypeInv'
  OBVIOUS
<1>1. CASE \E p \in Port : In(p) \/ InRecv(p)
  BY <1>1, InTypeInv
<1>2. CASE \E d \in Dst : Out(d)
  BY <1>2, OutTypeInv
<1>3. CASE Main \/ Stop
  <2>1. CASE LoopOrStop \/ EndOfIns \/ EndOfLoop \/ Stop \/ OutsStopped \/ Finish
    BY <2>1, WalkTypeInv
  <2>2. CASE \E p \in Port : SampleIn(p)
    BY <2>2, WalkTypeInv
  <2>3. CASE \E d \in Dst : SampleOut(d)
    BY <2>3, WalkTypeInv
  <2>4. CASE VisitIn \/ NextIn \/ JoinIn \/ \E p \in Port : StopIn(p)
    BY <2>4, AtInTypeInv
  <2>5. CASE VisitOut \/ JoinOut \/ \E d \in Dst : StopOut(d)
    BY <2>5, AtOutTypeInv
  <2>6. CASE Route
    BY <2>6, RouteTypeInv
  <2> QED BY <1>3, <2>1, <2>2, <2>3, <2>4, <2>5, <2>6 DEF Main
<1>4. CASE MuteAll
  <2>1. muteIncoming' \in BOOLEAN
    BY <1>4 DEF MuteAll
  <2> QED BY <1>4, <2>1 DEF MuteAll, sent, TypeInv, TypeOK, MainOK
<1>5. CASE UNCHANGED vars
  BY <1>5 DEF vars, TypeInv, TypeOK, MainOK
<1> QED BY <1>1, <1>2, <1>3, <1>4, <1>5 DEF Next

\* Whatever the interleaving of the threads, a thread's record is one that its run() can
\* be in, an open thread takes packets, and the router thread visits only threads that exist.
THEOREM TypeInvariant == Spec => [](TypeOK /\ MainOK)
<1>1. Spec => []TypeInv
  BY InitTypeInv, NextTypeInv, PTL DEF Spec
<1> QED BY <1>1, PTL DEF TypeInv

-----------------------------------------------------------------------------
(* MuteTakesHold: what a muted thread has queued since the visit that told *)
(* it is only what it was holding then, and nothing more is taken.         *)

\* The inequality of MuteTakesHold, for one thread.
HoldsOne(thread) == Len(thread.q) + (IF thread.held = 0 THEN 0 ELSE 1) <= 1

LEMMA NextMuteTakesHold ==
  ASSUME TypeInv, MuteTakesHold, [Next]_vars
  PROVE  MuteTakesHold'
<1>1. in \in [Port -> InRecord \cup {Gone}]
  BY DEF TypeInv, TypeOK
<1>2. \A p \in Port : in[p] # Gone /\ in[p].mute => HoldsOne(in[p])
  BY DEF MuteTakesHold, HoldsOne
<1> SUFFICES ASSUME NEW k \in Port
             PROVE  in'[k] # Gone /\ in'[k].mute => HoldsOne(in'[k])
  BY DEF MuteTakesHold, HoldsOne
<1>3. CASE in'[k] = in[k]
  BY <1>2, <1>3
<1>4. CASE in[k] # Gone /\ InRecv(k)
  <2>1. in'[k] = [in[k] EXCEPT !.held = IF in[k].mute THEN 0 ELSE Len(from) + 1] /\ in[k].held = 0
    BY <1>1, <1>4 DEF InRecv, InChange
  <2>2. in[k] \in InRecord
    BY <1>1, <1>4
  <2>3. /\ in'[k].mute = in[k].mute /\ in'[k].q = in[k].q
        /\ in[k].mute => in'[k].held = 0
    BY <2>1, <2>2 DEF InRecord
  <2> QED BY <1>2, <1>4, <2>1, <2>3 DEF HoldsOne
<1>5. CASE in[k] # Gone /\ In(k)
  <2>1. in[k] \in InRecord
    BY <1>1, <1>5
  <2>2. CASE InQueue(k)
    <3>1. in'[k] = [in[k] EXCEPT !.held = 0, !.q = Append(in[k].q, in[k].held)] /\ in[k].held # 0
      BY <1>1, <2>2 DEF InQueue, InChange
    <3>2. in'[k].mute = in[k].mute /\ in'[k].q = Append(in[k].q, in[k].held) /\ in'[k].held = 0
      BY <2>1, <3>1 DEF InRecord
    <3>3. in[k].q \in Seq(Packet) /\ in[k].held \in Packet
      BY <2>1, <3>1 DEF InRecord
    <3>4. Len(Append(in[k].q, in[k].held)) = Len(in[k].q) + 1 /\ Len(in[k].q) \in Nat
      BY <3>3
    <3>5. in'[k].mute => Len(in[k].q) + 1 <= 1
      BY <1>2, <1>5, <3>1, <3>2 DEF HoldsOne
    <3>6. in'[k].mute => Len(in'[k].q) <= 1 /\ Len(in'[k].q) \in Nat
      BY <3>2, <3>4, <3>5
    <3> QED BY <3>2, <3>6 DEF HoldsOne
  <2>3. CASE InLoop(k) \/ InOpen(k) \/ InLeave(k) \/ InClose(k)
    <3>1. in'[k].mute = in[k].mute /\ in'[k].q = in[k].q /\ in'[k].held = in[k].held
      <4>1. CASE InLoop(k)
        <5>1. \/ in'[k] = [in[k] EXCEPT !.pc = "opening", !.state = "connecting"]
              \/ in'[k] = [in[k] EXCEPT !.pc = "ended"]
          BY <1>1, <4>1 DEF InLoop, InChange
        <5> QED BY <2>1, <5>1 DEF InRecord
      <4>2. CASE InOpen(k)
        <5>1. \/ in'[k] = [in[k] EXCEPT !.pc = "open", !.state = "connected"]
              \/ in'[k] = [in[k] EXCEPT !.pc = "close"]
          BY <1>1, <4>2 DEF InOpen, InChange
        <5> QED BY <2>1, <5>1 DEF InRecord
      <4>3. CASE InLeave(k)
        BY <1>1, <2>1, <4>3 DEF InLeave, InChange, InRecord
      <4>4. CASE InClose(k)
        BY <1>1, <2>1, <4>4 DEF InClose, InChange, InRecord
      <4> QED BY <2>3, <4>1, <4>2, <4>3, <4>4
    <3> QED BY <1>2, <1>5, <3>1 DEF HoldsOne
  <2> QED BY <1>5, <2>2, <2>3 DEF In
<1>6. CASE VisitIn
  <2>1. main.at \in Port
    BY <1>6 DEF TypeInv, MainOK, VisitIn
  <2>2. in' = [in EXCEPT ![main.at] = [in[main.at] EXCEPT !.mute = main.muteIncoming, !.q = <<>>]]
    BY <1>1, <1>6, <2>1 DEF VisitIn
  <2>3. CASE k = main.at
    <3>1. in[k] \in InRecord
      BY <1>1, <1>6, <2>3 DEF TypeInv, MainOK, VisitIn
    <3>2. in'[k].q = <<>>
      BY <1>1, <2>2, <2>3, <3>1 DEF InRecord
    <3>3. Len(in'[k].q) = 0
      BY <3>2
    <3> QED BY <3>3 DEF HoldsOne
  <2>4. CASE k # main.at
    BY <1>1, <1>2, <2>2, <2>4
  <2> QED BY <2>3, <2>4
<1>7. CASE in[k] # Gone /\ StopIn(k)
  <2>1. in'[k] = [in[k] EXCEPT !.run = FALSE] /\ in[k] \in InRecord
    BY <1>1, <1>7 DEF StopIn
  <2>2. in'[k].mute = in[k].mute /\ in'[k].q = in[k].q /\ in'[k].held = in[k].held
    BY <2>1 DEF InRecord
  <2> QED BY <1>2, <1>7, <2>2 DEF HoldsOne
<1>8. CASE NextIn \/ JoinIn
  <2>1. in'[k] = in[k] \/ in'[k] = Gone
    BY <1>1, <1>8 DEF NextIn, JoinIn
  <2> QED BY <1>2, <2>1
<1>9. in'[k] = in[k] \/ VisitIn \/ NextIn \/ JoinIn
      \/ (in[k] # Gone /\ (In(k) \/ InRecv(k) \/ StopIn(k)))
  <2>1. ASSUME NEW p \in Port, In(p) \/ InRecv(p)
        PROVE  in'[k] = in[k] \/ (in[k] # Gone /\ (In(k) \/ InRecv(k)))
    <3>1. in[p] # Gone /\ \E new : in' = [in EXCEPT ![p] = new]
      BY <2>1 DEF In, InRecv, InLoop, InOpen, InQueue, InLeave, InClose, InChange
    <3>2. k # p => in'[k] = in[k]
      BY <3>1, <1>1
    <3> QED BY <2>1, <3>1, <3>2
  <2>2. ASSUME NEW p \in Port, StopIn(p)
        PROVE  in'[k] = in[k] \/ (in[k] # Gone /\ StopIn(k))
    <3>1. in[p] # Gone
      BY <2>2 DEF StopIn, IsNext, TypeInv, MainOK
    <3>2. k # p => in'[k] = in[k]
      BY <2>2, <1>1 DEF StopIn
    <3> QED BY <2>2, <3>1, <3>2
  <2>3. ASSUME NEW p \in Port, SampleIn(p) PROVE in' = in
    BY <2>3 DEF SampleIn
  <2>4. ASSUME NEW d \in Dst, Out(d) \/ SampleOut(d) \/ StopOut(d) PROVE in' = in
    BY <2>4 DEF Out, SampleOut, StopOut, OutLoop, OutOpen, OutSwap, OutSend, OutLeave, OutClose,
                OutWhile, OutChange
  <2>5. CASE \/ LoopOrStop \/ Route \/ EndOfIns \/ VisitOut \/ EndOfLoop \/ JoinOut
             \/ OutsStopped \/ Finish \/ Stop \/ MuteAll \/ UNCHANGED vars
    BY <2>5 DEF LoopOrStop, Route, EndOfIns, VisitOut, EndOfLoop, JoinOut, OutsStopped, Finish,
                Stop, MuteAll, vars
  <2> QED BY <2>1, <2>2, <2>3, <2>4, <2>5 DEF Next, Main
<1> QED BY <1>3, <1>4, <1>5, <1>6, <1>7, <1>8, <1>9

\* From the visit in which a thread is told that it is muted, at most the packet it was
\* about to queue still reaches the router thread, for any number of ports and packets.
THEOREM MuteHolds == Spec => []MuteTakesHold
<1>1. Init => MuteTakesHold
  <2> SUFFICES ASSUME Init PROVE MuteTakesHold
    OBVIOUS
  <2>1. \A p \in Port : in[p].q = <<>> /\ in[p].held = 0
    BY DEF Init, StartedIn
  <2>2. Len(<<>>) + 0 <= 1
    OBVIOUS
  <2> QED BY <2>1, <2>2, Zenon DEF MuteTakesHold
<1>2. TypeInv /\ MuteTakesHold /\ [Next]_vars => MuteTakesHold'
  BY NextMuteTakesHold
<1> QED BY <1>1, <1>2, InitTypeInv, NextTypeInv, PTL DEF Spec

-----------------------------------------------------------------------------
(* AcceptedIsKept.  A thread that is not stopped leaves the inner loop     *)
(* never, so the ones that end, and are deleted, have never opened: what   *)
(* goes with them is counted in unopened, and nothing is being written.    *)

LEMMA RangeConcat ==
  ASSUME NEW T, NEW s \in Seq(T), NEW t \in Seq(T)
  PROVE  Range(s \o t) = Range(s) \cup Range(t)
<1>1. /\ Len(s) \in Nat /\ Len(t) \in Nat
      /\ DOMAIN s = 1..Len(s) /\ DOMAIN t = 1..Len(t) /\ DOMAIN (s \o t) = 1..(Len(s) + Len(t))
  OBVIOUS
<1>2. \A k \in 1..Len(s) : (s \o t)[k] = s[k]
  OBVIOUS
<1>3. \A k \in 1..Len(t) : (s \o t)[Len(s) + k] = t[k]
  OBVIOUS
<1>4. Range(s) \subseteq Range(s \o t)
  <2> SUFFICES ASSUME NEW k \in DOMAIN s PROVE \E j \in DOMAIN (s \o t) : (s \o t)[j] = s[k]
    BY DEF Range
  <2>1. k \in DOMAIN (s \o t)
    BY <1>1
  <2> QED BY <2>1, <1>1, <1>2
<1>5. Range(t) \subseteq Range(s \o t)
  <2> SUFFICES ASSUME NEW k \in DOMAIN t PROVE \E j \in DOMAIN (s \o t) : (s \o t)[j] = t[k]
    BY DEF Range
  <2>1. Len(s) + k \in DOMAIN (s \o t)
    BY <1>1
  <2> QED BY <2>1, <1>1, <1>3
<1>6. Range(s \o t) \subseteq Range(s) \cup Range(t)
  <2> SUFFICES ASSUME NEW k \in DOMAIN (s \o t)
               PROVE  \/ \E j \in DOMAIN s : s[j] = (s \o t)[k]
                      \/ \E j \in DOMAIN t : t[j] = (s \o t)[k]
    BY DEF Range
  <2>1. CASE k \in 1..Len(s)
    BY <2>1, <1>1, <1>2
  <2>2. CASE k \notin 1..Len(s)
    <3>1. k - Len(s) \in 1..Len(t) /\ k = Len(s) + (k - Len(s))
      BY <2>2, <1>1
    <3> QED BY <3>1, <1>1, <1>3
  <2> QED BY <2>1, <2>2
<1> QED BY <1>4, <1>5, <1>6

\* What a thread still has to send.
Waiting(t) == IF t = Gone THEN {} ELSE Range(t.q) \cup Range(t.writing)

\* Of a thread that has not been told to stop.
Working(t) ==
  t # Gone => /\ t.run
              /\ t.opened => t.pc = "open"
              /\ t.pc # "open" => t.writing = <<>>

KeptInv ==
  main.run =>
    /\ ~InShutdown
    /\ \A d \in Dst : Working(out[d])
    /\ \A d \in Dst : accepted[d] = Range(wire[d]) \cup unopened[d] \cup Waiting(out[d])
    /\ main.pc = "visitOut" /\ ~main.running => out[main.at].pc = "ended"

LEMMA InitKept == Init => KeptInv
<1> SUFFICES ASSUME Init PROVE KeptInv
  OBVIOUS
<1>1. ~InShutdown /\ main.pc # "visitOut"
  BY DEF Init, InShutdown
<1>2. \A d \in Dst : Working(out[d])
  BY DEF Init, Working, StartedOut
<1>3. ASSUME NEW d \in Dst
      PROVE  accepted[d] = Range(wire[d]) \cup unopened[d] \cup Waiting(out[d])
  <2>1. accepted[d] = {} /\ unopened[d] = {} /\ wire[d] = <<>> /\ out[d] \in {StartedOut, Gone}
    BY DEF Init
  <2>2. StartedOut.q = <<>> /\ StartedOut.writing = <<>>
    BY DEF StartedOut
  <2> QED BY <2>1, <2>2, RangeEmpty DEF Waiting
<1> QED BY <1>1, <1>2, <1>3 DEF KeptInv

\* A step of a thread keeps its packets among those sent and those waiting.
LEMMA OutKept ==
  ASSUME TypeInv, NEW d \in Dst, Out(d), Working(out[d])
  PROVE  /\ out[d] # Gone /\ out[d].pc # "ended"
         /\ Working(out'[d])
         /\ Range(wire'[d]) \cup Waiting(out'[d]) = Range(wire[d]) \cup Waiting(out[d])
         /\ \A k \in Dst \ {d} : out'[k] = out[k] /\ wire'[k] = wire[k]
         /\ UNCHANGED <<main, accepted, unopened>>
<1>1. out \in [Dst -> OutRecord \cup {Gone}] /\ wire \in [Dst -> Seq(Packet)]
  BY DEF TypeInv, TypeOK
<1>2. out[d] # Gone /\ out[d].pc # "ended" /\ out[d] \in OutRecord
  BY <1>1 DEF Out, OutLoop, OutOpen, OutSwap, OutSend, OutLeave, OutClose, OutWhile
<1>3. out[d].run /\ (out[d].opened => out[d].pc = "open") /\ (out[d].pc # "open" => out[d].writing = <<>>)
  BY <1>2 DEF Working
<1>4. UNCHANGED <<main, accepted, unopened>> /\ \E new : out' = [out EXCEPT ![d] = new]
  BY DEF Out, OutLoop, OutOpen, OutSwap, OutSend, OutLeave, OutClose, OutWhile, OutChange
<1>5. \A k \in Dst \ {d} : out'[k] = out[k]
  BY <1>1, <1>4
<1>6. CASE OutSend(d)
  <2> DEFINE w == out[d].writing
  <2>1. out'[d] = [out[d] EXCEPT !.writing = Tail(w)] /\ wire' = [wire EXCEPT ![d] = Append(@, Head(w))]
    BY <1>1, <1>6 DEF OutSend, OutChange
  <2>2. w \in Seq(Packet) /\ w # <<>> /\ out[d].pc = "open"
    BY <1>2, <1>6 DEF OutSend, OutRecord
  <2>3. Range(w) = {Head(w)} \cup Range(Tail(w)) /\ Head(w) \in Packet
    BY <2>2, RangeHeadTail
  <2>4. wire'[d] = Append(wire[d], Head(w)) /\ \A k \in Dst \ {d} : wire'[k] = wire[k]
    BY <1>1, <2>1
  <2>5. Range(wire'[d]) = Range(wire[d]) \cup {Head(w)}
    BY <1>1, <2>3, <2>4, RangeAppend
  <2>6. /\ out'[d].q = out[d].q /\ out'[d].writing = Tail(w) /\ out'[d].pc = "open"
        /\ out'[d].run = out[d].run
    BY <1>2, <2>1, <2>2 DEF OutRecord
  <2>7. out'[d] # Gone
    <3>1. Tail(w) \in Seq(Packet)
      BY <2>2
    <3>2. out'[d] \in OutRecord
      BY <1>2, <2>1, <3>1 DEF OutRecord
    <3> QED BY <3>2, GoneAssumption
  <2>8. Waiting(out'[d]) = Range(out[d].q) \cup Range(Tail(w))
    BY <2>6, <2>7 DEF Waiting
  <2>9. Waiting(out[d]) = Range(out[d].q) \cup Range(w)
    BY <1>2 DEF Waiting
  <2>10. Working(out'[d])
    BY <1>3, <2>6 DEF Working
  <2> QED BY <1>2, <1>4, <1>5, <2>3, <2>4, <2>5, <2>8, <2>9, <2>10
<1>7. CASE OutSwap(d)
  <2>1. out'[d] = [out[d] EXCEPT !.writing = out[d].q, !.q = <<>>] /\ wire' = wire
    BY <1>1, <1>7 DEF OutSwap, OutChange
  <2>2. out[d].writing = <<>> /\ out[d].pc = "open"
    BY <1>7 DEF OutSwap
  <2>3. /\ out'[d].q = <<>> /\ out'[d].writing = out[d].q /\ out'[d].pc = "open"
        /\ out'[d].run = out[d].run
    BY <1>2, <2>1, <2>2 DEF OutRecord
  <2>4. out'[d] # Gone
    <3>1. <<>> \in Seq(Packet) /\ out[d].q \in Seq(Packet)
      BY <1>2 DEF OutRecord
    <3>2. out'[d] \in OutRecord
      BY <1>2, <2>1, <3>1 DEF OutRecord
    <3> QED BY <3>2, GoneAssumption
  <2>5. Waiting(out'[d]) = Waiting(out[d])
    BY <1>2, <2>2, <2>3, <2>4, RangeEmpty DEF Waiting
  <2>6. Working(out'[d])
    BY <1>3, <2>3 DEF Working
  <2> QED BY <1>2, <1>4, <1>5, <2>1, <2>5, <2>6
<1>8. CASE OutLoop(d) \/ OutOpen(d) \/ OutClose(d) \/ OutWhile(d)
  <2>1. /\ out'[d].q = out[d].q /\ out'[d].writing = out[d].writing /\ out'[d].run = out[d].run
        /\ out[d].pc # "open"
        /\ out'[d].opened => out[d].opened \/ out'[d].pc = "open"
        /\ out'[d] \in OutRecord
    <3>1. CASE OutLoop(d)
      <4>1. out'[d] = [out[d] EXCEPT !.pc = "opening", !.state = "connecting"] /\ out[d].pc = "loop"
        BY <1>1, <3>1 DEF OutLoop, OutChange
      <4> QED BY <1>2, <4>1 DEF OutRecord, State
    <3>2. CASE OutOpen(d)
      <4>1. /\ out[d].pc = "opening"
            /\ \/ out'[d] = [out[d] EXCEPT !.pc = "open", !.state = "connected", !.qEnabled = TRUE,
                                           !.opened = TRUE]
               \/ out'[d] = [out[d] EXCEPT !.pc = "close"]
        BY <1>1, <3>2 DEF OutOpen, OutChange
      <4> QED BY <1>2, <4>1 DEF OutRecord, State
    <3>3. CASE OutClose(d)
      <4>1. /\ out[d].pc = "close"
            /\ out'[d] = [out[d] EXCEPT !.state = "not_connected", !.qEnabled = FALSE,
                                        !.pc = IF reconnects THEN "while" ELSE "ended"]
        BY <1>1, <3>3 DEF OutClose, OutChange
      <4> QED BY <1>2, <4>1 DEF OutRecord, State
    <3>4. CASE OutWhile(d)
      <4>1. /\ out[d].pc = "while"
            /\ out'[d] = [out[d] EXCEPT !.pc = IF out[d].run THEN "loop" ELSE "ended"]
        BY <1>1, <3>4 DEF OutWhile, OutChange
      <4> QED BY <1>2, <4>1 DEF OutRecord
    <3> QED BY <1>8, <3>1, <3>2, <3>3, <3>4
  <2>2. out'[d] # Gone
    BY <2>1, GoneAssumption
  <2>3. Waiting(out'[d]) = Waiting(out[d])
    BY <1>2, <2>1, <2>2 DEF Waiting
  <2>4. Working(out'[d])
    BY <1>3, <2>1 DEF Working
  <2>5. wire' = wire
    BY <1>8 DEF OutLoop, OutOpen, OutClose, OutWhile
  <2> QED BY <1>2, <1>4, <1>5, <2>3, <2>4, <2>5
<1>9. CASE OutLeave(d)
  BY <1>3, <1>9 DEF OutLeave
<1> QED BY <1>6, <1>7, <1>8, <1>9 DEF Out

\* A packet that is accepted waits; one that is refused changes nothing.
LEMMA SentToKept ==
  ASSUME NEW t \in OutRecord \cup {Gone}, NEW n \in Packet, Working(t)
  PROVE  /\ Working(SentTo(t, n))
         /\ Waiting(SentTo(t, n)) = Waiting(t) \cup (IF Accepts(t) THEN {n} ELSE {})
<1> DEFINE u == IF t = Gone THEN StartedOut ELSE t
<1>1. <<>> \in Seq(Packet)
  OBVIOUS
<1>2. /\ StartedOut \in OutRecord /\ StartedOut.run /\ ~StartedOut.opened /\ StartedOut.qEnabled
      /\ StartedOut.q = <<>> /\ StartedOut.writing = <<>> /\ StartedOut.pc = "loop"
  BY <1>1 DEF StartedOut, OutRecord, State
<1>3. u \in OutRecord /\ u # Gone
  BY <1>2, GoneAssumption
<1>4. Working(u)
  BY <1>2 DEF Working
<1>5. Waiting(u) = Waiting(t)
  BY <1>2, <1>3, RangeEmpty DEF Waiting
<1>6. u.qEnabled = Accepts(t)
  BY <1>2, <1>3 DEF Accepts, OutRecord
<1>7. SentTo(t, n) = IF u.qEnabled THEN [u EXCEPT !.q = Append(u.q, n)] ELSE u
  BY DEF SentTo
<1> HIDE DEF u
<1>8. CASE u.qEnabled
  <2>1. u.q \in Seq(Packet)
    BY <1>3 DEF OutRecord
  <2>2. Append(u.q, n) \in Seq(Packet) /\ Range(Append(u.q, n)) = Range(u.q) \cup {n}
    BY <2>1, RangeAppend
  <2> DEFINE new == [u EXCEPT !.q = Append(u.q, n)]
  <2>3. new \in OutRecord
    BY <1>3, <2>2 DEF OutRecord
  <2>4. new # Gone
    BY <2>3, GoneAssumption
  <2>5. /\ new.q = Append(u.q, n) /\ new.writing = u.writing /\ new.pc = u.pc /\ new.run = u.run
        /\ new.opened = u.opened
    BY <1>3 DEF OutRecord
  <2>6. SentTo(t, n) = new
    BY <1>7, <1>8
  <2> HIDE DEF new
  <2>7. Working(new)
    BY <1>3, <1>4, <2>4, <2>5 DEF Working
  <2>8. Waiting(new) = Waiting(u) \cup {n}
    BY <1>3, <2>2, <2>4, <2>5 DEF Waiting
  <2> QED BY <1>5, <1>6, <1>8, <2>6, <2>7, <2>8
<1>9. CASE ~u.qEnabled
  BY <1>4, <1>5, <1>6, <1>7, <1>9
<1> QED BY <1>8, <1>9

LEMMA RouteKept ==
  ASSUME TypeInv, KeptInv, Route
  PROVE  KeptInv'
<1> SUFFICES ASSUME main'.run PROVE KeptInv'
  BY DEF KeptInv
<1>1. /\ main \in MainRecord /\ out \in [Dst -> OutRecord \cup {Gone}]
      /\ accepted \in [Dst -> SUBSET Packet]
  BY DEF TypeInv, TypeOK
<1>2. main.recvQ \in Seq(Packet) /\ main.recvQ # <<>> /\ main.pc = "route"
  BY <1>1 DEF Route, MainRecord
<1> DEFINE n == Head(main.recvQ)
<1>3. n \in Packet /\ Tail(main.recvQ) \in Seq(Packet)
  BY <1>2, RangeHeadTail
<1>4. /\ out' = [d \in Dst |-> IF d \in To[main.at] THEN SentTo(out[d], n) ELSE out[d]]
      /\ accepted' = [d \in Dst |-> IF d \in To[main.at] /\ Accepts(out[d])
                                    THEN accepted[d] \cup {n} ELSE accepted[d]]
  BY DEF Route
<1>5. UNCHANGED <<wire, unopened>> /\ main' = [main EXCEPT !.recvQ = Tail(main.recvQ)]
  BY DEF Route, MainChange
<1>6. main'.pc = "route" /\ main'.run = main.run
  BY <1>1, <1>2, <1>5 DEF MainRecord
<1>7. /\ \A d \in Dst : Working(out[d])
      /\ \A d \in Dst : accepted[d] = Range(wire[d]) \cup unopened[d] \cup Waiting(out[d])
  BY <1>6 DEF KeptInv
<1> HIDE DEF n
<1>8. ASSUME NEW d \in Dst
      PROVE  Working(out'[d]) /\ accepted'[d] = Range(wire[d]) \cup unopened[d] \cup Waiting(out'[d])
  <2>1. /\ Working(SentTo(out[d], n))
        /\ Waiting(SentTo(out[d], n)) = Waiting(out[d]) \cup (IF Accepts(out[d]) THEN {n} ELSE {})
    BY <1>1, <1>3, <1>7, SentToKept
  <2>2. CASE d \in To[main.at]
    <3>1. /\ out'[d] = SentTo(out[d], n)
          /\ accepted'[d] = IF Accepts(out[d]) THEN accepted[d] \cup {n} ELSE accepted[d]
      BY <1>4, <2>2
    <3> QED BY <1>7, <2>1, <3>1
  <2>3. CASE d \notin To[main.at]
    <3>1. out'[d] = out[d] /\ accepted'[d] = accepted[d]
      BY <1>4, <2>3
    <3> QED BY <1>7, <3>1
  <2> QED BY <2>2, <2>3
<1> QED BY <1>5, <1>6, <1>8 DEF KeptInv, InShutdown

LEMMA VisitOutKept ==
  ASSUME TypeInv, KeptInv, VisitOut
  PROVE  KeptInv'
<1> SUFFICES ASSUME main'.run PROVE KeptInv'
  BY DEF KeptInv
<1>1. main \in MainRecord /\ out \in [Dst -> OutRecord \cup {Gone}] /\ unopened \in [Dst -> SUBSET Packet]
  BY DEF TypeInv, TypeOK
<1>2. main' = [main EXCEPT !.pc = "outs", !.at = 0] /\ UNCHANGED <<wire, accepted>>
  BY DEF VisitOut, MainChange
<1>3. main'.pc = "outs" /\ main'.run = main.run
  BY <1>1, <1>2 DEF MainRecord
<1>4. /\ \A d \in Dst : Working(out[d])
      /\ \A d \in Dst : accepted[d] = Range(wire[d]) \cup unopened[d] \cup Waiting(out[d])
      /\ ~main.running => out[main.at].pc = "ended"
  BY <1>3 DEF KeptInv, VisitOut
<1>5. CASE main.running
  BY <1>2, <1>3, <1>4, <1>5 DEF VisitOut, KeptInv, InShutdown
<1>6. CASE ~main.running
  <2> DEFINE e == main.at
             lost == Range(out[e].q)
  <2>1. e \in Dst /\ out[e] # Gone /\ out[e].pc = "ended"
    BY <1>4, <1>6 DEF VisitOut, TypeInv, MainOK
  <2>2. ~out[e].opened /\ out[e].writing = <<>>
    BY <1>4, <2>1 DEF Working
  <2>3. /\ out' = [out EXCEPT ![e] = Gone]
        /\ unopened' = [unopened EXCEPT ![e] = @ \cup lost]
    BY <1>6, <2>2 DEF VisitOut
  <2>4. Waiting(out[e]) = lost
    BY <2>1, <2>2, RangeEmpty DEF Waiting
  <2> HIDE DEF e, lost
  <2>5. out'[e] = Gone /\ unopened'[e] = unopened[e] \cup lost
    BY <1>1, <2>1, <2>3
  <2>6. \A d \in Dst \ {e} : out'[d] = out[d] /\ unopened'[d] = unopened[d]
    BY <1>1, <2>1, <2>3
  <2>7. Waiting(Gone) = {} /\ Working(Gone)
    BY DEF Waiting, Working
  <2>8. ASSUME NEW d \in Dst
        PROVE  Working(out'[d]) /\ accepted[d] = Range(wire[d]) \cup unopened'[d] \cup Waiting(out'[d])
    <3>1. CASE d = e
      BY <1>4, <2>4, <2>5, <2>7, <3>1
    <3>2. CASE d # e
      BY <1>4, <2>6, <3>2
    <3> QED BY <3>1, <3>2
  <2> QED BY <1>2, <1>3, <2>8 DEF KeptInv, InShutdown
<1> QED BY <1>5, <1>6

LEMMA NextKept ==
  ASSUME TypeInv, KeptInv, [Next]_vars
  PROVE  KeptInv'
<1> SUFFICES ASSUME main'.run PROVE KeptInv'
  BY DEF KeptInv
<1>1. main \in MainRecord /\ out \in [Dst -> OutRecord \cup {Gone}]
  BY DEF TypeInv, TypeOK
<1>2. CASE VisitOut
  BY <1>2, VisitOutKept
<1>3. CASE Route
  BY <1>3, RouteKept
<1>4. ASSUME NEW d \in Dst, Out(d) PROVE KeptInv'
  <2>1. UNCHANGED <<main, accepted, unopened>>
    BY <1>4 DEF Out, OutLoop, OutOpen, OutSwap, OutSend, OutLeave, OutClose, OutWhile, OutChange
  <2>2. /\ ~InShutdown /\ \A k \in Dst : Working(out[k])
        /\ \A k \in Dst : accepted[k] = Range(wire[k]) \cup unopened[k] \cup Waiting(out[k])
        /\ main.pc = "visitOut" /\ ~main.running => out[main.at].pc = "ended"
    BY <2>1 DEF KeptInv
  <2>3. /\ out[d] # Gone /\ out[d].pc # "ended"
        /\ Working(out'[d])
        /\ Range(wire'[d]) \cup Waiting(out'[d]) = Range(wire[d]) \cup Waiting(out[d])
        /\ \A k \in Dst \ {d} : out'[k] = out[k] /\ wire'[k] = wire[k]
    BY <1>4, <2>2, OutKept
  <2>4. ASSUME NEW k \in Dst
        PROVE  Working(out'[k]) /\ accepted[k] = Range(wire'[k]) \cup unopened[k] \cup Waiting(out'[k])
    <3>1. CASE k = d
      BY <2>2, <2>3, <3>1
    <3>2. CASE k # d
      BY <2>2, <2>3, <3>2
    <3> QED BY <3>1, <3>2
  <2>5. main.pc = "visitOut" /\ ~main.running => out'[main.at].pc = "ended"
    <3> SUFFICES ASSUME main.pc = "visitOut", ~main.running PROVE out'[main.at].pc = "ended"
      OBVIOUS
    <3>1. main.at \in Dst
      BY DEF TypeInv, MainOK
    <3> QED BY <2>2, <2>3, <3>1
  <2> QED BY <2>1, <2>2, <2>4, <2>5 DEF KeptInv, InShutdown
<1>5. CASE /\ UNCHANGED <<out, wire, accepted, unopened>> /\ main.run
           /\ main'.pc \notin {"stopOuts", "joinOut", "stopIns", "joinIn", "done"}
           /\ main'.pc = "visitOut" /\ ~main'.running => out[main'.at].pc = "ended"
  BY <1>5 DEF KeptInv, InShutdown
<1>6. ASSUME UNCHANGED <<out, wire, accepted, unopened, main>> PROVE KeptInv'
  BY <1>6 DEF KeptInv, InShutdown
<1>7. ASSUME NEW p \in Port, In(p) \/ InRecv(p) PROVE KeptInv'
  <2>1. UNCHANGED <<out, wire, accepted, unopened, main>>
    BY <1>7 DEF In, InRecv, InLoop, InOpen, InQueue, InLeave, InClose, InChange, sent
  <2> QED BY <2>1, <1>6
<1>8. CASE MuteAll \/ UNCHANGED vars
  <2>1. UNCHANGED <<out, wire, accepted, unopened, main>>
    BY <1>8 DEF MuteAll, sent, vars
  <2> QED BY <2>1, <1>6
<1>9. ASSUME NEW d \in Dst, SampleOut(d) PROVE KeptInv'
  <2>1. /\ main' = [main EXCEPT !.pc = "visitOut", !.at = d, !.todo = @ \ {d},
                                !.running = out[d].pc # "ended"]
        /\ UNCHANGED <<out, wire, accepted, unopened>>
    BY <1>9 DEF SampleOut, MainChange
  <2>2. main'.pc = "visitOut" /\ main'.at = d /\ main'.running = (out[d].pc # "ended") /\ main'.run = main.run
    BY <1>1, <2>1 DEF MainRecord
  <2> QED BY <1>5, <2>1, <2>2
<1>10. ASSUME NEW new, main' = new, UNCHANGED <<out, wire, accepted, unopened>>, new.run = main.run,
              new.pc \in {"top", "ins", "visitIn", "route", "outs"}
       PROVE  KeptInv'
  BY <1>5, <1>10
<1>11. CASE LoopOrStop
  <2>1. main.run
    BY <1>1, <1>11 DEF LoopOrStop, MainChange, MainRecord
  <2>2. /\ main' = [main EXCEPT !.pc = "ins", !.muteIncoming = muteIncoming, !.todo = Existing(in)]
        /\ UNCHANGED <<out, wire, accepted, unopened>>
    BY <1>11, <2>1 DEF LoopOrStop, MainChange
  <2>3. main'.pc = "ins" /\ main'.run = main.run
    BY <1>1, <2>2 DEF MainRecord
  <2> QED BY <1>10, <2>2, <2>3
<1>12. ASSUME NEW p \in Port, SampleIn(p) PROVE KeptInv'
  <2>1. /\ main' = [main EXCEPT !.pc = "visitIn", !.at = p, !.todo = @ \ {p},
                                !.running = in[p].pc # "ended"]
        /\ UNCHANGED <<out, wire, accepted, unopened>>
    BY <1>12 DEF SampleIn, MainChange
  <2>2. main'.pc = "visitIn" /\ main'.run = main.run
    BY <1>1, <2>1 DEF MainRecord
  <2> QED BY <1>10, <2>1, <2>2
<1>13. CASE VisitIn
  <2>1. /\ main' = [main EXCEPT !.pc = "route", !.recvQ = in[main.at].q]
        /\ UNCHANGED <<out, wire, accepted, unopened>>
    BY <1>13 DEF VisitIn, MainChange
  <2>2. main'.pc = "route" /\ main'.run = main.run
    BY <1>1, <2>1 DEF MainRecord
  <2> QED BY <1>10, <2>1, <2>2
<1>14. CASE NextIn
  <2>1. main' = [main EXCEPT !.pc = "ins", !.at = 0] /\ UNCHANGED <<out, wire, accepted, unopened>>
    BY <1>14 DEF NextIn, MainChange
  <2>2. main'.pc = "ins" /\ main'.run = main.run
    BY <1>1, <2>1 DEF MainRecord
  <2> QED BY <1>10, <2>1, <2>2
<1>15. CASE EndOfIns
  <2>1. /\ main' = [main EXCEPT !.pc = "outs", !.todo = Existing(out)]
        /\ UNCHANGED <<out, wire, accepted, unopened>>
    BY <1>15 DEF EndOfIns, MainChange
  <2>2. main'.pc = "outs" /\ main'.run = main.run
    BY <1>1, <2>1 DEF MainRecord
  <2> QED BY <1>10, <2>1, <2>2
<1>16. CASE EndOfLoop
  <2>1. main' = [main EXCEPT !.pc = "top"] /\ UNCHANGED <<out, wire, accepted, unopened>>
    BY <1>16 DEF EndOfLoop, MainChange
  <2>2. main'.pc = "top" /\ main'.run = main.run
    BY <1>1, <2>1 DEF MainRecord
  <2> QED BY <1>10, <2>1, <2>2
<1>17. CASE Stop
  <2>1. main'.run = FALSE
    BY <1>1, <1>17 DEF Stop, MainChange, MainRecord
  <2> QED BY <2>1
<1>18. CASE OutsStopped \/ JoinOut \/ JoinIn \/ Finish
            \/ (\E p \in Port : StopIn(p)) \/ (\E d \in Dst : StopOut(d))
  <2>1. main.pc \in {"stopOuts", "joinOut", "stopIns", "joinIn"}
    BY <1>18 DEF OutsStopped, JoinOut, JoinIn, Finish, StopIn, StopOut
  <2>2. main'.run = main.run
    <3>1. CASE OutsStopped
      BY <1>1, <3>1 DEF OutsStopped, MainChange, MainRecord
    <3>2. CASE JoinOut
      BY <1>1, <3>2 DEF JoinOut, MainChange, MainRecord
    <3>3. CASE JoinIn
      BY <1>1, <3>3 DEF JoinIn, MainChange, MainRecord
    <3>4. CASE Finish
      BY <1>1, <3>4 DEF Finish, MainChange, MainRecord
    <3>5. CASE \E p \in Port : StopIn(p)
      BY <1>1, <3>5 DEF StopIn, MainChange, MainRecord
    <3>6. CASE \E d \in Dst : StopOut(d)
      BY <1>1, <3>6 DEF StopOut, MainChange, MainRecord
    <3> QED BY <1>18, <3>1, <3>2, <3>3, <3>4, <3>5, <3>6
  <2> QED BY <2>1, <2>2 DEF KeptInv, InShutdown
<1> QED BY <1>2, <1>3, <1>4, <1>7, <1>8, <1>9, <1>11, <1>12, <1>13, <1>14, <1>15, <1>16, <1>17, <1>18
        DEF Next, Main

LEMMA KeptAccepted == TypeInv /\ KeptInv => AcceptedIsKept
<1> SUFFICES ASSUME TypeInv, KeptInv, main.run, NEW d \in Dst
             PROVE  accepted[d] = Range(wire[d]) \cup unopened[d] \cup
                      (IF out[d] = Gone THEN {} ELSE Range(out[d].q \o out[d].writing))
  BY DEF AcceptedIsKept
<1>1. accepted[d] = Range(wire[d]) \cup unopened[d] \cup Waiting(out[d])
  BY DEF KeptInv
<1>2. CASE out[d] = Gone
  BY <1>1, <1>2 DEF Waiting
<1>3. CASE out[d] # Gone
  <2>1. out[d].q \in Seq(Packet) /\ out[d].writing \in Seq(Packet)
    BY <1>3 DEF TypeInv, TypeOK, OutRecord
  <2>2. Range(out[d].q \o out[d].writing) = Range(out[d].q) \cup Range(out[d].writing)
    BY <2>1, RangeConcat
  <2> QED BY <1>1, <1>3, <2>2 DEF Waiting
<1> QED BY <1>2, <1>3

\* Until the router is stopped, what Send has taken for a destination is on the wire, in a
\* queue of its thread, or went with a thread that never opened, over any number of
\* reconnections, deletions and new threads.
THEOREM AcceptedKept == Spec => []AcceptedIsKept
<1>1. TypeInv /\ KeptInv /\ [Next]_vars => KeptInv'
  BY NextKept
<1> QED BY <1>1, InitKept, KeptAccepted, InitTypeInv, NextTypeInv, PTL DEF Spec

-----------------------------------------------------------------------------
(* EndedIsShown.  The router thread asks isRunning before GetState, and    *)
(* run() sets its last state before it ends: what it says of a thread it   *)
(* is going to delete is the state of a thread that has ended.             *)

\* Of threads that have not been told to stop.
LastIn(t) == t # Gone => t.run /\ (t.pc = "ended" => t.state = "not_connected")
LastOut(t) == t # Gone => t.run /\ (t.pc \in {"while", "ended"} => t.state = "not_connected")

\* What is shown of the threads that are gone.
ShownIn(t, state) == t = Gone => state = "not_connected"
ShownOut(t, state) == t = Gone => state \in {"not_connected", "uninitialized"}

ShownInv ==
  ~InShutdown =>
    /\ \A p \in Port : LastIn(in[p]) /\ ShownIn(in[p], shown.in[p])
    /\ \A d \in Dst : LastOut(out[d]) /\ ShownOut(out[d], shown.out[d])
    /\ main.pc = "visitIn" /\ ~main.running => in[main.at].pc = "ended"
    /\ main.pc = "route" /\ ~main.running => shown.in[main.at] = "not_connected"
    /\ main.pc = "visitOut" /\ ~main.running => out[main.at].pc = "ended"

LEMMA InitShown == Init => ShownInv
<1> SUFFICES ASSUME Init PROVE ShownInv
  OBVIOUS
<1>1. \A p \in Port : LastIn(in[p]) /\ in[p] # Gone
  <2>1. <<>> \in Seq(Packet)
    OBVIOUS
  <2>2. StartedIn(muteIncoming) \in InRecord
    BY <2>1 DEF StartedIn, InRecord, State, Init
  <2> QED BY <2>2, GoneAssumption DEF Init, LastIn, StartedIn
<1>2. \A d \in Dst : LastOut(out[d]) /\ shown.out[d] = "uninitialized"
  BY DEF Init, LastOut, StartedOut
<1> QED BY <1>1, <1>2 DEF Init, ShownInv, ShownIn, ShownOut

\* A step of an input thread, which has not ended.
LEMMA InShown ==
  ASSUME TypeInv, ShownInv, NEW p \in Port, In(p) \/ InRecv(p)
  PROVE  ShownInv'
<1> SUFFICES ASSUME ~InShutdown PROVE ShownInv'
  BY DEF ShownInv, InShutdown, In, InRecv, InLoop, InOpen, InQueue, InLeave, InClose, InChange
<1>1. in \in [Port -> InRecord \cup {Gone}]
  BY DEF TypeInv, TypeOK
<1>2. /\ in[p] # Gone /\ in[p] \in InRecord /\ UNCHANGED <<out, main, shown>>
      /\ \E new : in' = [in EXCEPT ![p] = new]
  BY <1>1 DEF In, InRecv, InLoop, InOpen, InQueue, InLeave, InClose, InChange
<1>3. in[p].run /\ (in[p].pc = "ended" => in[p].state = "not_connected")
  BY <1>2 DEF ShownInv, LastIn
<1>4. /\ in'[p].run
      /\ in'[p].pc = "ended" => in'[p].state = "not_connected"
      /\ in[p].pc = "ended" => in'[p].pc = "ended"
  <2>2. CASE InLoop(p)
    <3>1. in'[p] = [in[p] EXCEPT !.pc = "opening", !.state = "connecting"] /\ in[p].pc = "loop"
      BY <1>1, <1>3, <2>2 DEF InLoop, InChange
    <3> QED BY <1>2, <1>3, <3>1 DEF InRecord
  <2>3. CASE InOpen(p)
    <3>1. /\ in[p].pc = "opening"
          /\ \/ in'[p] = [in[p] EXCEPT !.pc = "open", !.state = "connected"]
             \/ in'[p] = [in[p] EXCEPT !.pc = "close"]
      BY <1>1, <2>3 DEF InOpen, InChange
    <3> QED BY <1>2, <1>3, <3>1 DEF InRecord
  <2>4. CASE InRecv(p)
    <3>1. /\ in'[p] = [in[p] EXCEPT !.held = IF in[p].mute THEN 0 ELSE Len(from) + 1]
          /\ in[p].pc = "open"
      BY <1>1, <2>4 DEF InRecv, InChange
    <3> QED BY <1>2, <1>3, <3>1 DEF InRecord
  <2>5. CASE InQueue(p)
    <3>1. in'[p] = [in[p] EXCEPT !.held = 0, !.q = Append(in[p].q, in[p].held)]
      BY <1>1, <2>5 DEF InQueue, InChange
    <3>2. in'[p].pc = in[p].pc /\ in'[p].run = in[p].run /\ in'[p].state = in[p].state
      BY <1>2, <3>1 DEF InRecord
    <3> QED BY <1>3, <3>2
  <2>6. CASE InLeave(p)
    BY <1>1, <1>3, <2>6 DEF InLeave
  <2>7. CASE InClose(p)
    <3>1. /\ in[p].pc = "close"
          /\ in'[p] = [in[p] EXCEPT !.state = "not_connected",
                                    !.pc = IF reconnects THEN "loop" ELSE "ended"]
      BY <1>1, <2>7 DEF InClose, InChange
    <3> QED BY <1>2, <1>3, <3>1 DEF InRecord
  <2> QED BY <2>2, <2>3, <2>4, <2>5, <2>6, <2>7 DEF In
<1>5. in'[p] # Gone
  BY InTypeInv
<1>6. \A k \in Port \ {p} : in'[k] = in[k]
  BY <1>1, <1>2
<1>7. ASSUME NEW k \in Port PROVE LastIn(in'[k]) /\ ShownIn(in'[k], shown.in[k])
  <2>1. CASE k = p
    BY <1>4, <1>5, <2>1 DEF LastIn, ShownIn
  <2>2. CASE k # p
    BY <1>6, <2>2 DEF ShownInv
  <2> QED BY <2>1, <2>2
<1>8. main.pc = "visitIn" /\ ~main.running => in'[main.at].pc = "ended"
  <2> SUFFICES ASSUME main.pc = "visitIn", ~main.running PROVE in'[main.at].pc = "ended"
    OBVIOUS
  <2>1. main.at \in Port /\ in[main.at].pc = "ended"
    BY DEF TypeInv, MainOK, ShownInv
  <2> QED BY <1>4, <1>6, <2>1
<1> QED BY <1>2, <1>7, <1>8 DEF ShownInv, InShutdown

\* A step of an output thread, which has not ended.
LEMMA OutShown ==
  ASSUME TypeInv, ShownInv, NEW d \in Dst, Out(d)
  PROVE  ShownInv'
<1>0. UNCHANGED <<in, main, shown>> /\ \E new : out' = [out EXCEPT ![d] = new]
  BY DEF Out, OutLoop, OutOpen, OutSwap, OutSend, OutLeave, OutClose, OutWhile, OutChange
<1> SUFFICES ASSUME ~InShutdown PROVE ShownInv'
  BY <1>0 DEF ShownInv, InShutdown
<1>1. out \in [Dst -> OutRecord \cup {Gone}]
  BY DEF TypeInv, TypeOK
<1>2. out[d] # Gone /\ out[d] \in OutRecord /\ out[d].pc # "ended"
  BY <1>1 DEF Out, OutLoop, OutOpen, OutSwap, OutSend, OutLeave, OutClose, OutWhile
<1>3. out[d].run /\ (out[d].pc = "while" => out[d].state = "not_connected")
  BY <1>2 DEF ShownInv, LastOut
<1>4. /\ out'[d].run
      /\ out'[d].pc \in {"while", "ended"} => out'[d].state = "not_connected"
  <2>1. CASE OutLoop(d)
    <3>1. out'[d] = [out[d] EXCEPT !.pc = "opening", !.state = "connecting"]
      BY <1>1, <2>1 DEF OutLoop, OutChange
    <3> QED BY <1>2, <1>3, <3>1 DEF OutRecord
  <2>2. CASE OutOpen(d)
    <3>1. \/ out'[d] = [out[d] EXCEPT !.pc = "open", !.state = "connected", !.qEnabled = TRUE,
                                      !.opened = TRUE]
          \/ out'[d] = [out[d] EXCEPT !.pc = "close"]
      BY <1>1, <2>2 DEF OutOpen, OutChange
    <3>2. out'[d].run = out[d].run /\ out'[d].pc \in {"open", "close"}
      BY <1>2, <3>1 DEF OutRecord
    <3> QED BY <1>3, <3>2
  <2>3. CASE OutSwap(d)
    <3>1. out'[d] = [out[d] EXCEPT !.writing = out[d].q, !.q = <<>>]
      BY <1>1, <2>3 DEF OutSwap, OutChange
    <3> QED BY <1>2, <1>3, <2>3, <3>1 DEF OutRecord, OutSwap
  <2>4. CASE OutSend(d)
    <3>1. out'[d] = [out[d] EXCEPT !.writing = Tail(out[d].writing)] /\ out[d].pc = "open"
      BY <1>1, <2>4 DEF OutSend, OutChange
    <3> QED BY <1>2, <1>3, <3>1 DEF OutRecord
  <2>5. CASE OutLeave(d)
    BY <1>3, <2>5 DEF OutLeave
  <2>6. CASE OutClose(d)
    <3>1. out'[d] = [out[d] EXCEPT !.state = "not_connected", !.qEnabled = FALSE,
                                   !.pc = IF reconnects THEN "while" ELSE "ended"]
      BY <1>1, <2>6 DEF OutClose, OutChange
    <3> QED BY <1>2, <1>3, <3>1 DEF OutRecord
  <2>7. CASE OutWhile(d)
    <3>1. out[d].pc = "while" /\ out'[d] = [out[d] EXCEPT !.pc = IF out[d].run THEN "loop" ELSE "ended"]
      BY <1>1, <2>7 DEF OutWhile, OutChange
    <3> QED BY <1>2, <1>3, <3>1 DEF OutRecord
  <2> QED BY <2>1, <2>2, <2>3, <2>4, <2>5, <2>6, <2>7 DEF Out
<1>5. out'[d] # Gone
  BY OutTypeInv
<1>6. \A k \in Dst \ {d} : out'[k] = out[k]
  BY <1>0, <1>1
<1>7. ASSUME NEW k \in Dst PROVE LastOut(out'[k]) /\ ShownOut(out'[k], shown.out[k])
  <2>1. CASE k = d
    BY <1>4, <1>5, <2>1 DEF LastOut, ShownOut
  <2>2. CASE k # d
    BY <1>6, <2>2 DEF ShownInv
  <2> QED BY <2>1, <2>2
<1>8. main.pc = "visitOut" /\ ~main.running => out'[main.at].pc = "ended"
  <2> SUFFICES ASSUME main.pc = "visitOut", ~main.running PROVE out'[main.at].pc = "ended"
    OBVIOUS
  <2>1. main.at \in Dst /\ out[main.at].pc = "ended"
    BY DEF TypeInv, MainOK, ShownInv
  <2> QED BY <1>2, <1>6, <2>1
<1> QED BY <1>0, <1>7, <1>8 DEF ShownInv, InShutdown

\* The router thread at an input thread: it reports, and then deletes.
LEMMA AtInShown ==
  ASSUME TypeInv, ShownInv, VisitIn \/ NextIn
  PROVE  ShownInv'
<1>1. /\ main \in MainRecord /\ in \in [Port -> InRecord \cup {Gone}]
      /\ shown \in [in: [Port -> State], out: [Dst -> State]]
  BY DEF TypeInv, TypeOK
<1>2. main.pc \in {"visitIn", "route"} /\ ~InShutdown /\ UNCHANGED out
  BY DEF VisitIn, NextIn, InShutdown
<1>3. main.at \in Port /\ in[main.at] # Gone
  BY <1>2 DEF TypeInv, MainOK
<1>4. CASE VisitIn
  <2> DEFINE p == main.at
             new == [in[p] EXCEPT !.mute = main.muteIncoming, !.q = <<>>]
  <2>1. in[p] \in InRecord
    BY <1>1, <1>3
  <2>2. new.run = in[p].run /\ new.pc = in[p].pc /\ new.state = in[p].state
    BY <2>1 DEF InRecord
  <2>3. new # Gone
    <3>1. <<>> \in Seq(Packet)
      OBVIOUS
    <3>2. new \in InRecord
      BY <1>1, <2>1, <3>1 DEF InRecord, MainRecord
    <3> QED BY <3>2, GoneAssumption
  <2>4. in' = [in EXCEPT ![p] = new]
    BY <1>1, <1>3, <1>4 DEF VisitIn
  <2>5. main' = [main EXCEPT !.pc = "route", !.recvQ = in[p].q] /\ main.pc = "visitIn"
    BY <1>4 DEF VisitIn, MainChange
  <2>6. shown' = [shown EXCEPT !.in[p] = in[p].state]
    BY <1>4 DEF VisitIn
  <2>7. p \in Port /\ p = main.at
    BY <1>3
  <2> HIDE DEF p, new
  <2>8. main'.pc = "route" /\ main'.at = p /\ main'.running = main.running
    BY <1>1, <2>5, <2>7 DEF MainRecord
  <2>9. /\ shown'.in[p] = in[p].state /\ shown'.out = shown.out
        /\ \A k \in Port \ {p} : shown'.in[k] = shown.in[k]
    BY <1>1, <2>6, <2>7
  <2>10. in'[p] = new /\ \A k \in Port \ {p} : in'[k] = in[k]
    BY <1>1, <2>4, <2>7
  <2>11. ASSUME NEW k \in Port PROVE LastIn(in'[k]) /\ ShownIn(in'[k], shown'.in[k])
    <3>1. CASE k = p
      BY <1>2, <1>3, <2>2, <2>3, <2>7, <2>10, <3>1 DEF ShownInv, LastIn, ShownIn
    <3>2. CASE k # p
      BY <1>2, <2>9, <2>10, <3>2 DEF ShownInv
    <3> QED BY <3>1, <3>2
  <2>12. ~main.running => in[p].state = "not_connected"
    BY <1>2, <1>3, <2>5, <2>7 DEF ShownInv, LastIn
  <2> QED BY <1>2, <2>8, <2>9, <2>11, <2>12 DEF ShownInv, InShutdown
<1>5. CASE NextIn
  <2>1. /\ main' = [main EXCEPT !.pc = "ins", !.at = 0] /\ UNCHANGED shown /\ main.pc = "route"
        /\ in' = IF main.running THEN in ELSE [in EXCEPT ![main.at] = Gone]
    BY <1>5 DEF NextIn, MainChange
  <2>2. main'.pc = "ins"
    BY <1>1, <2>1 DEF MainRecord
  <2>3. ASSUME NEW k \in Port PROVE LastIn(in'[k]) /\ ShownIn(in'[k], shown.in[k])
    <3>1. CASE in'[k] = in[k]
      BY <1>2, <3>1 DEF ShownInv
    <3>2. CASE in'[k] # in[k]
      <4>1. ~main.running /\ k = main.at /\ in'[k] = Gone
        BY <1>1, <1>3, <2>1, <3>2
      <4> QED BY <1>2, <2>1, <4>1 DEF ShownInv, LastIn, ShownIn
    <3> QED BY <3>1, <3>2
  <2> QED BY <1>2, <2>1, <2>2, <2>3 DEF ShownInv, InShutdown
<1> QED BY <1>4, <1>5

\* The router thread at an output thread.
LEMMA VisitOutShown ==
  ASSUME TypeInv, ShownInv, VisitOut
  PROVE  ShownInv'
<1>1. /\ main \in MainRecord /\ out \in [Dst -> OutRecord \cup {Gone}]
      /\ shown \in [in: [Port -> State], out: [Dst -> State]]
  BY DEF TypeInv, TypeOK
<1>2. main.pc = "visitOut" /\ ~InShutdown /\ UNCHANGED in
  BY DEF VisitOut, InShutdown
<1>3. main.at \in Dst /\ out[main.at] # Gone
  BY <1>2 DEF TypeInv, MainOK
<1> DEFINE e == main.at
<1>4. /\ shown' = [shown EXCEPT !.out[e] = out[e].state]
      /\ main' = [main EXCEPT !.pc = "outs", !.at = 0]
      /\ out' = out \/ (~main.running /\ out' = [out EXCEPT ![e] = Gone])
  BY DEF VisitOut, MainChange
<1>5. main'.pc = "outs"
  BY <1>1, <1>4 DEF MainRecord
<1>6. e \in Dst /\ out[e] # Gone /\ (~main.running => out[e].state = "not_connected")
  BY <1>2, <1>3 DEF ShownInv, LastOut
<1> HIDE DEF e
<1>7. /\ shown'.out[e] = out[e].state /\ shown'.in = shown.in
      /\ \A k \in Dst \ {e} : shown'.out[k] = shown.out[k]
  BY <1>1, <1>4, <1>6
<1>8. ASSUME NEW k \in Dst PROVE LastOut(out'[k]) /\ ShownOut(out'[k], shown'.out[k])
  <2>1. CASE k = e /\ out' = out
    BY <1>2, <1>6, <2>1 DEF ShownInv, ShownOut
  <2>2. CASE k = e /\ out' # out
    <3>1. ~main.running /\ out'[k] = Gone
      BY <1>1, <1>4, <1>6, <2>2
    <3> QED BY <1>6, <1>7, <2>2, <3>1 DEF LastOut, ShownOut
  <2>3. CASE k # e
    <3>1. out'[k] = out[k]
      BY <1>1, <1>4, <1>6, <2>3
    <3> QED BY <1>2, <1>7, <2>3, <3>1 DEF ShownInv
  <2> QED BY <2>1, <2>2, <2>3
<1> QED BY <1>2, <1>5, <1>7, <1>8 DEF ShownInv, InShutdown

\* A thread that a packet starts has nothing to report yet.
LEMMA RouteShown ==
  ASSUME TypeInv, ShownInv, Route
  PROVE  ShownInv'
<1>1. /\ main \in MainRecord /\ out \in [Dst -> OutRecord \cup {Gone}]
      /\ \A d \in Dst : out[d] # Gone /\ out[d].pc = "open" => out[d].qEnabled
  BY DEF TypeInv, TypeOK
<1>2. main.pc = "route" /\ ~InShutdown /\ UNCHANGED <<in, shown>>
  BY DEF Route, InShutdown
<1>3. main' = [main EXCEPT !.recvQ = Tail(main.recvQ)]
  BY DEF Route, MainChange
<1>4. main'.pc = "route" /\ main'.running = main.running /\ main'.at = main.at
  BY <1>1, <1>2, <1>3 DEF MainRecord
<1> DEFINE n == Head(main.recvQ)
<1>5. out' = [d \in Dst |-> IF d \in To[main.at] THEN SentTo(out[d], n) ELSE out[d]]
  BY DEF Route
<1>6. main.recvQ \in Seq(Packet) /\ main.recvQ # <<>>
  BY <1>1 DEF Route, MainRecord
<1>7. n \in Packet
  BY <1>6, RangeHeadTail
<1> HIDE DEF n
<1>8. ASSUME NEW d \in Dst PROVE LastOut(out'[d]) /\ ShownOut(out'[d], shown.out[d])
  <2>1. LastOut(out[d]) /\ ShownOut(out[d], shown.out[d])
    BY <1>2 DEF ShownInv
  <2> DEFINE u == IF out[d] = Gone THEN StartedOut ELSE out[d]
  <2>2. <<>> \in Seq(Packet)
    OBVIOUS
  <2>3. StartedOut \in OutRecord /\ StartedOut.run /\ StartedOut.pc = "loop"
    BY <2>2 DEF StartedOut, OutRecord, State
  <2>4. u \in OutRecord /\ u.run /\ (u.pc \in {"while", "ended"} => u.state = "not_connected")
    BY <1>1, <2>1, <2>3 DEF LastOut
  <2>5. SentTo(out[d], n) = IF u.qEnabled THEN [u EXCEPT !.q = Append(u.q, n)] ELSE u
    BY DEF SentTo
  <2>6. SentTo(out[d], n) \in OutRecord
    BY <1>1, <1>7, SentToThread
  <2> HIDE DEF u
  <2>7. LastOut(SentTo(out[d], n))
    BY <2>4, <2>5 DEF LastOut, OutRecord
  <2>8. SentTo(out[d], n) # Gone
    BY <2>6, GoneAssumption
  <2>9. out'[d] = SentTo(out[d], n) \/ out'[d] = out[d]
    BY <1>5
  <2> QED BY <2>1, <2>7, <2>8, <2>9 DEF ShownOut
<1> QED BY <1>2, <1>4, <1>8 DEF ShownInv, InShutdown

\* The steps of the router thread that leave the threads and the states shown as they are,
\* and the steps of the shutdown.
LEMMA WalkShown ==
  ASSUME TypeInv, ShownInv,
         \/ LoopOrStop \/ EndOfIns \/ EndOfLoop \/ Stop \/ OutsStopped \/ Finish \/ JoinOut \/ JoinIn
         \/ \E p \in Port : SampleIn(p) \/ StopIn(p)
         \/ \E d \in Dst : SampleOut(d) \/ StopOut(d)
  PROVE  ShownInv'
<1>1. main \in MainRecord
  BY DEF TypeInv, TypeOK
<1>2. ASSUME UNCHANGED <<in, out, shown>>, ~InShutdown,
             \/ main'.pc \in {"top", "ins", "outs"}
             \/ main'.pc = "visitIn" /\ (~main'.running => in[main'.at].pc = "ended")
             \/ main'.pc = "visitOut" /\ (~main'.running => out[main'.at].pc = "ended")
             \/ main'.pc = main.pc /\ main'.at = main.at /\ main'.running = main.running
      PROVE  ShownInv'
  BY <1>2 DEF ShownInv, InShutdown
<1>3. CASE LoopOrStop
  <2>1. UNCHANGED <<in, out, shown>> /\ ~InShutdown
    BY <1>3 DEF LoopOrStop, InShutdown
  <2>2. main'.pc \in {"ins", "stopOuts"}
    <3>1. \/ main' = [main EXCEPT !.pc = "ins", !.muteIncoming = muteIncoming, !.todo = Existing(in)]
          \/ main' = [main EXCEPT !.pc = "stopOuts", !.todo = Existing(out)]
      BY <1>3 DEF LoopOrStop, MainChange
    <3> QED BY <1>1, <3>1 DEF MainRecord
  <2> QED BY <1>2, <2>1, <2>2 DEF ShownInv, InShutdown
<1>4. CASE EndOfIns
  <2>1. main' = [main EXCEPT !.pc = "outs", !.todo = Existing(out)]
    BY <1>4 DEF EndOfIns, MainChange
  <2>2. main'.pc = "outs"
    BY <1>1, <2>1 DEF MainRecord
  <2> QED BY <1>2, <1>4, <2>2 DEF EndOfIns, InShutdown
<1>5. CASE EndOfLoop
  <2>1. main' = [main EXCEPT !.pc = "top"]
    BY <1>5 DEF EndOfLoop, MainChange
  <2>2. main'.pc = "top"
    BY <1>1, <2>1 DEF MainRecord
  <2> QED BY <1>2, <1>5, <2>2 DEF EndOfLoop, InShutdown
<1>6. CASE Stop
  <2>1. main' = [main EXCEPT !.run = FALSE] /\ UNCHANGED <<in, out, shown>>
    BY <1>6 DEF Stop, MainChange
  <2>2. main'.pc = main.pc /\ main'.at = main.at /\ main'.running = main.running
    BY <1>1, <2>1 DEF MainRecord
  <2> QED BY <1>2, <2>1, <2>2 DEF ShownInv, InShutdown
<1>7. ASSUME NEW p \in Port, SampleIn(p) PROVE ShownInv'
  <2>1. main' = [main EXCEPT !.pc = "visitIn", !.at = p, !.todo = @ \ {p},
                             !.running = in[p].pc # "ended"]
    BY <1>7 DEF SampleIn, MainChange
  <2>2. main'.pc = "visitIn" /\ main'.at = p /\ main'.running = (in[p].pc # "ended")
    BY <1>1, <2>1 DEF MainRecord
  <2> QED BY <1>2, <1>7, <2>2 DEF SampleIn, InShutdown
<1>8. ASSUME NEW d \in Dst, SampleOut(d) PROVE ShownInv'
  <2>1. main' = [main EXCEPT !.pc = "visitOut", !.at = d, !.todo = @ \ {d},
                             !.running = out[d].pc # "ended"]
    BY <1>8 DEF SampleOut, MainChange
  <2>2. main'.pc = "visitOut" /\ main'.at = d /\ main'.running = (out[d].pc # "ended")
    BY <1>1, <2>1 DEF MainRecord
  <2> QED BY <1>2, <1>8, <2>2 DEF SampleOut, InShutdown
<1>9. CASE OutsStopped \/ Finish \/ JoinOut \/ JoinIn \/ (\E p \in Port : StopIn(p))
           \/ (\E d \in Dst : StopOut(d))
  <2>1. main'.pc \in {"stopOuts", "joinOut", "stopIns", "joinIn", "done"}
    <3>1. \E pc \in {"stopOuts", "joinOut", "stopIns", "joinIn", "done"} : \E place, todo :
            main' = [main EXCEPT !.pc = pc, !.at = place, !.todo = todo]
      <4>1. CASE OutsStopped
        <5>1. main' = [main EXCEPT !.pc = "stopIns", !.at = main.at, !.todo = Existing(in)]
          BY <1>1, <4>1 DEF OutsStopped, MainChange, MainRecord
        <5> QED BY <5>1
      <4>2. CASE Finish
        <5>1. main' = [main EXCEPT !.pc = "done", !.at = main.at, !.todo = main.todo]
          BY <1>1, <4>2 DEF Finish, MainChange, MainRecord
        <5> QED BY <5>1
      <4>3. CASE JoinOut
        <5>1. main' = [main EXCEPT !.pc = "stopOuts", !.at = 0, !.todo = main.todo]
          BY <1>1, <4>3 DEF JoinOut, MainChange, MainRecord
        <5> QED BY <5>1
      <4>4. CASE JoinIn
        <5>1. main' = [main EXCEPT !.pc = "stopIns", !.at = 0, !.todo = main.todo]
          BY <1>1, <4>4 DEF JoinIn, MainChange, MainRecord
        <5> QED BY <5>1
      <4>5. ASSUME NEW p \in Port, StopIn(p)
            PROVE  main' = [main EXCEPT !.pc = "joinIn", !.at = p, !.todo = main.todo \ {p}]
        BY <4>5 DEF StopIn, MainChange
      <4>6. ASSUME NEW d \in Dst, StopOut(d)
            PROVE  main' = [main EXCEPT !.pc = "joinOut", !.at = d, !.todo = main.todo \ {d}]
        BY <4>6 DEF StopOut, MainChange
      <4> QED BY <1>9, <4>1, <4>2, <4>3, <4>4, <4>5, <4>6
    <3> QED BY <1>1, <3>1 DEF MainRecord
  <2> QED BY <2>1 DEF ShownInv, InShutdown
<1> QED BY <1>3, <1>4, <1>5, <1>6, <1>7, <1>8, <1>9

LEMMA NextShown ==
  ASSUME TypeInv, ShownInv, [Next]_vars
  PROVE  ShownInv'
<1>1. CASE \E p \in Port : In(p) \/ InRecv(p)
  BY <1>1, InShown
<1>2. CASE \E d \in Dst : Out(d)
  BY <1>2, OutShown
<1>3. CASE VisitIn \/ NextIn
  BY <1>3, AtInShown
<1>4. CASE VisitOut
  BY <1>4, VisitOutShown
<1>5. CASE Route
  BY <1>5, RouteShown
<1>6. CASE \/ LoopOrStop \/ EndOfIns \/ EndOfLoop \/ Stop \/ OutsStopped \/ Finish \/ JoinOut \/ JoinIn
           \/ \E p \in Port : SampleIn(p) \/ StopIn(p)
           \/ \E d \in Dst : SampleOut(d) \/ StopOut(d)
  BY <1>6, WalkShown
<1>7. CASE MuteAll \/ UNCHANGED vars
  BY <1>7 DEF MuteAll, vars, ShownInv, InShutdown
<1> QED BY <1>1, <1>2, <1>3, <1>4, <1>5, <1>6, <1>7 DEF Next, Main

\* Until the threads are stopped, whatever the interleaving of their last steps with the
\* router's visit, a deleted thread has been reported as not connected.
THEOREM EndedShown == Spec => []EndedIsShown
<1>1. ShownInv => EndedIsShown
  BY DEF ShownInv, EndedIsShown, InShutdown, ShownIn, ShownOut
<1>2. TypeInv /\ ShownInv /\ [Next]_vars => ShownInv'
  BY NextShown
<1> QED BY <1>1, <1>2, InitShown, InitTypeInv, NextTypeInv, PTL DEF Spec

-----------------------------------------------------------------------------
(* Order: packets pass through the queues of a port, the router thread and *)
(* the queues of a destination without overtaking each other.              *)

\* In s, and from the set s to the set t, packets of a port come in the order of their numbers;
\* f is the port of every packet.
Ordered(f, s) == \A i, j \in DOMAIN s : i < j /\ f[s[i]] = f[s[j]] => s[i] < s[j]
Before(f, s, t) == \A m \in s, n \in t : f[m] = f[n] => m < n

\* What a thread has, if there is one.
HeldBy(t) == IF t = Gone THEN {} ELSE {t.held} \ {0}
QueueOf(t) == IF t = Gone THEN <<>> ELSE t.q
WritingOf(t) == IF t = Gone THEN <<>> ELSE t.writing

\* What the router thread m has taken from the thread of port p.
TakenFrom(m, p) == IF m.at = p THEN m.recvQ ELSE <<>>

\* What is still to be routed, and what has been routed to a destination.
Upcoming(r, t) == Range(r) \cup Range(QueueOf(t)) \cup HeldBy(t)
Passed(w, t) == Range(w) \cup Range(WritingOf(t)) \cup Range(QueueOf(t))

PortOrder(f, p, r, t) ==
  /\ Ordered(f, r) /\ Ordered(f, QueueOf(t))
  /\ Before(f, Range(r), Range(QueueOf(t))) /\ Before(f, Range(r), HeldBy(t))
  /\ Before(f, Range(QueueOf(t)), HeldBy(t))
  /\ \A n \in Upcoming(r, t) : n \in DOMAIN f /\ f[n] = p

DstOrder(f, d, w, t) ==
  /\ Ordered(f, WritingOf(t)) /\ Ordered(f, QueueOf(t))
  /\ Before(f, Range(w), Range(WritingOf(t))) /\ Before(f, Range(w), Range(QueueOf(t)))
  /\ Before(f, Range(WritingOf(t)), Range(QueueOf(t)))
  /\ \A n \in Passed(w, t) : n \in DOMAIN f /\ d \in To[f[n]]

OrderInv ==
  /\ \A p \in Port : PortOrder(from, p, TakenFrom(main, p), in[p])
  /\ \A d \in Dst : DstOrder(from, d, wire[d], out[d])
  /\ \A d \in Dst, p \in Port :
       Before(from, Passed(wire[d], out[d]), Upcoming(TakenFrom(main, p), in[p]))

LEMMA OrderedEmpty == ASSUME NEW f PROVE Ordered(f, <<>>)
  BY DEF Ordered

LEMMA OrderedAppend ==
  ASSUME NEW f, NEW s \in Seq(Packet), NEW x \in Packet, Ordered(f, s), Before(f, Range(s), {x})
  PROVE  Ordered(f, Append(s, x))
<1> DEFINE a == Append(s, x)
<1>1. DOMAIN a = 1..(Len(s) + 1) /\ DOMAIN s = 1..Len(s) /\ Len(s) \in Nat
  OBVIOUS
<1>2. (\A k \in 1..Len(s) : a[k] = s[k]) /\ a[Len(s) + 1] = x
  OBVIOUS
<1> HIDE DEF a
<1> SUFFICES ASSUME NEW i \in DOMAIN a, NEW j \in DOMAIN a, i < j, f[a[i]] = f[a[j]]
             PROVE  a[i] < a[j]
  BY DEF Ordered, a
<1>3. i \in DOMAIN s /\ a[i] = s[i] /\ s[i] \in Range(s)
  BY <1>1, <1>2 DEF Range
<1>4. CASE j = Len(s) + 1
  BY <1>2, <1>3, <1>4 DEF Before
<1>5. CASE j # Len(s) + 1
  <2>1. j \in DOMAIN s /\ a[j] = s[j]
    BY <1>1, <1>2, <1>5
  <2> QED BY <2>1, <1>3 DEF Ordered
<1> QED BY <1>4, <1>5

LEMMA OrderedTail ==
  ASSUME NEW f, NEW s \in Seq(Packet), s # <<>>, Ordered(f, s)
  PROVE  Ordered(f, Tail(s)) /\ Before(f, {Head(s)}, Range(Tail(s)))
<1> DEFINE t == Tail(s)
<1>1. DOMAIN s = 1..Len(s) /\ DOMAIN t = 1..(Len(s) - 1) /\ Len(s) \in Nat \ {0}
  OBVIOUS
<1>2. (\A k \in 1..(Len(s) - 1) : t[k] = s[k + 1]) /\ Head(s) = s[1]
  OBVIOUS
<1> HIDE DEF t
<1>3. \A k \in DOMAIN t : k \in Nat /\ k + 1 \in DOMAIN s /\ t[k] = s[k + 1] /\ 1 < k + 1
  BY <1>1, <1>2
<1>4. 1 \in DOMAIN s
  BY <1>1
<1>5. Ordered(f, t)
  <2> SUFFICES ASSUME NEW i \in DOMAIN t, NEW j \in DOMAIN t, i < j, f[t[i]] = f[t[j]]
               PROVE  t[i] < t[j]
    BY DEF Ordered
  <2>1. i + 1 < j + 1
    BY <1>3
  <2> QED BY <1>3, <2>1 DEF Ordered
<1>6. Before(f, {Head(s)}, Range(t))
  <2> SUFFICES ASSUME NEW k \in DOMAIN t, f[s[1]] = f[t[k]] PROVE s[1] < t[k]
    BY <1>2 DEF Before, Range
  <2> QED BY <1>3, <1>4 DEF Ordered
<1> QED BY <1>5, <1>6 DEF t

\* A packet that is received leaves the packets before it as they are.
LEMMA AppendKeeps ==
  ASSUME NEW f \in Seq(Port), NEW p \in Port
  PROVE  LET g == Append(f, p)
         IN  /\ DOMAIN f = 1..Len(f) /\ DOMAIN g = 1..(Len(f) + 1) /\ Len(f) \in Nat
             /\ \A n \in DOMAIN f : n \in DOMAIN g /\ g[n] = f[n] /\ n \in Nat /\ n < Len(f) + 1
             /\ g[Len(f) + 1] = p
  OBVIOUS

LEMMA OrderedKeeps ==
  ASSUME NEW f, NEW g, NEW s, Ordered(f, s), \A n \in Range(s) : g[n] = f[n]
  PROVE  Ordered(g, s)
  BY DEF Ordered, Range

LEMMA BeforeKeeps ==
  ASSUME NEW f, NEW g, NEW s, NEW t, Before(f, s, t), \A n \in s \cup t : g[n] = f[n]
  PROVE  Before(g, s, t)
  BY DEF Before

LEMMA InitOrder == Init => OrderInv
<1> SUFFICES ASSUME Init PROVE OrderInv
  OBVIOUS
<1>1. from = <<>> /\ main.recvQ = <<>>
  BY DEF Init
<1>2. \A p \in Port : TakenFrom(main, p) = <<>>
  BY <1>1 DEF TakenFrom
<1>3. \A p \in Port : QueueOf(in[p]) = <<>> /\ HeldBy(in[p]) = {}
  BY DEF Init, StartedIn, QueueOf, HeldBy
<1>4. \A d \in Dst : QueueOf(out[d]) = <<>> /\ WritingOf(out[d]) = <<>> /\ wire[d] = <<>>
  BY DEF Init, StartedOut, QueueOf, WritingOf
<1>5. ASSUME NEW p \in Port PROVE PortOrder(from, p, TakenFrom(main, p), in[p])
  BY <1>2, <1>3, OrderedEmpty, RangeEmpty DEF PortOrder, Before, Upcoming
<1>6. ASSUME NEW d \in Dst PROVE Passed(wire[d], out[d]) = {} /\ DstOrder(from, d, wire[d], out[d])
  BY <1>4, OrderedEmpty, RangeEmpty DEF DstOrder, Before, Passed
<1> QED BY <1>5, <1>6 DEF OrderInv, Before

\* The steps that only move packets towards the router thread, or lose them.
LEMMA InSideOrder ==
  ASSUME OrderInv, UNCHANGED <<out, wire, from>>,
         \A p \in Port : /\ PortOrder(from, p, TakenFrom(main', p), in'[p])
                         /\ Upcoming(TakenFrom(main', p), in'[p]) \subseteq
                              Upcoming(TakenFrom(main, p), in[p])
  PROVE  OrderInv'
<1>1. \A d \in Dst : DstOrder(from, d, wire[d], out[d])
  BY DEF OrderInv
<1>2. ASSUME NEW d \in Dst, NEW p \in Port
      PROVE  Before(from, Passed(wire[d], out[d]), Upcoming(TakenFrom(main', p), in'[p]))
  <2>1. Before(from, Passed(wire[d], out[d]), Upcoming(TakenFrom(main, p), in[p]))
    BY DEF OrderInv
  <2> QED BY <2>1 DEF Before
<1> QED BY <1>1, <1>2 DEF OrderInv

\* The steps that only move packets from the router thread to the socket, or lose them.
LEMMA OutSideOrder ==
  ASSUME OrderInv, UNCHANGED <<in, from>>,
         \A p \in Port : TakenFrom(main', p) = TakenFrom(main, p),
         \A d \in Dst : /\ DstOrder(from, d, wire'[d], out'[d])
                        /\ Passed(wire'[d], out'[d]) \subseteq Passed(wire[d], out[d])
  PROVE  OrderInv'
<1>1. \A p \in Port : PortOrder(from, p, TakenFrom(main', p), in[p])
  BY DEF OrderInv
<1>2. ASSUME NEW d \in Dst, NEW p \in Port
      PROVE  Before(from, Passed(wire'[d], out'[d]), Upcoming(TakenFrom(main', p), in[p]))
  <2>1. Before(from, Passed(wire[d], out[d]), Upcoming(TakenFrom(main, p), in[p]))
    BY DEF OrderInv
  <2> QED BY <2>1 DEF Before
<1> QED BY <1>1, <1>2 DEF OrderInv

\* A thread that has less than before.
LEMMA PortOrderFewer ==
  ASSUME NEW f, NEW p, NEW r, NEW t, NEW u, PortOrder(f, p, r, t),
         QueueOf(u) = QueueOf(t) \/ QueueOf(u) = <<>>, HeldBy(u) \subseteq HeldBy(t)
  PROVE  PortOrder(f, p, r, u) /\ Upcoming(r, u) \subseteq Upcoming(r, t)
<1>1. Range(QueueOf(u)) \subseteq Range(QueueOf(t)) /\ Ordered(f, QueueOf(u))
  BY RangeEmpty, OrderedEmpty DEF PortOrder
<1>2. Upcoming(r, u) \subseteq Upcoming(r, t)
  BY <1>1 DEF Upcoming
<1> QED BY <1>1, <1>2 DEF PortOrder, Before

LEMMA DstOrderFewer ==
  ASSUME NEW f, NEW d, NEW w, NEW t, NEW u, DstOrder(f, d, w, t),
         QueueOf(u) = QueueOf(t) \/ QueueOf(u) = <<>>,
         WritingOf(u) = WritingOf(t) \/ WritingOf(u) = <<>>
  PROVE  DstOrder(f, d, w, u) /\ Passed(w, u) \subseteq Passed(w, t)
<1>1. Range(QueueOf(u)) \subseteq Range(QueueOf(t)) /\ Ordered(f, QueueOf(u))
  BY RangeEmpty, OrderedEmpty DEF DstOrder
<1>2. Range(WritingOf(u)) \subseteq Range(WritingOf(t)) /\ Ordered(f, WritingOf(u))
  BY RangeEmpty, OrderedEmpty DEF DstOrder
<1>3. Passed(w, u) \subseteq Passed(w, t)
  BY <1>1, <1>2 DEF Passed
<1> QED BY <1>1, <1>2, <1>3 DEF DstOrder, Before

\* QueuePacket: the packet that was held is the last of the queue.
LEMMA QueuedInOrder ==
  ASSUME NEW f, NEW p, NEW r, NEW t \in InRecord, NEW u \in InRecord, PortOrder(f, p, r, t),
         t.held # 0, u.q = Append(t.q, t.held), u.held = 0
  PROVE  PortOrder(f, p, r, u) /\ Upcoming(r, u) \subseteq Upcoming(r, t)
<1>1. t.held \in Packet /\ t.q \in Seq(Packet)
  BY DEF InRecord
<1>2. Append(t.q, t.held) \in Seq(Packet) /\ Range(Append(t.q, t.held)) = Range(t.q) \cup {t.held}
  BY <1>1, RangeAppend
<1>3. QueueOf(t) = t.q /\ HeldBy(t) = {t.held}
  BY <1>1, GoneAssumption DEF QueueOf, HeldBy, InRecord
<1>4. QueueOf(u) = Append(t.q, t.held) /\ HeldBy(u) = {}
  BY GoneAssumption DEF QueueOf, HeldBy
<1>5. Ordered(f, Append(t.q, t.held))
  BY <1>1, <1>3, OrderedAppend DEF PortOrder
<1>6. Upcoming(r, u) = Upcoming(r, t)
  BY <1>2, <1>3, <1>4 DEF Upcoming
<1>7. Before(f, Range(r), Range(QueueOf(u)))
  BY <1>2, <1>3, <1>4 DEF PortOrder, Before
<1> QED BY <1>4, <1>5, <1>6, <1>7 DEF PortOrder, Before

LEMMA InOrderKept ==
  ASSUME TypeInv, OrderInv, NEW p \in Port, In(p)
  PROVE  OrderInv'
<1>1. in \in [Port -> InRecord \cup {Gone}] /\ in[p] # Gone
  BY DEF TypeInv, TypeOK, In, InLoop, InOpen, InQueue, InLeave, InClose
<1>2. in[p] \in InRecord
  BY <1>1
<1>3. UNCHANGED <<main, out, wire, from>>
  BY DEF In, InLoop, InOpen, InQueue, InLeave, InClose, InChange, sent
<1>4. \A k \in Port : PortOrder(from, k, TakenFrom(main, k), in[k])
  BY DEF OrderInv
<1>5. CASE InQueue(p)
  <2>1. in' = [in EXCEPT ![p] = [in[p] EXCEPT !.held = 0, !.q = Append(@, in[p].held)]]
    BY <1>5 DEF InQueue, InChange
  <2>2. in[p].held # 0
    BY <1>5 DEF InQueue
  <2>3. in'[p] = [in[p] EXCEPT !.held = 0, !.q = Append(@, in[p].held)]
    BY <2>1, <1>1
  <2>6. in'[p].q = Append(in[p].q, in[p].held) /\ in'[p].held = 0 /\ in'[p] \in InRecord
    <3>1. in[p].held \in Packet /\ in[p].q \in Seq(Packet)
      BY <1>2, <2>2 DEF InRecord
    <3>2. Append(in[p].q, in[p].held) \in Seq(Packet)
      BY <3>1
    <3> QED BY <2>3, <3>2, <1>2 DEF InRecord
  <2>4. /\ PortOrder(from, p, TakenFrom(main, p), in'[p])
        /\ Upcoming(TakenFrom(main, p), in'[p]) \subseteq Upcoming(TakenFrom(main, p), in[p])
    BY <2>2, <2>6, <1>2, <1>4, QueuedInOrder
  <2>5. \A k \in Port : k # p => in'[k] = in[k]
    BY <2>1, <1>1
  <2> QED BY <2>4, <2>5, <1>3, <1>4, InSideOrder
<1>6. CASE InLoop(p) \/ InOpen(p) \/ InLeave(p) \/ InClose(p)
  <2>1. /\ in'[p] \in InRecord /\ in'[p].q = in[p].q /\ in'[p].held = in[p].held
        /\ \A k \in Port : k # p => in'[k] = in[k]
    <3>1. CASE InLoop(p)
      BY <3>1, <1>1, <1>2 DEF InLoop, InChange, InRecord, State
    <3>2. CASE InOpen(p)
      <4>1. \/ in' = [in EXCEPT ![p] = [in[p] EXCEPT !.pc = "open", !.state = "connected"]]
            \/ in' = [in EXCEPT ![p] = [in[p] EXCEPT !.pc = "close"]]
        BY <3>2 DEF InOpen, InChange
      <4>2. CASE in' = [in EXCEPT ![p] = [in[p] EXCEPT !.pc = "open", !.state = "connected"]]
        BY <4>2, <1>1, <1>2 DEF InRecord, State
      <4>3. CASE in' = [in EXCEPT ![p] = [in[p] EXCEPT !.pc = "close"]]
        BY <4>3, <1>1, <1>2 DEF InRecord, State
      <4> QED BY <4>1, <4>2, <4>3
    <3>3. CASE InLeave(p)
      BY <3>3, <1>1, <1>2 DEF InLeave, InChange, InRecord, State
    <3>4. CASE InClose(p)
      BY <3>4, <1>1, <1>2 DEF InClose, InChange, InRecord, State
    <3> QED BY <3>1, <3>2, <3>3, <3>4, <1>6
  <2>2. QueueOf(in'[p]) = QueueOf(in[p]) /\ HeldBy(in'[p]) = HeldBy(in[p])
    BY <2>1, <1>1, GoneAssumption DEF QueueOf, HeldBy
  <2>3. /\ PortOrder(from, p, TakenFrom(main, p), in'[p])
        /\ Upcoming(TakenFrom(main, p), in'[p]) \subseteq Upcoming(TakenFrom(main, p), in[p])
    BY <2>2, <1>4, PortOrderFewer
  <2> QED BY <2>1, <2>3, <1>3, <1>4, InSideOrder
<1> QED BY <1>5, <1>6 DEF In

\* The packet that arrives has the highest number there is.
LEMMA RecvOrder ==
  ASSUME TypeInv, OrderInv, NEW p \in Port, InRecv(p)
  PROVE  OrderInv'
<1>1. /\ in \in [Port -> InRecord \cup {Gone}] /\ in[p] # Gone /\ from \in Seq(Port)
      /\ Len(from) \in Nat
  BY DEF TypeInv, TypeOK, InRecv
<1>2. in[p] \in InRecord /\ in[p].held = 0
  BY <1>1 DEF InRecv
<1>3. UNCHANGED <<main, out, wire>>
  BY DEF InRecv, InChange, sent
<1> DEFINE new == Len(from) + 1
<1>4. from' = Append(from, p) /\ Len(from) < MaxPackets
  BY DEF InRecv
<1>5. new \in Packet
  BY <1>1, <1>4, UdpAssumption DEF Packet
<1>6. /\ new \in DOMAIN from' /\ from'[new] = p
      /\ \A n \in DOMAIN from : n \in DOMAIN from' /\ from'[n] = from[n] /\ n < new
  BY <1>1, <1>4, AppendKeeps
<1>7. in' = [in EXCEPT ![p] = [in[p] EXCEPT !.held = IF in[p].mute THEN 0 ELSE new]]
  BY DEF InRecv, InChange
<1> HIDE DEF new
<1>8. /\ in'[p] \in InRecord /\ in'[p].q = in[p].q /\ in'[p].held \in {0, new}
      /\ \A k \in Port : k # p => in'[k] = in[k]
  BY <1>1, <1>2, <1>5, <1>7 DEF InRecord
<1>9. QueueOf(in'[p]) = QueueOf(in[p]) /\ HeldBy(in[p]) = {} /\ HeldBy(in'[p]) \subseteq {new}
  BY <1>1, <1>2, <1>8, GoneAssumption DEF QueueOf, HeldBy
<1>10. ASSUME NEW k \in Port
       PROVE  /\ PortOrder(from', k, TakenFrom(main, k), in'[k])
              /\ Upcoming(TakenFrom(main, k), in'[k]) \subseteq
                   Upcoming(TakenFrom(main, k), in[k]) \cup {new}
  <2> DEFINE r == TakenFrom(main, k)
  <2>1. PortOrder(from, k, r, in[k])
    BY DEF OrderInv
  <2> HIDE DEF r
  <2>2. /\ \A n \in Range(r) : n \in DOMAIN from /\ from[n] = k
        /\ \A n \in Range(QueueOf(in[k])) : n \in DOMAIN from /\ from[n] = k
        /\ \A n \in HeldBy(in[k]) : n \in DOMAIN from /\ from[n] = k
    BY <2>1 DEF PortOrder, Upcoming
  <2>3. Ordered(from', r) /\ Ordered(from', QueueOf(in[k]))
    BY <2>1, <2>2, <1>6, OrderedKeeps DEF PortOrder
  <2>4. /\ Before(from', Range(r), Range(QueueOf(in[k]))) /\ Before(from', Range(r), HeldBy(in[k]))
        /\ Before(from', Range(QueueOf(in[k])), HeldBy(in[k]))
    BY <2>1, <2>2, <1>6 DEF PortOrder, Before
  <2>5. Before(from', Range(r), {new}) /\ Before(from', Range(QueueOf(in[k])), {new})
    BY <2>2, <1>6 DEF Before
  <2>6. CASE k # p
    <3>1. in'[k] = in[k]
      BY <2>6, <1>8
    <3> QED BY <3>1, <2>2, <2>3, <2>4, <1>6 DEF PortOrder, Upcoming, r
  <2>7. CASE k = p
    <3>1. Before(from', Range(r), HeldBy(in'[p])) /\ Before(from', Range(QueueOf(in[p])), HeldBy(in'[p]))
      BY <2>5, <2>7, <1>9 DEF Before
    <3>2. Upcoming(r, in'[p]) \subseteq Upcoming(r, in[p]) \cup {new}
      BY <1>9 DEF Upcoming
    <3>3. \A n \in Upcoming(r, in'[p]) : n \in DOMAIN from' /\ from'[n] = p
      BY <3>2, <2>2, <2>7, <1>6 DEF Upcoming
    <3> QED BY <3>1, <3>2, <3>3, <2>3, <2>4, <2>7, <1>9 DEF PortOrder, r
  <2> QED BY <2>6, <2>7
<1>11. ASSUME NEW d \in Dst
       PROVE  DstOrder(from', d, wire[d], out[d]) /\ Passed(wire[d], out[d]) \subseteq DOMAIN from
  <2> DEFINE w == wire[d]
             t == out[d]
  <2>1. DstOrder(from, d, w, t)
    BY DEF OrderInv
  <2> HIDE DEF w, t
  <2>2. \A n \in Passed(w, t) : n \in DOMAIN from /\ from'[n] = from[n] /\ d \in To[from[n]]
    BY <2>1, <1>6 DEF DstOrder
  <2>3. Ordered(from', WritingOf(t)) /\ Ordered(from', QueueOf(t))
    BY <2>1, <2>2, OrderedKeeps DEF DstOrder, Passed
  <2>4. /\ Before(from', Range(w), Range(WritingOf(t))) /\ Before(from', Range(w), Range(QueueOf(t)))
        /\ Before(from', Range(WritingOf(t)), Range(QueueOf(t)))
    BY <2>1, <2>2 DEF DstOrder, Passed, Before
  <2> QED BY <2>2, <2>3, <2>4, <1>6 DEF DstOrder, w, t
<1>12. ASSUME NEW d \in Dst, NEW k \in Port
       PROVE  Before(from', Passed(wire[d], out[d]), Upcoming(TakenFrom(main, k), in'[k]))
  <2>1. Before(from, Passed(wire[d], out[d]), Upcoming(TakenFrom(main, k), in[k]))
    BY DEF OrderInv
  <2>2. \A n \in Upcoming(TakenFrom(main, k), in[k]) : n \in DOMAIN from
    BY DEF OrderInv, PortOrder
  <2> QED BY <2>1, <2>2, <1>6, <1>10, <1>11 DEF Before
<1> QED BY <1>3, <1>10, <1>11, <1>12 DEF OrderInv

\* The first of the packets that are being written is the next on the wire.
LEMMA WrittenInOrder ==
  ASSUME NEW f, NEW d, NEW w \in Seq(Packet), NEW t \in OutRecord, NEW u \in OutRecord,
         DstOrder(f, d, w, t), t.writing # <<>>, u.writing = Tail(t.writing), u.q = t.q
  PROVE  /\ DstOrder(f, d, Append(w, Head(t.writing)), u)
         /\ Passed(Append(w, Head(t.writing)), u) \subseteq Passed(w, t)
<1> DEFINE h == Head(t.writing)
<1>1. t.writing \in Seq(Packet)
  BY DEF OutRecord
<1>2. h \in Packet /\ Range(t.writing) = {h} \cup Range(Tail(t.writing))
  BY <1>1, RangeHeadTail
<1>3. WritingOf(t) = t.writing /\ QueueOf(t) = t.q
  BY GoneAssumption DEF WritingOf, QueueOf
<1>4. WritingOf(u) = Tail(t.writing) /\ QueueOf(u) = t.q
  BY GoneAssumption DEF WritingOf, QueueOf
<1>5. Ordered(f, Tail(t.writing)) /\ Before(f, {h}, Range(Tail(t.writing)))
  BY <1>1, <1>3, OrderedTail DEF DstOrder
<1> HIDE DEF h
<1>6. Range(Append(w, h)) = Range(w) \cup {h}
  BY <1>2, RangeAppend
<1>7. Passed(Append(w, h), u) \subseteq Passed(w, t)
  BY <1>2, <1>3, <1>4, <1>6 DEF Passed
<1>8. /\ Before(f, Range(Append(w, h)), Range(WritingOf(u)))
      /\ Before(f, Range(Append(w, h)), Range(QueueOf(u)))
      /\ Before(f, Range(WritingOf(u)), Range(QueueOf(u)))
  BY <1>2, <1>3, <1>4, <1>5, <1>6 DEF DstOrder, Before
<1> QED BY <1>3, <1>4, <1>5, <1>7, <1>8 DEF DstOrder, h

LEMMA SwappedInOrder ==
  ASSUME NEW f, NEW d, NEW w, NEW t \in OutRecord, NEW u \in OutRecord,
         DstOrder(f, d, w, t), t.writing = <<>>, u.writing = t.q, u.q = <<>>
  PROVE  DstOrder(f, d, w, u) /\ Passed(w, u) \subseteq Passed(w, t)
<1>1. WritingOf(t) = <<>> /\ QueueOf(t) = t.q
  BY GoneAssumption DEF WritingOf, QueueOf
<1>2. WritingOf(u) = t.q /\ QueueOf(u) = <<>>
  BY GoneAssumption DEF WritingOf, QueueOf
<1> QED BY <1>1, <1>2, RangeEmpty, OrderedEmpty DEF DstOrder, Passed, Before

\* What Out(d) makes of the packets of a destination.
LEMMA OutMoves ==
  ASSUME TypeInv, NEW d \in Dst, Out(d)
  PROVE  /\ out[d] \in OutRecord /\ out'[d] \in OutRecord
         /\ \/ /\ out'[d].q = out[d].q /\ wire' = wire
               /\ out'[d].writing = out[d].writing \/ out'[d].writing = <<>>
            \/ /\ OutSwap(d) /\ out[d].writing = <<>> /\ wire' = wire
               /\ out'[d].writing = out[d].q /\ out'[d].q = <<>>
            \/ /\ OutSend(d) /\ out[d].writing # <<>> /\ out'[d].q = out[d].q
               /\ out'[d].writing = Tail(out[d].writing)
               /\ wire' = [wire EXCEPT ![d] = Append(@, Head(out[d].writing))]
         /\ \A k \in Dst : k # d => out'[k] = out[k]
<1>1. out \in [Dst -> OutRecord \cup {Gone}] /\ out[d] # Gone
  BY DEF TypeInv, TypeOK, Out, OutLoop, OutOpen, OutSwap, OutSend, OutLeave, OutClose, OutWhile
<1>2. out[d] \in OutRecord
  BY <1>1
<1>3. out'[d] \in OutRecord
  BY OutTypeInv DEF TypeInv, TypeOK
<1>4. CASE OutLoop(d)
  BY <1>4, <1>1, <1>2, <1>3 DEF OutLoop, OutChange, OutRecord
<1>5. CASE OutOpen(d)
  <2>1. \/ out' = [out EXCEPT ![d] = [out[d] EXCEPT !.pc = "open", !.state = "connected",
                                                    !.qEnabled = TRUE, !.opened = TRUE]]
        \/ out' = [out EXCEPT ![d] = [out[d] EXCEPT !.pc = "close"]]
    BY <1>5 DEF OutOpen, OutChange
  <2>2. wire' = wire
    BY <1>5 DEF OutOpen
  <2>3. CASE out' = [out EXCEPT ![d] = [out[d] EXCEPT !.pc = "open", !.state = "connected",
                                                      !.qEnabled = TRUE, !.opened = TRUE]]
    BY <2>2, <2>3, <1>1, <1>2, <1>3 DEF OutRecord
  <2>4. CASE out' = [out EXCEPT ![d] = [out[d] EXCEPT !.pc = "close"]]
    BY <2>2, <2>4, <1>1, <1>2, <1>3 DEF OutRecord
  <2> QED BY <2>1, <2>3, <2>4
<1>6. CASE OutSwap(d)
  BY <1>6, <1>1, <1>2, <1>3 DEF OutSwap, OutChange, OutRecord
<1>7. CASE OutSend(d)
  BY <1>7, <1>1, <1>2, <1>3 DEF OutSend, OutChange, OutRecord
<1>8. CASE OutLeave(d)
  BY <1>8, <1>1, <1>2, <1>3 DEF OutLeave, OutChange, OutRecord
<1>9. CASE OutClose(d)
  BY <1>9, <1>1, <1>2, <1>3 DEF OutClose, OutChange, OutRecord
<1>10. CASE OutWhile(d)
  BY <1>10, <1>1, <1>2, <1>3 DEF OutWhile, OutChange, OutRecord
<1> QED BY <1>4, <1>5, <1>6, <1>7, <1>8, <1>9, <1>10 DEF Out

LEMMA OutOrderKept ==
  ASSUME TypeInv, OrderInv, NEW d \in Dst, Out(d)
  PROVE  OrderInv'
<1>1. wire \in [Dst -> Seq(Packet)]
  BY DEF TypeInv, TypeOK
<1>2. UNCHANGED <<in, main, from>>
  BY DEF Out, OutLoop, OutOpen, OutSwap, OutSend, OutLeave, OutClose, OutWhile, OutChange
<1>3. \A k \in Dst : DstOrder(from, k, wire[k], out[k])
  BY DEF OrderInv
<1>4. out[d] \in OutRecord /\ out'[d] \in OutRecord /\ \A k \in Dst : k # d => out'[k] = out[k]
  BY OutMoves
<1>5. /\ DstOrder(from, d, wire'[d], out'[d])
      /\ Passed(wire'[d], out'[d]) \subseteq Passed(wire[d], out[d])
      /\ \A k \in Dst : k # d => wire'[k] = wire[k]
  <2>1. CASE /\ out'[d].q = out[d].q /\ wire' = wire
             /\ out'[d].writing = out[d].writing \/ out'[d].writing = <<>>
    <3>1. /\ QueueOf(out'[d]) = QueueOf(out[d])
          /\ WritingOf(out'[d]) = WritingOf(out[d]) \/ WritingOf(out'[d]) = <<>>
      BY <2>1, <1>4, GoneAssumption DEF QueueOf, WritingOf
    <3> QED BY <3>1, <2>1, <1>3, DstOrderFewer
  <2>2. CASE /\ OutSwap(d) /\ out[d].writing = <<>> /\ wire' = wire
             /\ out'[d].writing = out[d].q /\ out'[d].q = <<>>
    BY <2>2, <1>3, <1>4, SwappedInOrder
  <2>3. CASE /\ OutSend(d) /\ out[d].writing # <<>> /\ out'[d].q = out[d].q
             /\ out'[d].writing = Tail(out[d].writing)
             /\ wire' = [wire EXCEPT ![d] = Append(@, Head(out[d].writing))]
    <3>1. wire'[d] = Append(wire[d], Head(out[d].writing)) /\ \A k \in Dst : k # d => wire'[k] = wire[k]
      BY <2>3, <1>1
    <3>2. wire[d] \in Seq(Packet)
      BY <1>1
    <3>3. /\ DstOrder(from, d, Append(wire[d], Head(out[d].writing)), out'[d])
          /\ Passed(Append(wire[d], Head(out[d].writing)), out'[d]) \subseteq Passed(wire[d], out[d])
      <4>1. /\ DstOrder(from, d, wire[d], out[d]) /\ out[d].writing # <<>>
            /\ out'[d].writing = Tail(out[d].writing) /\ out'[d].q = out[d].q
        BY <2>3, <1>3
      <4> QED BY <4>1, <3>2, <1>4, WrittenInOrder
    <3> QED BY <3>1, <3>3
  <2> QED BY <2>1, <2>2, <2>3, OutMoves
<1>6. \A k \in Dst : /\ DstOrder(from, k, wire'[k], out'[k])
                     /\ Passed(wire'[k], out'[k]) \subseteq Passed(wire[k], out[k])
  BY <1>3, <1>4, <1>5
<1> QED BY <1>2, <1>6, OutSideOrder

\* Send: the packet that is routed follows everything that the destination has been given.
LEMMA SentInOrder ==
  ASSUME NEW f, NEW d, NEW w, NEW t \in OutRecord \cup {Gone}, NEW n \in Packet,
         DstOrder(f, d, w, t), Before(f, Passed(w, t), {n}), n \in DOMAIN f, d \in To[f[n]]
  PROVE  /\ DstOrder(f, d, w, SentTo(t, n))
         /\ Passed(w, SentTo(t, n)) \subseteq Passed(w, t) \cup {n}
<1> DEFINE u == IF t = Gone THEN StartedOut ELSE t
           v == SentTo(t, n)
<1>1. <<>> \in Seq(Packet)
  OBVIOUS
<1>2. StartedOut \in OutRecord /\ StartedOut.q = <<>> /\ StartedOut.writing = <<>>
  BY <1>1 DEF StartedOut, OutRecord, State
<1>3. u \in OutRecord /\ u.q = QueueOf(t) /\ u.writing = WritingOf(t)
  BY <1>2 DEF QueueOf, WritingOf
<1>4. v = IF u.qEnabled THEN [u EXCEPT !.q = Append(u.q, n)] ELSE u
  BY DEF SentTo
<1> HIDE DEF u, v
<1>5. u.q \in Seq(Packet) /\ Append(u.q, n) \in Seq(Packet)
  BY <1>3 DEF OutRecord
<1>6. v \in OutRecord /\ v.writing = u.writing /\ (v.q = u.q \/ v.q = Append(u.q, n))
  BY <1>3, <1>4, <1>5 DEF OutRecord
<1>7. WritingOf(v) = WritingOf(t) /\ QueueOf(v) = v.q
  BY <1>3, <1>6, GoneAssumption DEF WritingOf, QueueOf
<1>8. CASE v.q = u.q
  BY <1>3, <1>7, <1>8 DEF DstOrder, Passed, v
<1>9. CASE v.q = Append(u.q, n)
  <2>1. Range(v.q) = Range(QueueOf(t)) \cup {n}
    BY <1>3, <1>5, <1>9, RangeAppend
  <2>2. Before(f, Range(QueueOf(t)), {n}) /\ Before(f, Range(w), {n}) /\ Before(f, Range(WritingOf(t)), {n})
    BY DEF Before, Passed
  <2>3. Ordered(f, v.q)
    BY <2>2, <1>3, <1>5, <1>9, OrderedAppend DEF DstOrder
  <2>4. Passed(w, v) \subseteq Passed(w, t) \cup {n}
    BY <2>1, <1>7 DEF Passed
  <2>5. /\ Before(f, Range(w), Range(QueueOf(v)))
        /\ Before(f, Range(WritingOf(v)), Range(QueueOf(v)))
    BY <2>1, <2>2, <1>7 DEF DstOrder, Before
  <2> QED BY <2>3, <2>4, <2>5, <1>7 DEF DstOrder, v
<1> QED BY <1>6, <1>8, <1>9

LEMMA RouteOrder ==
  ASSUME TypeInv, OrderInv, Route
  PROVE  OrderInv'
<1>1. main \in MainRecord /\ out \in [Dst -> OutRecord \cup {Gone}]
  BY DEF TypeInv, TypeOK
<1>2. main.recvQ \in Seq(Packet) /\ main.recvQ # <<>> /\ main.pc = "route"
  BY <1>1 DEF Route, MainRecord
<1> DEFINE p == main.at
           r == main.recvQ
           n == Head(r)
<1>3. p \in Port
  BY <1>2 DEF TypeInv, MainOK
<1>4. n \in Packet /\ Tail(r) \in Seq(Packet) /\ Range(r) = {n} \cup Range(Tail(r))
  BY <1>2, RangeHeadTail
<1>5. main' = [main EXCEPT !.recvQ = Tail(@)] /\ UNCHANGED <<in, wire, from>>
  BY DEF Route, MainChange
<1>6. main'.at = p /\ main'.recvQ = Tail(r)
  BY <1>1, <1>5 DEF MainRecord
<1>7. out' = [d \in Dst |-> IF d \in To[p] THEN SentTo(out[d], n) ELSE out[d]]
  BY DEF Route
<1>8. PortOrder(from, p, r, in[p])
  BY <1>3 DEF OrderInv, TakenFrom
<1> HIDE DEF n
<1>9. TakenFrom(main, p) = r /\ TakenFrom(main', p) = Tail(r)
  BY <1>6 DEF TakenFrom
<1>10. \A k \in Port : k # p => TakenFrom(main', k) = TakenFrom(main, k)
  BY <1>6 DEF TakenFrom
<1>11. Ordered(from, Tail(r)) /\ Before(from, {n}, Range(Tail(r)))
  BY <1>2, <1>8, OrderedTail DEF PortOrder, n
<1>12. n \in DOMAIN from /\ from[n] = p /\ n \in Upcoming(r, in[p])
  BY <1>4, <1>8 DEF PortOrder, Upcoming
<1>13. Upcoming(Tail(r), in[p]) \subseteq Upcoming(r, in[p]) /\ PortOrder(from, p, Tail(r), in[p])
  <2>1. Upcoming(Tail(r), in[p]) \subseteq Upcoming(r, in[p])
    BY <1>4 DEF Upcoming
  <2> QED BY <2>1, <1>4, <1>8, <1>11 DEF PortOrder, Before
<1>14. Before(from, {n}, Upcoming(Tail(r), in[p]))
  BY <1>4, <1>8, <1>11 DEF PortOrder, Upcoming, Before
<1>15. ASSUME NEW k \in Port
       PROVE  /\ PortOrder(from, k, TakenFrom(main', k), in[k])
              /\ Upcoming(TakenFrom(main', k), in[k]) \subseteq Upcoming(TakenFrom(main, k), in[k])
              /\ Before(from, {n}, Upcoming(TakenFrom(main', k), in[k]))
  <2>1. CASE k = p
    BY <2>1, <1>9, <1>13, <1>14
  <2>2. CASE k # p
    <3>1. PortOrder(from, k, TakenFrom(main, k), in[k])
      BY DEF OrderInv
    <3>2. \A m \in Upcoming(TakenFrom(main, k), in[k]) : from[m] = k
      BY <3>1 DEF PortOrder
    <3> QED BY <3>1, <3>2, <2>2, <1>10, <1>12 DEF Before
  <2> QED BY <2>1, <2>2
<1>16. ASSUME NEW d \in Dst
       PROVE  /\ DstOrder(from, d, wire[d], out'[d])
              /\ Passed(wire[d], out'[d]) \subseteq Passed(wire[d], out[d]) \cup {n}
  <2>1. DstOrder(from, d, wire[d], out[d]) /\ Before(from, Passed(wire[d], out[d]), Upcoming(r, in[p]))
    BY <1>3, <1>9 DEF OrderInv
  <2>2. Before(from, Passed(wire[d], out[d]), {n})
    BY <2>1, <1>12 DEF Before
  <2>3. CASE d \in To[p]
    <3>1. out'[d] = SentTo(out[d], n) /\ out[d] \in OutRecord \cup {Gone} /\ d \in To[from[n]]
      BY <2>3, <1>1, <1>7, <1>12
    <3> QED BY <3>1, <2>1, <2>2, <1>4, <1>12, SentInOrder
  <2>4. CASE d \notin To[p]
    <3>1. out'[d] = out[d]
      BY <2>4, <1>7
    <3> QED BY <3>1, <2>1
  <2> QED BY <2>3, <2>4
<1>17. ASSUME NEW d \in Dst, NEW k \in Port
       PROVE  Before(from, Passed(wire[d], out'[d]), Upcoming(TakenFrom(main', k), in[k]))
  <2>1. Before(from, Passed(wire[d], out[d]), Upcoming(TakenFrom(main, k), in[k]))
    BY DEF OrderInv
  <2> QED BY <2>1, <1>15, <1>16 DEF Before
<1> QED BY <1>5, <1>15, <1>16, <1>17 DEF OrderInv

\* A visit takes the queue as it is: the next packet that the thread queues comes after it.
LEMMA VisitInOrder ==
  ASSUME TypeInv, OrderInv, VisitIn
  PROVE  OrderInv'
<1>1. main \in MainRecord /\ in \in [Port -> InRecord \cup {Gone}]
  BY DEF TypeInv, TypeOK
<1> DEFINE p == main.at
           new == [in[p] EXCEPT !.mute = main.muteIncoming, !.q = <<>>]
<1>2. p \in Port /\ in[p] # Gone /\ main.recvQ = <<>> /\ main.pc = "visitIn"
  BY DEF TypeInv, MainOK, VisitIn
<1>3. in[p] \in InRecord
  BY <1>1, <1>2
<1>4. in' = [in EXCEPT ![p] = new]
  BY <1>1, <1>2 DEF VisitIn
<1>5. main' = [main EXCEPT !.pc = "route", !.recvQ = in[p].q] /\ UNCHANGED <<out, wire, from>>
  BY DEF VisitIn, MainChange
<1>6. main'.at = p /\ main'.recvQ = in[p].q
  BY <1>1, <1>5 DEF MainRecord
<1>7. <<>> \in Seq(Packet)
  OBVIOUS
<1>8. new \in InRecord /\ new.q = <<>> /\ new.held = in[p].held
  BY <1>1, <1>3, <1>7 DEF InRecord, MainRecord
<1> HIDE DEF new
<1>9. in'[p] = new /\ \A k \in Port : k # p => in'[k] = in[k]
  BY <1>1, <1>2, <1>4
<1>10. QueueOf(new) = <<>> /\ HeldBy(new) = HeldBy(in[p]) /\ QueueOf(in[p]) = in[p].q
  BY <1>2, <1>8, GoneAssumption DEF QueueOf, HeldBy
<1>11. TakenFrom(main, p) = <<>> /\ TakenFrom(main', p) = in[p].q
  BY <1>2, <1>6 DEF TakenFrom
<1>12. \A k \in Port : k # p => TakenFrom(main', k) = TakenFrom(main, k)
  BY <1>6 DEF TakenFrom
<1>13. \A k \in Port : PortOrder(from, k, TakenFrom(main, k), in[k])
  BY DEF OrderInv
<1>14. Upcoming(in[p].q, new) = Upcoming(<<>>, in[p])
  BY <1>10, RangeEmpty DEF Upcoming
<1>15. PortOrder(from, p, <<>>, in[p])
  BY <1>2, <1>11, <1>13
<1>16. PortOrder(from, p, in[p].q, new)
  BY <1>10, <1>14, <1>15, RangeEmpty, OrderedEmpty DEF PortOrder, Before
<1>17. \A k \in Port : /\ PortOrder(from, k, TakenFrom(main', k), in'[k])
                       /\ Upcoming(TakenFrom(main', k), in'[k]) \subseteq
                            Upcoming(TakenFrom(main, k), in[k])
  BY <1>9, <1>11, <1>12, <1>13, <1>14, <1>16
<1> QED BY <1>5, <1>17, InSideOrder

\* The other steps of the router thread: it holds no packet, and keeps the queues or deletes them.
LEMMA OtherOrder ==
  ASSUME TypeInv, OrderInv,
         \/ LoopOrStop \/ EndOfIns \/ EndOfLoop \/ Stop \/ OutsStopped \/ Finish \/ MuteAll
         \/ NextIn \/ JoinIn \/ VisitOut \/ JoinOut
         \/ \E p \in Port : SampleIn(p) \/ StopIn(p)
         \/ \E d \in Dst : SampleOut(d) \/ StopOut(d)
  PROVE  OrderInv'
<1>1. /\ main \in MainRecord /\ in \in [Port -> InRecord \cup {Gone}]
      /\ out \in [Dst -> OutRecord \cup {Gone}]
  BY DEF TypeInv, TypeOK
<1>2. /\ \A p \in Port : PortOrder(from, p, TakenFrom(main, p), in[p])
      /\ \A d \in Dst : DstOrder(from, d, wire[d], out[d])
  BY DEF OrderInv
<1>3. ASSUME UNCHANGED <<in, out, wire, from>>,
             \A k \in Port : TakenFrom(main', k) = TakenFrom(main, k)
      PROVE  OrderInv'
  BY <1>2, <1>3, OutSideOrder
<1>4. ASSUME UNCHANGED <<out, wire, from>>,
             \A k \in Port : TakenFrom(main', k) = TakenFrom(main, k),
             \A k \in Port : /\ QueueOf(in'[k]) = QueueOf(in[k]) \/ QueueOf(in'[k]) = <<>>
                             /\ HeldBy(in'[k]) \subseteq HeldBy(in[k])
      PROVE  OrderInv'
  <2>1. \A k \in Port : /\ PortOrder(from, k, TakenFrom(main', k), in'[k])
                        /\ Upcoming(TakenFrom(main', k), in'[k]) \subseteq
                             Upcoming(TakenFrom(main, k), in[k])
    BY <1>2, <1>4, PortOrderFewer
  <2> QED BY <2>1, <1>4, InSideOrder
<1>5. ASSUME UNCHANGED <<in, wire, from>>,
             \A k \in Port : TakenFrom(main', k) = TakenFrom(main, k),
             \A k \in Dst : /\ QueueOf(out'[k]) = QueueOf(out[k]) \/ QueueOf(out'[k]) = <<>>
                            /\ WritingOf(out'[k]) = WritingOf(out[k]) \/ WritingOf(out'[k]) = <<>>
      PROVE  OrderInv'
  <2>1. \A k \in Dst : /\ DstOrder(from, k, wire[k], out'[k])
                       /\ Passed(wire[k], out'[k]) \subseteq Passed(wire[k], out[k])
    BY <1>2, <1>5, DstOrderFewer
  <2> QED BY <2>1, <1>5, OutSideOrder
<1>6. \A k \in Port : TakenFrom(main', k) = TakenFrom(main, k)
  <2> SUFFICES main'.recvQ = main.recvQ /\ (main'.at = main.at \/ main.recvQ = <<>>)
    BY DEF TakenFrom
  <2>0. main.pc # "route" => main.recvQ = <<>>
    BY DEF TypeInv, MainOK
  <2>1. CASE LoopOrStop
    BY <2>0, <2>1, <1>1 DEF LoopOrStop, MainChange, MainRecord
  <2>2. CASE EndOfIns
    BY <2>0, <2>2, <1>1 DEF EndOfIns, MainChange, MainRecord
  <2>3. CASE EndOfLoop
    BY <2>0, <2>3, <1>1 DEF EndOfLoop, MainChange, MainRecord
  <2>4. CASE Stop
    BY <2>0, <2>4, <1>1 DEF Stop, MainChange, MainRecord
  <2>5. CASE OutsStopped
    BY <2>0, <2>5, <1>1 DEF OutsStopped, MainChange, MainRecord
  <2>6. CASE Finish
    BY <2>0, <2>6, <1>1 DEF Finish, MainChange, MainRecord
  <2>7. CASE MuteAll
    BY <2>0, <2>7, <1>1 DEF MuteAll, MainChange, MainRecord
  <2>8. CASE NextIn
    BY <2>0, <2>8, <1>1 DEF NextIn, MainChange, MainRecord
  <2>9. CASE JoinIn
    BY <2>0, <2>9, <1>1 DEF JoinIn, MainChange, MainRecord
  <2>10. CASE VisitOut
    BY <2>0, <2>10, <1>1 DEF VisitOut, MainChange, MainRecord
  <2>11. CASE JoinOut
    BY <2>0, <2>11, <1>1 DEF JoinOut, MainChange, MainRecord
  <2>12. CASE \E p \in Port : SampleIn(p)
    BY <2>0, <2>12, <1>1 DEF SampleIn, MainChange, MainRecord
  <2>13. CASE \E p \in Port : StopIn(p)
    BY <2>0, <2>13, <1>1 DEF StopIn, MainChange, MainRecord
  <2>14. CASE \E d \in Dst : SampleOut(d)
    BY <2>0, <2>14, <1>1 DEF SampleOut, MainChange, MainRecord
  <2>15. CASE \E d \in Dst : StopOut(d)
    BY <2>0, <2>15, <1>1 DEF StopOut, MainChange, MainRecord
  <2> QED BY <2>1, <2>2, <2>3, <2>4, <2>5, <2>6, <2>7, <2>8, <2>9, <2>10, <2>11, <2>12, <2>13, <2>14, <2>15
<1>7. CASE \/ LoopOrStop \/ EndOfIns \/ EndOfLoop \/ Stop \/ OutsStopped \/ Finish \/ MuteAll
           \/ \E p \in Port : SampleIn(p)
           \/ \E d \in Dst : SampleOut(d)
  <2>1. UNCHANGED <<in, out, wire, from>>
    BY <1>7 DEF LoopOrStop, EndOfIns, EndOfLoop, Stop, OutsStopped, Finish, MuteAll, SampleIn,
                SampleOut, MainChange, sent
  <2> QED BY <2>1, <1>3, <1>6
<1>8. QueueOf(Gone) = <<>> /\ WritingOf(Gone) = <<>> /\ HeldBy(Gone) = {}
  BY DEF QueueOf, WritingOf, HeldBy
<1>9. CASE NextIn \/ JoinIn
  <2>1. UNCHANGED <<out, wire, from>> /\ \A k \in Port : in'[k] = in[k] \/ in'[k] = Gone
    BY <1>1, <1>9 DEF NextIn, JoinIn, MainChange
  <2> QED BY <2>1, <1>4, <1>6, <1>8
<1>10. CASE VisitOut \/ JoinOut
  <2>1. UNCHANGED <<in, wire, from>> /\ \A k \in Dst : out'[k] = out[k] \/ out'[k] = Gone
    BY <1>1, <1>10 DEF VisitOut, JoinOut, MainChange
  <2> QED BY <2>1, <1>5, <1>6, <1>8
<1>11. ASSUME NEW p \in Port, StopIn(p) PROVE OrderInv'
  <2>1. in' = [in EXCEPT ![p].run = FALSE] /\ in[p] # Gone /\ UNCHANGED <<out, wire, from>>
    BY <1>11 DEF StopIn, MainChange, IsNext, TypeInv, MainOK
  <2>2. in[p] \in InRecord
    BY <2>1, <1>1
  <2>3. /\ in'[p] \in InRecord /\ in'[p].q = in[p].q /\ in'[p].held = in[p].held
        /\ \A k \in Port : k # p => in'[k] = in[k]
    BY <2>1, <2>2, <1>1 DEF InRecord
  <2>4. QueueOf(in'[p]) = QueueOf(in[p]) /\ HeldBy(in'[p]) = HeldBy(in[p])
    BY <2>1, <2>3, GoneAssumption DEF QueueOf, HeldBy
  <2> QED BY <2>1, <2>3, <2>4, <1>4, <1>6
<1>12. ASSUME NEW d \in Dst, StopOut(d) PROVE OrderInv'
  <2>1. out' = [out EXCEPT ![d].run = FALSE] /\ out[d] # Gone /\ UNCHANGED <<in, wire, from>>
    BY <1>12 DEF StopOut, MainChange, IsNext, TypeInv, MainOK
  <2>2. out[d] \in OutRecord
    BY <2>1, <1>1
  <2>3. /\ out'[d] \in OutRecord /\ out'[d].q = out[d].q /\ out'[d].writing = out[d].writing
        /\ \A k \in Dst : k # d => out'[k] = out[k]
    BY <2>1, <2>2, <1>1 DEF OutRecord
  <2>4. QueueOf(out'[d]) = QueueOf(out[d]) /\ WritingOf(out'[d]) = WritingOf(out[d])
    BY <2>1, <2>3, GoneAssumption DEF QueueOf, WritingOf
  <2> QED BY <2>1, <2>3, <2>4, <1>5, <1>6
<1> QED BY <1>7, <1>9, <1>10, <1>11, <1>12

LEMMA NextOrder == TypeInv /\ OrderInv /\ [Next]_vars => OrderInv'
<1> SUFFICES ASSUME TypeInv, OrderInv, [Next]_vars PROVE OrderInv'
  OBVIOUS
<1>1. CASE \E p \in Port : In(p) \/ InRecv(p)
  BY <1>1, InOrderKept, RecvOrder
<1>2. CASE \E d \in Dst : Out(d)
  BY <1>2, OutOrderKept
<1>3. CASE Main \/ Stop \/ MuteAll
  BY <1>3, RouteOrder, VisitInOrder, OtherOrder DEF Main
<1>4. CASE UNCHANGED vars
  BY <1>4 DEF vars, OrderInv
<1> QED BY <1>1, <1>2, <1>3, <1>4 DEF Next

\* Only InRecv receives, and only OutSend sends.
LEMMA PathStep == TypeInv /\ OrderInv /\ [Next]_vars => [Path!Next]_Path!pathVars
<1> SUFFICES ASSUME TypeInv, OrderInv, [Next]_vars PROVE [Path!Next]_Path!pathVars
  OBVIOUS
<1>1. ASSUME NEW p \in Port, InRecv(p) PROVE Path!Next
  BY <1>1 DEF InRecv, InChange, sent, Path!Next, Path!Receive
<1>2. ASSUME NEW d \in Dst, OutSend(d) PROVE Path!Next
  <2> DEFINE n == Head(out[d].writing)
  <2>1. out[d] \in OutRecord /\ out[d].writing # <<>>
    BY <1>2 DEF TypeInv, TypeOK, OutSend
  <2>2. out[d].writing \in Seq(Packet)
    BY <2>1 DEF OutRecord
  <2>3. n \in Range(WritingOf(out[d]))
    BY <2>1, <2>2, RangeHeadTail, GoneAssumption DEF WritingOf
  <2>4. DstOrder(from, d, wire[d], out[d])
    BY DEF OrderInv
  <2> HIDE DEF n
  <2>5. n \in DOMAIN from /\ d \in To[from[n]]
    BY <2>3, <2>4 DEF DstOrder, Passed
  <2>6. \A m \in Range(wire[d]) : from[m] = from[n] => m < n
    BY <2>3, <2>4 DEF DstOrder, Before
  <2>7. wire' = [wire EXCEPT ![d] = Append(@, n)] /\ from' = from
    BY <1>2 DEF OutSend, OutChange, n
  <2>8. Path!Send(d, n)
    BY <2>5, <2>6, <2>7 DEF Path!Send, Path!Range, Range
  <2> QED BY <2>5, <2>8 DEF Path!Next
<1>3. ASSUME NEW p \in Port, In(p) PROVE UNCHANGED <<from, wire>>
  BY <1>3 DEF In, InLoop, InOpen, InQueue, InLeave, InClose, InChange, sent
<1>4. ASSUME NEW d \in Dst, Out(d), ~OutSend(d) PROVE UNCHANGED <<from, wire>>
  BY <1>4 DEF Out, OutLoop, OutOpen, OutSwap, OutLeave, OutClose, OutWhile, OutChange
<1>5. CASE Main \/ Stop \/ MuteAll \/ UNCHANGED vars
  <2>1. UNCHANGED <<from, wire>>
    BY <1>5 DEF Main, Stop, MuteAll, LoopOrStop, SampleIn, StopIn, SampleOut, StopOut, VisitIn, Route,
                NextIn, EndOfIns, VisitOut, EndOfLoop, JoinOut, OutsStopped, JoinIn, Finish,
                MainChange, sent, vars
  <2> QED BY <2>1 DEF Path!pathVars
<1> QED BY <1>1, <1>2, <1>3, <1>4, <1>5 DEF Next, Path!pathVars

\* PacketPath: whatever the threads do, and however many of them are deleted and started
\* again, a packet that is received on a port is sent to a destination of the port at most
\* once, and after all packets of its port that were sent there before have been received.
THEOREM PacketsInOrder == Spec => InOrder
<1>1. Init => Path!Init
  BY DEF Init, Path!Init
<1>2. Spec => [](TypeInv /\ OrderInv)
  <2>1. Init => TypeInv /\ OrderInv
    BY InitTypeInv, InitOrder
  <2>2. TypeInv /\ OrderInv /\ [Next]_vars => (TypeInv /\ OrderInv)'
    BY NextTypeInv, NextOrder
  <2> QED BY <2>1, <2>2, PTL DEF Spec
<1> QED BY <1>1, <1>2, PathStep, PTL DEF Spec, InOrder, Path!Spec

-----------------------------------------------------------------------------
(* sACN output: the handles of the router and the streams of the server.   *)

StartCodes == {"dmx", "pcp"}
SeqState == [refs: Nat, seq: 0..(SeqSize - 1)]
OutRecordOf ==
  [streams: Seq(Stream), seqs: [Number -> SeqState], output: [Number -> OutUniverse],
   receiver: [Number -> Receiver]]

\* What a stream is besides its types: levels or priorities, and sent to its end only if ended.
StreamOK(s, r) ==
  /\ s \in Stream
  /\ s.live => r
  /\ s.ended \/ s.terminates = 0
  /\ s.code = "dmx" => ~s.ended /\ s.data \in [Channel -> Level]
  /\ s.code = "pcp" => s.data \in [Channel -> Priority]

StreamsOK(ss, r) == \A h \in DOMAIN ss : StreamOK(ss[h], r)

\* A universe has one place for its levels, and one for its priorities.
OnePlace(ss) ==
  \A h, i \in DOMAIN ss : h # i => ss[h].number # ss[i].number \/ ss[h].code # ss[i].code

InUse(ss, n, code) == \E h \in DOMAIN ss : ss[h].live /\ ss[h].number = n /\ ss[h].code = code
Count(b) == IF b THEN 1 ELSE 0

\* Every stream that is sent has a reference to the sequence of its number.
Referred(ss, q) == \A n \in Number : Count(InUse(ss, n, "dmx")) + Count(InUse(ss, n, "pcp")) <= q[n].refs

\* A handle names a live stream of its own universe that has not been ended.
Names(ss, handle, n, code) ==
  /\ handle \in DOMAIN ss
  /\ ss[handle].live /\ ~ss[handle].ended /\ ss[handle].number = n /\ ss[handle].code = code

HandlesOK(ss, o) ==
  \A n \in Number :
    /\ o[n].dmx # 0 => Names(ss, o[n].dmx, n, "dmx") /\ ss[o[n].dmx].priority = o[n].priority
    /\ o[n].pcp # 0 => Names(ss, o[n].pcp, n, "pcp")

\* A stream that is sent is named, or was ended.
NoneLeft(ss, o) ==
  \A h \in DOMAIN ss :
    ss[h].live => ss[h].ended \/ h \in {o[ss[h].number].dmx, o[ss[h].number].pcp}

ServerOK(st, r) ==
  /\ st \in OutRecordOf /\ StreamsOK(st.streams, r) /\ OnePlace(st.streams)
  /\ Referred(st.streams, st.seqs)
StateOK(st, r) == ServerOK(st, r) /\ HandlesOK(st.streams, st.output) /\ NoneLeft(st.streams, st.output)

SacnOutputInv ==
  /\ StateOK(OutState, reachable)
  /\ reachable \in BOOLEAN /\ muteOut \in BOOLEAN
  /\ at \in 0..Len(streams)
  /\ sends \in 0..MaxSends

LEMMA OutConstants ==
  /\ Size \in Nat \ {0} /\ Repeats \in Nat \ {0} /\ SeqSize \in Nat \ {0} /\ MaxSends \in Nat
  /\ 0 \in Priority /\ Default \in Priority /\ Priority \subseteq Nat
  /\ 0 \in Level /\ Level \subseteq Nat /\ 0 \in 0..(SeqSize - 1)
  /\ \A n \in Number : \A p \in OutPackets[n] : p \in OutPacket
<1>1. {Size, Repeats, SeqSize} \subseteq Nat \ {0} /\ MaxSends \in Nat BY SacnOutputAssumption
<1>2. /\ 0 \in Priority /\ Default \in Priority /\ Priority \subseteq Nat
      /\ 0 \in Level /\ Level \subseteq Nat
  BY SacnOutputAssumption
<1>3. \A n \in Number : \A p \in OutPackets[n] : p \in OutPacket BY SacnOutputAssumption
<1>4. SeqSize \in Nat \ {0} BY <1>1
<1> QED BY <1>1, <1>2, <1>3, <1>4

LEMMA InitSacnOutputInv == SacnOutputInit => SacnOutputInv
<1> SUFFICES ASSUME SacnOutputInit PROVE SacnOutputInv OBVIOUS
<1>1. /\ streams = <<>> /\ seqs = NoSequence /\ output = NoOutput /\ reachable \in BOOLEAN
      /\ muteOut = FALSE /\ at = 0 /\ sends = 0 /\ receiver = [n \in Number |-> Unseen]
  BY DEF SacnOutputInit
<1>2. Unseen \in Receiver BY OutConstants DEF Unseen, Receiver
<1>3. NoOutput \in [Number -> OutUniverse] BY OutConstants DEF NoOutput, OutUniverse
<1>4. NoSequence \in [Number -> SeqState] BY OutConstants DEF NoSequence, SeqState
<1>5. OutState \in OutRecordOf BY <1>1, <1>2, <1>3, <1>4 DEF OutState, OutRecordOf
<1>6. OutState.streams = <<>> /\ OutState.seqs = NoSequence /\ OutState.output = NoOutput
  BY <1>1 DEF OutState
<1>7. ServerOK(OutState, reachable)
  BY <1>5, <1>6 DEF ServerOK, StreamsOK, OnePlace, Referred, InUse, NoSequence, Count
<1>8. HandlesOK(OutState.streams, OutState.output) /\ NoneLeft(OutState.streams, OutState.output)
  BY <1>6 DEF HandlesOK, NoneLeft, NoOutput
<1>9. at \in 0..Len(streams) /\ sends \in 0..MaxSends
  <2>1. Len(streams) \in Nat BY <1>1
  <2> QED BY <2>1, <1>1, OutConstants
<1> QED BY <1>1, <1>7, <1>8, <1>9 DEF SacnOutputInv, StateOK

-----------------------------------------------------------------------------
(* What CStreamServer does with one stream.                                 *)

\* One stream becomes another one of the same place.
LEMMA StreamBecomes ==
  ASSUME NEW ss \in Seq(Stream), NEW h \in DOMAIN ss, NEW s \in Stream, NEW r \in BOOLEAN,
         StreamsOK(ss, r), OnePlace(ss), StreamOK(s, r),
         s.number = ss[h].number, s.code = ss[h].code
  PROVE  LET after == [ss EXCEPT ![h] = s]
         IN  /\ after \in Seq(Stream) /\ Len(after) = Len(ss) /\ DOMAIN after = DOMAIN ss
             /\ after[h] = s /\ \A i \in DOMAIN ss : i # h => after[i] = ss[i]
             /\ StreamsOK(after, r) /\ OnePlace(after)
<1> DEFINE after == [ss EXCEPT ![h] = s]
<1>1. after \in Seq(Stream) /\ Len(after) = Len(ss) /\ DOMAIN after = DOMAIN ss OBVIOUS
<1>2. after[h] = s /\ \A i \in DOMAIN ss : i # h => after[i] = ss[i] OBVIOUS
<1> HIDE DEF after
<1>3. StreamsOK(after, r) BY <1>1, <1>2 DEF StreamsOK
<1>4. \A i \in DOMAIN ss : after[i].number = ss[i].number /\ after[i].code = ss[i].code BY <1>2
<1>5. OnePlace(after) BY <1>1, <1>4 DEF OnePlace
<1> QED BY <1>1, <1>2, <1>3, <1>5 DEF after

\* A stream that goes takes its reference along.
LEMMA OneLess ==
  ASSUME NEW ss, NEW after, NEW h \in DOMAIN ss, ss[h].live, ss[h].number \in Number,
         ss[h].code \in StartCodes, OnePlace(ss), DOMAIN after = DOMAIN ss, ~after[h].live,
         \A i \in DOMAIN ss : i # h => after[i] = ss[i],
         NEW q, NEW q2, \A n \in Number : q[n].refs \in Nat,
         \A n \in Number : n # ss[h].number => q2[n].refs = q[n].refs,
         q2[ss[h].number].refs = q[ss[h].number].refs - 1,
         Referred(ss, q)
  PROVE  /\ Referred(after, q2) /\ q[ss[h].number].refs >= 1
<1> DEFINE m == ss[h].number
<1>1. \A n, code : InUse(after, n, code) => InUse(ss, n, code) BY DEF InUse
<1>2. InUse(ss, m, ss[h].code) BY DEF InUse
<1>3. ~InUse(after, m, ss[h].code) BY DEF InUse, OnePlace
<1>4. \A n \in Number : Count(InUse(ss, n, "dmx")) + Count(InUse(ss, n, "pcp")) <= q[n].refs
  BY DEF Referred
<1>5. q[m].refs >= 1 /\ Count(InUse(after, m, "dmx")) + Count(InUse(after, m, "pcp")) <= q[m].refs - 1
  <2>1. /\ InUse(after, m, "dmx") => InUse(ss, m, "dmx")
        /\ InUse(after, m, "pcp") => InUse(ss, m, "pcp")
        /\ Count(InUse(ss, m, "dmx")) + Count(InUse(ss, m, "pcp")) <= q[m].refs /\ q[m].refs \in Nat
    BY <1>1, <1>4
  <2>2. CASE ss[h].code = "dmx"
    <3>1. InUse(ss, m, "dmx") /\ ~InUse(after, m, "dmx") BY <1>2, <1>3, <2>2
    <3> QED BY <2>1, <3>1 DEF Count
  <2>3. CASE ss[h].code = "pcp"
    <3>1. InUse(ss, m, "pcp") /\ ~InUse(after, m, "pcp") BY <1>2, <1>3, <2>3
    <3> QED BY <2>1, <3>1 DEF Count
  <2> QED BY <2>2, <2>3 DEF StartCodes
<1>6. \A n \in Number : n # m =>
        Count(InUse(after, n, "dmx")) + Count(InUse(after, n, "pcp")) <= q2[n].refs
  <2> SUFFICES ASSUME NEW n \in Number, n # m
               PROVE  Count(InUse(after, n, "dmx")) + Count(InUse(after, n, "pcp")) <= q2[n].refs
    OBVIOUS
  <2>1. /\ InUse(after, n, "dmx") => InUse(ss, n, "dmx")
        /\ InUse(after, n, "pcp") => InUse(ss, n, "pcp")
        /\ Count(InUse(ss, n, "dmx")) + Count(InUse(ss, n, "pcp")) <= q[n].refs
        /\ q[n].refs \in Nat /\ q2[n].refs = q[n].refs
    BY <1>1, <1>4
  <2> QED BY <2>1 DEF Count
<1> QED BY <1>5, <1>6 DEF Referred

\* A new stream has a reference.
LEMMA OneMore ==
  ASSUME NEW ss, NEW after, NEW h \in DOMAIN after, DOMAIN ss \subseteq DOMAIN after,
         DOMAIN after \subseteq DOMAIN ss \cup {h},
         h \in DOMAIN ss => ~ss[h].live,
         \A i \in DOMAIN ss : i # h => after[i] = ss[i],
         NEW m \in Number, after[h].number = m,
         NEW code \in StartCodes, after[h].code = code, ~InUse(ss, m, code),
         NEW q, NEW q2, \A n \in Number : q[n].refs \in Nat,
         \A n \in Number : n # m => q2[n].refs = q[n].refs,
         q2[m].refs = q[m].refs + 1, Referred(ss, q)
  PROVE  Referred(after, q2)
<1>1. \A n, c : InUse(after, n, c) => InUse(ss, n, c) \/ (n = m /\ c = code) BY DEF InUse
<1>2. \A n \in Number : Count(InUse(ss, n, "dmx")) + Count(InUse(ss, n, "pcp")) <= q[n].refs
  BY DEF Referred
<1>3. Count(InUse(after, m, "dmx")) + Count(InUse(after, m, "pcp")) <= q[m].refs + 1
  <2>1. Count(InUse(ss, m, "dmx")) + Count(InUse(ss, m, "pcp")) <= q[m].refs /\ q[m].refs \in Nat
    BY <1>2
  <2>2. CASE code = "dmx"
    <3>1. ~InUse(ss, m, "dmx") /\ (InUse(after, m, "pcp") => InUse(ss, m, "pcp")) BY <1>1, <2>2
    <3> QED BY <2>1, <3>1 DEF Count
  <2>3. CASE code = "pcp"
    <3>1. ~InUse(ss, m, "pcp") /\ (InUse(after, m, "dmx") => InUse(ss, m, "dmx")) BY <1>1, <2>3
    <3> QED BY <2>1, <3>1 DEF Count
  <2> QED BY <2>2, <2>3 DEF StartCodes
<1>4. \A n \in Number : n # m =>
        Count(InUse(after, n, "dmx")) + Count(InUse(after, n, "pcp")) <= q2[n].refs
  <2> SUFFICES ASSUME NEW n \in Number, n # m
               PROVE  Count(InUse(after, n, "dmx")) + Count(InUse(after, n, "pcp")) <= q2[n].refs
    OBVIOUS
  <2>1. /\ InUse(after, n, "dmx") => InUse(ss, n, "dmx")
        /\ InUse(after, n, "pcp") => InUse(ss, n, "pcp")
        /\ Count(InUse(ss, n, "dmx")) + Count(InUse(ss, n, "pcp")) <= q[n].refs
        /\ q[n].refs \in Nat /\ q2[n].refs = q[n].refs
    BY <1>1, <1>2
  <2> QED BY <2>1 DEF Count
<1> QED BY <1>3, <1>4 DEF Referred

-----------------------------------------------------------------------------
(* The server keeps its streams: Destruction, CreateUniverse.               *)

LEMMA DestructionKeeps ==
  ASSUME NEW st, NEW r \in BOOLEAN, ServerOK(st, r), NEW h \in DOMAIN st.streams
  PROVE  LET gone == Destruction(st, h)
         IN  /\ ServerOK(gone, r)
             /\ gone.output = st.output /\ gone.receiver = st.receiver
             /\ DOMAIN gone.streams = DOMAIN st.streams /\ Len(gone.streams) = Len(st.streams)
             /\ ~gone.streams[h].live
             /\ \A i \in DOMAIN st.streams : i # h => gone.streams[i] = st.streams[i]
             /\ ~st.streams[h].live => gone = st
<1>1. /\ st \in OutRecordOf /\ StreamsOK(st.streams, r) /\ OnePlace(st.streams)
      /\ Referred(st.streams, st.seqs)
  BY DEF ServerOK
<1>2. CASE ~st.streams[h].live
  BY <1>2 DEF Destruction
<1>3. CASE st.streams[h].live
  <2> DEFINE ss    == st.streams
             old   == ss[h]
             s     == [old EXCEPT !.live = FALSE, !.terminates = 0]
             m     == old.number
             one   == st.seqs[m]
             less  == [one EXCEPT !.refs = @ - 1]
             after == [ss EXCEPT ![h] = s]
             q2    == [st.seqs EXCEPT ![m] = less]
             gone  == [st EXCEPT !.streams = after, !.seqs = q2]
  <2>0. /\ ss \in Seq(Stream) /\ st.seqs \in [Number -> SeqState] /\ old \in Stream /\ StreamOK(old, r)
        /\ h \in DOMAIN ss /\ st.output \in [Number -> OutUniverse] /\ st.receiver \in [Number -> Receiver]
        /\ StreamsOK(ss, r) /\ OnePlace(ss) /\ Referred(ss, st.seqs) /\ old.live
    BY <1>1, <1>3 DEF OutRecordOf, StreamsOK
  <2>1. m \in Number /\ old.code \in StartCodes /\ one \in SeqState
    BY <2>0 DEF Stream, StartCodes
  <2>4. Destruction(st, h) = gone
    <3>1. Destruction(st, h) =
            [st EXCEPT !.streams[h].live = FALSE, !.streams[h].terminates = 0, !.seqs[m].refs = @ - 1]
      BY <1>3 DEF Destruction
    <3>2. [ss EXCEPT ![h].live = FALSE, ![h].terminates = 0] = after
      BY <2>0 DEF Stream
    <3>3. [st.seqs EXCEPT ![m].refs = @ - 1] = q2
      OBVIOUS
    <3>4. [st EXCEPT !.streams[h].live = FALSE, !.streams[h].terminates = 0, !.seqs[m].refs = @ - 1]
          = [st EXCEPT !.streams = [st.streams EXCEPT ![h].live = FALSE, ![h].terminates = 0],
                       !.seqs = [st.seqs EXCEPT ![m].refs = @ - 1]]
      <4> HIDE DEF m
      <4> QED OBVIOUS
    <3> QED BY <3>1, <3>2, <3>3, <3>4
  <2> HIDE DEF ss, old, m, one
  <2>2. s \in Stream /\ ~s.live /\ s.number = m /\ s.code = old.code /\ StreamOK(s, r)
    <3>1. s \in Stream
      <4>1. 0 \in 0..Repeats BY OutConstants
      <4> QED BY <2>0, <4>1 DEF Stream
    <3>2. ~s.live /\ s.terminates = 0 /\ s.number = old.number /\ s.code = old.code /\ s.data = old.data
          /\ s.ended = old.ended
      BY <2>0 DEF Stream
    <3> HIDE DEF s
    <3> QED BY <3>1, <3>2, <2>0 DEF StreamOK, m
  <2>3. less.refs = one.refs - 1 /\ less.seq = one.seq /\ one.refs \in Nat
        /\ DOMAIN less = {"refs", "seq"}
    BY <2>1 DEF SeqState
  <2> HIDE DEF s, less
  <2>5. /\ after \in Seq(Stream) /\ Len(after) = Len(ss) /\ DOMAIN after = DOMAIN ss
        /\ after[h] = s /\ \A i \in DOMAIN ss : i # h => after[i] = ss[i]
        /\ StreamsOK(after, r) /\ OnePlace(after)
    BY <2>0, <2>2, StreamBecomes DEF old, m
  <2>6. q2[m] = less /\ \A n \in Number : n # m => q2[n] = st.seqs[n]
    BY <2>0, <2>1
  <2> HIDE DEF after, q2
  <2>7. \A n \in Number : st.seqs[n].refs \in Nat BY <2>0 DEF SeqState
  <2>8. Referred(after, q2) /\ one.refs >= 1
    <3>1. q2[m].refs = st.seqs[m].refs - 1 BY <2>3, <2>6 DEF one
    <3>2. \A n \in Number : n # m => q2[n].refs = st.seqs[n].refs BY <2>6
    <3>3. /\ ss[h].live /\ ss[h].number \in Number /\ ss[h].code \in StartCodes /\ ~after[h].live
          /\ ss[h].number = m /\ st.seqs[ss[h].number].refs = one.refs
      BY <2>0, <2>1, <2>2, <2>5 DEF old, m, one
    <3>4. h \in DOMAIN ss /\ OnePlace(ss) /\ DOMAIN after = DOMAIN ss /\ Referred(ss, st.seqs)
          /\ \A i \in DOMAIN ss : i # h => after[i] = ss[i]
      BY <2>0, <2>5
    <3>5. Referred(after, q2) /\ st.seqs[ss[h].number].refs >= 1
      BY <2>7, <3>1, <3>2, <3>3, <3>4, OneLess
    <3> QED BY <3>3, <3>5
  <2>9. less \in SeqState
    <3>1. less.refs \in Nat BY <2>3, <2>8
    <3>2. less = [refs |-> less.refs, seq |-> less.seq] BY <2>1 DEF less, SeqState
    <3> QED BY <2>1, <2>3, <3>1, <3>2 DEF SeqState
  <2>10. q2 \in [Number -> SeqState] BY <2>0, <2>1, <2>9 DEF q2
  <2>11. gone \in OutRecordOf BY <1>1, <2>5, <2>10 DEF OutRecordOf
  <2>12. gone.streams = after /\ gone.seqs = q2 /\ gone.output = st.output /\ gone.receiver = st.receiver
    BY <1>1 DEF OutRecordOf
  <2> HIDE DEF gone
  <2>13. ServerOK(gone, r) BY <2>5, <2>8, <2>11, <2>12 DEF ServerOK
  <2> QED BY <1>3, <2>2, <2>4, <2>5, <2>12, <2>13 DEF ss
<1> QED BY <1>2, <1>3

\* Where a universe is put.
LEMMA PlaceIs ==
  ASSUME NEW st, st.streams \in Seq(Stream), NEW n, NEW code
  PROVE  LET h == Place(st, n, code)
         IN  /\ h \in 1..(Len(st.streams) + 1)
             /\ \/ h \in DOMAIN st.streams /\ st.streams[h].number = n /\ st.streams[h].code = code
                \/ /\ \A i \in DOMAIN st.streams : st.streams[i].number # n \/ st.streams[i].code # code
                   /\ h \in DOMAIN st.streams => ~st.streams[h].live
<1> DEFINE same == {h \in DOMAIN st.streams : st.streams[h].number = n /\ st.streams[h].code = code}
           free == {h \in DOMAIN st.streams : ~st.streams[h].live}
<1>1. DOMAIN st.streams = 1..Len(st.streams) /\ Len(st.streams) \in Nat OBVIOUS
<1>2. \A T \in SUBSET (1..Len(st.streams)) : T # {} => Min(T) \in T
  <2> SUFFICES ASSUME NEW T \in SUBSET (1..Len(st.streams)), T # {} PROVE Min(T) \in T OBVIOUS
  <2>1. T \subseteq 0..Len(st.streams) /\ Len(st.streams) \in Nat BY <1>1
  <2>2. PICK m \in T : \A x \in T : m <= x BY <2>1, LeastNumber
  <2> QED BY <2>2 DEF Min
<1>3. CASE same # {}
  <2>1. Min(same) \in same BY <1>1, <1>2, <1>3
  <2>2. Place(st, n, code) = Min(same) BY <1>3 DEF Place
  <2> HIDE DEF free
  <2>3. Min(same) \in DOMAIN st.streams /\ st.streams[Min(same)].number = n /\ st.streams[Min(same)].code = code
    BY <2>1
  <2> HIDE DEF same
  <2> QED BY <1>1, <2>2, <2>3
<1>4. CASE same = {} /\ free # {}
  <2>1. Min(free) \in free BY <1>1, <1>2, <1>4
  <2>2. Place(st, n, code) = Min(free) BY <1>4 DEF Place
  <2> QED BY <1>1, <1>4, <2>1, <2>2
<1>5. CASE same = {} /\ free = {}
  BY <1>1, <1>5 DEF Place
<1> QED BY <1>3, <1>4, <1>5

\* What CreateUniverse makes, in the place it chose: a stream that is sent if every interface
\* can be reached, and nothing else is changed that the handles depend on.
LEMMA CreateKeeps ==
  ASSUME NEW st, reachable \in BOOLEAN, ServerOK(st, reachable),
         NEW n \in Number, NEW code \in StartCodes, NEW priority \in Priority
  PROVE  LET h    == Place(st, n, code)
             made == CreateUniverse(st, n, code, priority)
         IN  /\ ServerOK(made, reachable) /\ made.output = st.output
             /\ h \in DOMAIN made.streams /\ h # 0
             /\ DOMAIN st.streams \subseteq DOMAIN made.streams
             /\ DOMAIN made.streams \subseteq DOMAIN st.streams \cup {h}
             /\ made.streams[h] = InitStreamHeader(n, code, priority)
             /\ \A i \in DOMAIN st.streams : i # h => made.streams[i] = st.streams[i]
             /\ h \in DOMAIN st.streams =>
                  ~st.streams[h].live \/ (st.streams[h].number = n /\ st.streams[h].code = code)
<1> DEFINE h    == Place(st, n, code)
           gone == IF h \in DOMAIN st.streams THEN Destruction(st, h) ELSE st
           new  == InitStreamHeader(n, code, priority)
           ss   == gone.streams
           after == IF h \in DOMAIN ss THEN [ss EXCEPT ![h] = new] ELSE Append(ss, new)
           taken == SeqTaken(gone.seqs[n])
           q2    == [gone.seqs EXCEPT ![n] = taken]
           heard == [gone.receiver[n] EXCEPT !.behind =
                       IF gone.receiver[n].known /\ gone.seqs[n].refs = 0 THEN {"dmx", "pcp"} ELSE @]
           rc    == [gone.receiver EXCEPT ![n] = heard]
           made  == [gone EXCEPT !.streams = after, !.seqs = q2, !.receiver = rc]
<1>1. /\ st \in OutRecordOf /\ st.streams \in Seq(Stream)
      /\ DOMAIN st.streams = 1..Len(st.streams) /\ Len(st.streams) \in Nat
  <2>1. st \in OutRecordOf BY DEF ServerOK
  <2>2. st.streams \in Seq(Stream) BY <2>1 DEF OutRecordOf
  <2> QED BY <2>1, <2>2
<1>2. /\ h \in 1..(Len(st.streams) + 1)
      /\ \/ h \in DOMAIN st.streams /\ st.streams[h].number = n /\ st.streams[h].code = code
         \/ /\ \A i \in DOMAIN st.streams : st.streams[i].number # n \/ st.streams[i].code # code
            /\ h \in DOMAIN st.streams => ~st.streams[h].live
  BY <1>1, PlaceIs
<1>3. CreateUniverse(st, n, code, priority) = made
  <2> HIDE DEF gone, new, h
  <2>1. CreateUniverse(st, n, code, priority) =
          [gone EXCEPT !.streams = IF h \in DOMAIN @ THEN [@ EXCEPT ![h] = new] ELSE Append(@, new),
                       !.seqs[n] = SeqTaken(@),
                       !.receiver[n].behind = IF gone.receiver[n].known /\ gone.seqs[n].refs = 0
                                              THEN {"dmx", "pcp"} ELSE @]
    BY DEF CreateUniverse, gone, new, h
  <2> QED BY <2>1
<1> HIDE DEF h
<1>4. /\ ServerOK(gone, reachable) /\ gone.output = st.output
      /\ DOMAIN gone.streams = DOMAIN st.streams /\ Len(gone.streams) = Len(st.streams)
      /\ h \in DOMAIN st.streams => ~gone.streams[h].live
      /\ \A i \in DOMAIN st.streams : i # h => gone.streams[i] = st.streams[i]
  <2>1. CASE h \in DOMAIN st.streams
    <3>1. gone = Destruction(st, h) BY <2>1
    <3> HIDE DEF gone
    <3> QED BY <2>1, <3>1, DestructionKeeps
  <2>2. CASE h \notin DOMAIN st.streams BY <2>2
  <2> QED BY <2>1, <2>2
<1> HIDE DEF gone
<1>5. /\ gone \in OutRecordOf /\ ss \in Seq(Stream) /\ StreamsOK(ss, reachable) /\ OnePlace(ss)
      /\ Referred(ss, gone.seqs) /\ gone.seqs \in [Number -> SeqState]
      /\ gone.receiver \in [Number -> Receiver] /\ gone.seqs[n] \in SeqState
      /\ gone.receiver[n] \in Receiver
  BY <1>4 DEF ServerOK, OutRecordOf
<1>6. new \in Stream /\ StreamOK(new, reachable) /\ new.number = n /\ new.code = code
  <2>1. 0 \in 0..Repeats /\ 0 \in Level /\ 0 \in Priority /\ 0 \in Nat BY OutConstants
  <2>2. new.data \in [Channel -> Level] /\ new.data \in [Channel -> Priority] /\ new.data \in [Channel -> Nat]
    BY <2>1 DEF InitStreamHeader
  <2>3. code \in {"dmx", "pcp"} BY DEF StartCodes
  <2>4. new \in Stream BY <2>1, <2>3, <2>2 DEF InitStreamHeader, Stream
  <2>5. /\ new.number = n /\ new.code = code /\ new.live = reachable /\ ~new.ended /\ new.terminates = 0
    BY DEF InitStreamHeader
  <2> HIDE DEF new
  <2> QED BY <2>2, <2>4, <2>5 DEF StreamOK
<1>7. /\ taken \in SeqState /\ taken.refs = gone.seqs[n].refs + 1
  <2> DEFINE one == gone.seqs[n]
  <2>1. one \in SeqState /\ one.refs \in Nat /\ 0 \in 0..(SeqSize - 1) BY <1>5, OutConstants DEF SeqState
  <2>2. taken = SeqTaken(one) OBVIOUS
  <2> HIDE DEF one, taken
  <2>3. taken \in SeqState /\ taken.refs = one.refs + 1
    <3>1. CASE one.refs = 0 BY <2>1, <2>2, <3>1 DEF SeqTaken, SeqState
    <3>2. CASE one.refs # 0 BY <2>1, <2>2, <3>2 DEF SeqTaken, SeqState
    <3> QED BY <3>1, <3>2
  <2> QED BY <2>3 DEF one
<1>8. heard \in Receiver
  BY <1>5 DEF Receiver
<1> HIDE DEF new, taken, heard
<1>9. /\ DOMAIN ss = 1..Len(ss) /\ Len(ss) \in Nat /\ h \in 1..(Len(ss) + 1)
      /\ DOMAIN ss = DOMAIN st.streams
  BY <1>1, <1>2, <1>4, <1>5
<1>10. /\ after \in Seq(Stream) /\ h \in DOMAIN after /\ DOMAIN ss \subseteq DOMAIN after
       /\ DOMAIN after \subseteq DOMAIN ss \cup {h} /\ after[h] = new
       /\ \A i \in DOMAIN ss : i # h => after[i] = ss[i]
  <2>1. CASE h \in DOMAIN ss BY <2>1, <1>5, <1>6
  <2>2. CASE h \notin DOMAIN ss
    <3>1. h = Len(ss) + 1 BY <1>9, <2>2
    <3> QED BY <2>2, <3>1, <1>5, <1>6, <1>9
  <2> QED BY <2>1, <2>2
<1>11. q2 \in [Number -> SeqState] /\ q2[n] = taken /\ \A m \in Number : m # n => q2[m] = gone.seqs[m]
  BY <1>5, <1>7
<1>12. rc \in [Number -> Receiver]
  BY <1>5, <1>8
<1> HIDE DEF after, q2, rc
<1>13. made \in OutRecordOf /\ made.streams = after /\ made.seqs = q2 /\ made.output = gone.output
  BY <1>5, <1>10, <1>11, <1>12 DEF OutRecordOf
<1> HIDE DEF made
<1>14. StreamsOK(after, reachable) BY <1>5, <1>6, <1>10 DEF StreamsOK
\* The place is the only one of its number and code.
<1>15. \A i \in DOMAIN ss : i # h => ss[i].number # n \/ ss[i].code # code
  <2>1. CASE h \in DOMAIN st.streams /\ st.streams[h].number = n /\ st.streams[h].code = code
    BY <2>1, <1>4, <1>9 DEF OnePlace, ServerOK
  <2>2. CASE \A i \in DOMAIN st.streams : st.streams[i].number # n \/ st.streams[i].code # code
    BY <2>2, <1>4, <1>9
  <2> QED BY <1>2, <2>1, <2>2
<1>16. OnePlace(after) BY <1>5, <1>6, <1>10, <1>15 DEF OnePlace
<1>17. ~InUse(ss, n, code)
  BY <1>4, <1>9, <1>15 DEF InUse
<1>18. Referred(after, q2)
  <2>1. \A m \in Number : gone.seqs[m].refs \in Nat BY <1>5 DEF SeqState
  <2>2. \A m \in Number : m # n => q2[m].refs = gone.seqs[m].refs BY <1>11
  <2>3. q2[n].refs = gone.seqs[n].refs + 1 BY <1>7, <1>11
  <2>4. h \in DOMAIN ss => ~ss[h].live BY <1>4, <1>9
  <2>5. after[h].number = n /\ after[h].code = code BY <1>6, <1>10
  <2>6. h \in DOMAIN after /\ DOMAIN ss \subseteq DOMAIN after /\ DOMAIN after \subseteq DOMAIN ss \cup {h}
    BY <1>10
  <2>7. \A i \in DOMAIN ss : i # h => after[i] = ss[i] BY <1>10
  <2>8. Referred(ss, gone.seqs) BY <1>5
  <2> HIDE DEF ss
  <2> QED BY <1>17, <2>1, <2>2, <2>3, <2>4, <2>5, <2>6, <2>7, <2>8, OneMore
<1>19. ServerOK(made, reachable) BY <1>13, <1>14, <1>16, <1>18 DEF ServerOK
<1>20. h # 0 BY <1>1, <1>2
<1> QED BY <1>2, <1>3, <1>4, <1>9, <1>10, <1>13, <1>19, <1>20 DEF h, new

-----------------------------------------------------------------------------
(* The same for a stream that goes on, and for the handles.                 *)

\* A call that changes one stream, and of that nothing that tells it apart.
LEMMA OneStreamKeeps ==
  ASSUME NEW st, NEW r \in BOOLEAN, StateOK(st, r), NEW h \in DOMAIN st.streams,
         NEW s, StreamOK(s, r),
         s.number = st.streams[h].number, s.code = st.streams[h].code, s.live = st.streams[h].live,
         s.priority = st.streams[h].priority,
         s.ended = st.streams[h].ended \/ (s.ended /\ h \notin {st.output[s.number].dmx, st.output[s.number].pcp}),
         NEW q, q \in [Number -> SeqState], \A n \in Number : q[n].refs = st.seqs[n].refs,
         NEW rc \in [Number -> Receiver]
  PROVE  StateOK([st EXCEPT !.streams = [st.streams EXCEPT ![h] = s], !.seqs = q, !.receiver = rc], r)
<1> DEFINE ss    == st.streams
           after == [ss EXCEPT ![h] = s]
           new   == [st EXCEPT !.streams = after, !.seqs = q, !.receiver = rc]
<1>1. /\ st \in OutRecordOf /\ ss \in Seq(Stream) /\ StreamsOK(ss, r) /\ OnePlace(ss)
      /\ Referred(ss, st.seqs) /\ HandlesOK(ss, st.output) /\ NoneLeft(ss, st.output)
      /\ st.seqs \in [Number -> SeqState] /\ st.output \in [Number -> OutUniverse]
  BY DEF StateOK, ServerOK, OutRecordOf
<1>2. s \in Stream BY DEF StreamOK
<1>3. /\ after \in Seq(Stream) /\ Len(after) = Len(ss) /\ DOMAIN after = DOMAIN ss
      /\ after[h] = s /\ \A i \in DOMAIN ss : i # h => after[i] = ss[i]
      /\ StreamsOK(after, r) /\ OnePlace(after)
  <2>1. /\ h \in DOMAIN ss /\ s.number = ss[h].number /\ s.code = ss[h].code
        /\ s \in Stream /\ StreamOK(s, r) /\ StreamsOK(ss, r) /\ OnePlace(ss) /\ ss \in Seq(Stream)
    BY <1>1, <1>2
  <2> HIDE DEF ss
  <2> QED BY <2>1, StreamBecomes
<1> HIDE DEF after
<1>4. new \in OutRecordOf /\ new.streams = after /\ new.seqs = q /\ new.output = st.output
  BY <1>1, <1>3 DEF OutRecordOf
<1> HIDE DEF new
<1>5. \A i \in DOMAIN ss : /\ after[i].live = ss[i].live /\ after[i].number = ss[i].number
                           /\ after[i].code = ss[i].code /\ after[i].priority = ss[i].priority
  BY <1>3
<1>6. Referred(after, q)
  <2> SUFFICES ASSUME NEW n \in Number
               PROVE  Count(InUse(after, n, "dmx")) + Count(InUse(after, n, "pcp")) <= q[n].refs
    BY DEF Referred
  <2>1. \A c : InUse(after, n, c) => InUse(ss, n, c) BY <1>3, <1>5 DEF InUse
  <2>2. /\ InUse(after, n, "dmx") => InUse(ss, n, "dmx")
        /\ InUse(after, n, "pcp") => InUse(ss, n, "pcp")
    BY <2>1
  <2>3. Count(InUse(ss, n, "dmx")) + Count(InUse(ss, n, "pcp")) <= st.seqs[n].refs
    BY <1>1 DEF Referred
  <2>4. q[n].refs = st.seqs[n].refs /\ st.seqs[n].refs \in Nat BY <1>1 DEF SeqState
  <2> QED BY <2>2, <2>3, <2>4 DEF Count
<1>7. ServerOK(new, r) BY <1>3, <1>4, <1>6 DEF ServerOK
<1>8. \A i \in DOMAIN ss : after[i].ended = ss[i].ended \/
        (i = h /\ after[i].ended /\ h \notin {st.output[s.number].dmx, st.output[s.number].pcp})
  BY <1>3
<1>9. \A n \in Number : \A c, handle :
        Names(ss, handle, n, c) /\ (handle = st.output[n].dmx \/ handle = st.output[n].pcp)
          => Names(after, handle, n, c)
  <2> SUFFICES ASSUME NEW n \in Number, NEW c, NEW handle, Names(ss, handle, n, c),
                      handle = st.output[n].dmx \/ handle = st.output[n].pcp
               PROVE  Names(after, handle, n, c)
    OBVIOUS
  <2>1. /\ handle \in DOMAIN ss /\ ss[handle].live /\ ~ss[handle].ended /\ ss[handle].number = n
        /\ ss[handle].code = c
    BY DEF Names
  <2>2. ~after[handle].ended
    <3>1. CASE handle = h BY <2>1, <1>3, <1>8, <3>1
    <3>2. CASE handle # h BY <2>1, <1>3, <3>2
    <3> QED BY <3>1, <3>2
  <2> QED BY <2>1, <2>2, <1>3, <1>5 DEF Names
<1>10. HandlesOK(after, st.output)
  <2> SUFFICES ASSUME NEW n \in Number
               PROVE  /\ st.output[n].dmx # 0 => /\ Names(after, st.output[n].dmx, n, "dmx")
                                                 /\ after[st.output[n].dmx].priority = st.output[n].priority
                      /\ st.output[n].pcp # 0 => Names(after, st.output[n].pcp, n, "pcp")
    BY DEF HandlesOK
  <2>1. /\ st.output[n].dmx # 0 => /\ Names(ss, st.output[n].dmx, n, "dmx")
                                    /\ ss[st.output[n].dmx].priority = st.output[n].priority
        /\ st.output[n].pcp # 0 => Names(ss, st.output[n].pcp, n, "pcp")
    BY <1>1 DEF HandlesOK
  <2>2. \A c, handle : Names(ss, handle, n, c) => handle \in DOMAIN ss BY DEF Names
  <2> HIDE DEF ss
  <2> QED BY <2>1, <2>2, <1>5, <1>9
<1>11. NoneLeft(after, st.output)
  <2> SUFFICES ASSUME NEW i \in DOMAIN ss, after[i].live
               PROVE  after[i].ended \/ i \in {st.output[after[i].number].dmx, st.output[after[i].number].pcp}
    BY <1>3 DEF NoneLeft
  <2>1. ss[i].ended \/ i \in {st.output[ss[i].number].dmx, st.output[ss[i].number].pcp}
    BY <1>1, <1>5 DEF NoneLeft
  <2> QED BY <2>1, <1>5, <1>8
<1> QED BY <1>4, <1>7, <1>10, <1>11 DEF StateOK, new, after

\* The sets of the handles change only where they name what is new.
LEMMA DirtyKeeps ==
  ASSUME NEW st, NEW r \in BOOLEAN, StateOK(st, r), NEW h \in DOMAIN st.streams
  PROVE  /\ StateOK(SetUniverseDirty(st, h), r)
         /\ SetUniverseDirty(st, h).output = st.output
         /\ DOMAIN SetUniverseDirty(st, h).streams = DOMAIN st.streams
         /\ SetUniverseDirty(st, h).streams[h].data = st.streams[h].data
         /\ \A i \in DOMAIN st.streams : SetUniverseDirty(st, h).streams[i].code = st.streams[i].code
<1> DEFINE old == st.streams[h]
           s   == [old EXCEPT !.dirty = TRUE, !.waited = TRUE]
           new == [st EXCEPT !.streams = [st.streams EXCEPT ![h] = s], !.seqs = st.seqs, !.receiver = st.receiver]
<1>1. /\ st \in OutRecordOf /\ st.streams \in Seq(Stream) /\ StreamsOK(st.streams, r)
      /\ st.seqs \in [Number -> SeqState] /\ st.receiver \in [Number -> Receiver]
  BY DEF StateOK, ServerOK, OutRecordOf
<1>2. StreamOK(old, r) /\ old \in Stream BY <1>1 DEF StreamsOK, StreamOK
<1>3. /\ s \in Stream /\ s.number = old.number /\ s.code = old.code /\ s.live = old.live /\ s.ended = old.ended
      /\ s.terminates = old.terminates /\ s.data = old.data /\ s.priority = old.priority
  BY <1>2 DEF Stream
<1>4. SetUniverseDirty(st, h) = new
  <2>1. [st.streams EXCEPT ![h].dirty = TRUE, ![h].waited = TRUE] = [st.streams EXCEPT ![h] = s]
    BY <1>1 DEF Stream
  <2>2. SetUniverseDirty(st, h) = [st EXCEPT !.streams = [st.streams EXCEPT ![h].dirty = TRUE, ![h].waited = TRUE]]
    BY DEF SetUniverseDirty
  <2> HIDE DEF s
  <2>3. [st EXCEPT !.streams = [st.streams EXCEPT ![h] = s]] = new
    BY <1>1 DEF OutRecordOf
  <2> QED BY <2>1, <2>2, <2>3
<1> HIDE DEF s
<1>5. StreamOK(s, r) BY <1>2, <1>3 DEF StreamOK
<1>6. StateOK(new, r)
  BY <1>1, <1>3, <1>5, OneStreamKeeps
<1>7. new.output = st.output /\ new.streams = [st.streams EXCEPT ![h] = s]
  BY <1>1 DEF OutRecordOf
<1> QED BY <1>1, <1>3, <1>4, <1>6, <1>7

\* Stream h is new in its place, and the others are as they were.
Placed(ss, after, h, n, code) ==
  /\ h \in DOMAIN after
  /\ DOMAIN ss \subseteq DOMAIN after /\ DOMAIN after \subseteq DOMAIN ss \cup {h}
  /\ \A i \in DOMAIN ss : i # h => after[i] = ss[i]
  /\ h \in DOMAIN ss => ~ss[h].live \/ (ss[h].number = n /\ ss[h].code = code)

\* Of the handles, only the one of the new stream is another one.
Handed(o, o2, h, n, code, priority) ==
  /\ \A m \in Number : m # n => o2[m] = o[m]
  /\ code = "dmx" => o2[n].dmx = h /\ o2[n].pcp = o[n].pcp /\ priority = o2[n].priority
  /\ code = "pcp" => o2[n].pcp = h /\ o2[n].dmx = o[n].dmx /\ o2[n].priority = o[n].priority

\* The handle of a new stream names it.
LEMMA HandleBecomes ==
  ASSUME NEW ss, NEW after, NEW n \in Number, NEW code \in StartCodes, NEW h,
         NEW o, NEW o2, HandlesOK(ss, o), NoneLeft(ss, o), OnePlace(after), StreamsOK(ss, TRUE),
         Placed(ss, after, h, n, code), Names(after, h, n, code), 0 \notin DOMAIN after,
         Handed(o, o2, h, n, code, after[h].priority)
  PROVE  HandlesOK(after, o2) /\ NoneLeft(after, o2)
<1>0. /\ h \in DOMAIN after
      /\ DOMAIN ss \subseteq DOMAIN after /\ DOMAIN after \subseteq DOMAIN ss \cup {h}
      /\ \A i \in DOMAIN ss : i # h => after[i] = ss[i]
      /\ h \in DOMAIN ss => ~ss[h].live \/ (ss[h].number = n /\ ss[h].code = code)
  BY DEF Placed
<1>9. /\ \A m \in Number : m # n => o2[m] = o[m]
      /\ code = "dmx" => o2[n].dmx = h /\ o2[n].pcp = o[n].pcp /\ after[h].priority = o2[n].priority
      /\ code = "pcp" => o2[n].pcp = h /\ o2[n].dmx = o[n].dmx /\ o2[n].priority = o[n].priority
  BY DEF Handed
<1>1. \A m \in Number : \A c, handle :
        Names(ss, handle, m, c) /\ (m # n \/ c # code) => Names(after, handle, m, c) /\ after[handle] = ss[handle]
  BY <1>0 DEF Names
<1>2. HandlesOK(after, o2)
  <2> SUFFICES ASSUME NEW m \in Number
               PROVE  /\ o2[m].dmx # 0 => /\ Names(after, o2[m].dmx, m, "dmx")
                                          /\ after[o2[m].dmx].priority = o2[m].priority
                      /\ o2[m].pcp # 0 => Names(after, o2[m].pcp, m, "pcp")
    BY DEF HandlesOK
  <2>1. /\ o[m].dmx # 0 => Names(ss, o[m].dmx, m, "dmx") /\ ss[o[m].dmx].priority = o[m].priority
        /\ o[m].pcp # 0 => Names(ss, o[m].pcp, m, "pcp")
    BY DEF HandlesOK
  <2>2. CASE m # n BY <2>1, <2>2, <1>1, <1>9
  <2>3. CASE m = n /\ code = "dmx" BY <2>1, <2>3, <1>1, <1>9
  <2>4. CASE m = n /\ code = "pcp" BY <2>1, <2>4, <1>1, <1>9
  <2> QED BY <2>2, <2>3, <2>4 DEF StartCodes
<1>3. NoneLeft(after, o2)
  <2> SUFFICES ASSUME NEW i \in DOMAIN after, after[i].live
               PROVE  after[i].ended \/ i \in {o2[after[i].number].dmx, o2[after[i].number].pcp}
    BY DEF NoneLeft
  <2>1. CASE i = h
    <3>1. after[i].number = n BY <2>1 DEF Names
    <3> QED BY <2>1, <3>1, <1>9 DEF StartCodes
  <2>2. CASE i # h
    <3>1. i \in DOMAIN ss /\ after[i] = ss[i] BY <2>2, <1>0
    <3>2. ss[i].ended \/ i \in {o[ss[i].number].dmx, o[ss[i].number].pcp} BY <3>1 DEF NoneLeft
    <3>3. ss[i].number \in Number /\ ss[i].code \in StartCodes
      BY <3>1 DEF StreamsOK, StreamOK, Stream, StartCodes
    <3>4. CASE ss[i].number # n BY <3>1, <3>2, <3>3, <3>4, <1>9
    <3>5. CASE ss[i].number = n
      <4>1. after[h].number = n /\ after[h].code = code /\ h \in DOMAIN after BY <1>0 DEF Names
      <4>2. ss[i].code # code BY <2>2, <3>1, <3>5, <4>1 DEF OnePlace
      <4>0. i # 0 OBVIOUS
      <4>3. i = o[n].dmx => ss[i].code = "dmx" BY <4>0 DEF HandlesOK, Names
      <4>4. i = o[n].pcp => ss[i].code = "pcp" BY <4>0 DEF HandlesOK, Names
      <4>5. CASE code = "dmx"
        <5>1. o2[n].pcp = o[n].pcp BY <4>5, <1>9
        <5> QED BY <3>1, <3>2, <3>5, <4>2, <4>3, <4>5, <5>1, <1>9
      <4>6. CASE code = "pcp"
        <5>1. o2[n].dmx = o[n].dmx BY <4>6, <1>9
        <5> QED BY <3>1, <3>2, <3>5, <4>2, <4>4, <4>6, <5>1, <1>9
      <4> QED BY <4>5, <4>6 DEF StartCodes
    <3> QED BY <3>4, <3>5
  <2> QED BY <2>1, <2>2
<1> QED BY <1>2, <1>3

-----------------------------------------------------------------------------
(* A packet of the router: the levels, the priorities, what is written.     *)

LEMMA WrittenIs ==
  ASSUME NEW T, NEW data \in [Channel -> T], NEW offset \in Nat, NEW values \in Seq(T)
  PROVE  Written(data, offset, values) \in [Channel -> T]
<1>1. \A c \in Channel : c - offset \in DOMAIN values => values[c - offset] \in T OBVIOUS
<1> QED BY <1>1 DEF Written

\* The universes of a handle are those of the others, but for one field of one of them.
LEMMA PlacesArePositive ==
  ASSUME NEW ss \in Seq(Stream)
  PROVE  0 \notin DOMAIN ss
  OBVIOUS

LEMMA WithDmxKeeps ==
  ASSUME NEW st, reachable \in BOOLEAN, StateOK(st, reachable), NEW n \in Number, NEW p \in OutPacket
  PROVE  StateOK(WithDmx(st, n, p), reachable) /\ (WithDmx(st, n, p).output[n].dmx # 0 => reachable)
<1> DEFINE o       == st.output[n]
           changed == p.mode = "priority" /\ o.priority # p.priority
           made    == CreateUniverse(st, n, "dmx", p.priority)
           h       == Place(st, n, "dmx")
<1>1. /\ st \in OutRecordOf /\ ServerOK(st, reachable) /\ HandlesOK(st.streams, st.output)
      /\ NoneLeft(st.streams, st.output) /\ StreamsOK(st.streams, reachable)
      /\ st.output \in [Number -> OutUniverse] /\ st.streams \in Seq(Stream)
      /\ p.priority \in Priority /\ o \in OutUniverse
  BY DEF StateOK, ServerOK, OutRecordOf, OutPacket
<1>2. \A m \in Number : st.output[m].dmx # 0 \/ st.output[m].pcp # 0 => reachable
  BY <1>1 DEF HandlesOK, Names, StreamsOK, StreamOK
<1>3. CASE o.dmx # 0 /\ ~changed
  <2>1. WithDmx(st, n, p) = st BY <1>3 DEF WithDmx
  <2> QED BY <1>2, <2>1
<1>4. /\ ServerOK(made, reachable) /\ made.output = st.output
      /\ h \in DOMAIN made.streams
      /\ DOMAIN st.streams \subseteq DOMAIN made.streams
      /\ DOMAIN made.streams \subseteq DOMAIN st.streams \cup {h}
      /\ made.streams[h] = InitStreamHeader(n, "dmx", p.priority)
      /\ \A i \in DOMAIN st.streams : i # h => made.streams[i] = st.streams[i]
      /\ h \in DOMAIN st.streams =>
           ~st.streams[h].live \/ (st.streams[h].number = n /\ st.streams[h].code = "dmx")
  BY <1>1, CreateKeeps DEF StartCodes
<1> HIDE DEF made, h
<1>5. /\ made \in OutRecordOf /\ made.streams \in Seq(Stream) /\ StreamsOK(made.streams, reachable)
      /\ OnePlace(made.streams) /\ 0 \notin DOMAIN made.streams
  <2>1. /\ made \in OutRecordOf /\ StreamsOK(made.streams, reachable) /\ OnePlace(made.streams)
    BY <1>4 DEF ServerOK
  <2>2. made.streams \in Seq(Stream) BY <2>1 DEF OutRecordOf
  <2> QED BY <2>1, <2>2, PlacesArePositive
<1>6. CASE ~(o.dmx # 0 /\ ~changed) /\ reachable
  <2> DEFINE u   == [o EXCEPT !.dmx = h, !.priority = p.priority, !.connected = TRUE]
             o2  == [st.output EXCEPT ![n] = u]
             new == [made EXCEPT !.output = o2]
  <2>1. WithDmx(st, n, p) = SetUniverseDirty(new, h)
    <3>1. WithDmx(st, n, p) = SetUniverseDirty([made EXCEPT !.output[n] =
                  [@ EXCEPT !.dmx = h, !.priority = p.priority, !.connected = TRUE]], h)
      BY <1>6 DEF WithDmx, made, h
    <3>2. [made EXCEPT !.output[n] = [@ EXCEPT !.dmx = h, !.priority = p.priority, !.connected = TRUE]] = new
      BY <1>4
    <3> QED BY <3>1, <3>2
  <2>2. u \in OutUniverse /\ u.dmx = h /\ u.pcp = o.pcp /\ u.priority = p.priority
    <3>1. h \in Nat BY <1>4, <1>5
    <3> QED BY <1>1, <3>1 DEF OutUniverse
  <2> HIDE DEF u
  <2>3. o2 \in [Number -> OutUniverse] /\ o2[n] = u /\ \A m \in Number : m # n => o2[m] = st.output[m]
    BY <1>1, <2>2
  <2> HIDE DEF o2
  <2>4. new \in OutRecordOf /\ new.streams = made.streams /\ new.seqs = made.seqs /\ new.output = o2
    BY <1>5, <2>3 DEF OutRecordOf
  <2>5. Names(made.streams, h, n, "dmx") /\ made.streams[h].priority = p.priority
    BY <1>4, <1>6 DEF Names, InitStreamHeader
  <2>6. HandlesOK(made.streams, o2) /\ NoneLeft(made.streams, o2)
    <3> DEFINE ss == st.streams  after == made.streams  before == st.output
    <3>1. /\ HandlesOK(ss, before) /\ NoneLeft(ss, before) /\ OnePlace(after) /\ StreamsOK(ss, TRUE)
          /\ 0 \notin DOMAIN after /\ h \in DOMAIN after
      BY <1>1, <1>4, <1>5, <1>6
    <3>2. Placed(ss, after, h, n, "dmx") BY <1>4 DEF Placed
    <3>3. Handed(before, o2, h, n, "dmx", after[h].priority)
      BY <2>2, <2>3, <2>5 DEF Handed
    <3>4. Names(after, h, n, "dmx") /\ "dmx" \in StartCodes BY <2>5 DEF StartCodes
    <3> HIDE DEF ss, after, before
    <3>5. HandlesOK(after, o2) /\ NoneLeft(after, o2)
      BY <3>1, <3>2, <3>3, <3>4, HandleBecomes
    <3> QED BY <3>5 DEF after
  <2>7. StateOK(new, reachable)
    BY <1>4, <2>4, <2>6 DEF StateOK, ServerOK
  <2> HIDE DEF new
  <2>8. StateOK(SetUniverseDirty(new, h), reachable) /\ SetUniverseDirty(new, h).output = new.output
    BY <2>4, <2>7, <1>4, DirtyKeeps
  <2> QED BY <1>6, <2>1, <2>8
<1>7. CASE ~(o.dmx # 0 /\ ~changed) /\ ~reachable
  <2> DEFINE o2  == [st.output EXCEPT ![n].dmx = 0]
             new == [made EXCEPT !.output = o2]
  <2>1. WithDmx(st, n, p) = new
    <3>1. WithDmx(st, n, p) = [made EXCEPT !.output[n].dmx = 0] BY <1>7 DEF WithDmx, made
    <3>2. [made EXCEPT !.output[n].dmx = 0] = [made EXCEPT !.output = [made.output EXCEPT ![n].dmx = 0]] OBVIOUS
    <3> QED BY <3>1, <3>2, <1>4
  <2>2. o2 \in [Number -> OutUniverse] /\ \A m \in Number : o2[m].dmx = 0 /\ o2[m].pcp = 0
    <3>1. [o EXCEPT !.dmx = 0] \in OutUniverse BY <1>1 DEF OutUniverse
    <3>2. o2 = [st.output EXCEPT ![n] = [o EXCEPT !.dmx = 0]] BY <1>1
    <3>3. \A m \in Number : st.output[m].dmx = 0 /\ st.output[m].pcp = 0 BY <1>2, <1>7
    <3>4. [o EXCEPT !.dmx = 0].dmx = 0 /\ [o EXCEPT !.dmx = 0].pcp = o.pcp BY <1>1 DEF OutUniverse
    <3>5. o2 \in [Number -> OutUniverse] BY <1>1, <3>1, <3>2
    <3>6. \A m \in Number : o2[m] = IF m = n THEN [o EXCEPT !.dmx = 0] ELSE st.output[m] BY <1>1, <3>2
    <3> QED BY <3>3, <3>4, <3>5, <3>6
  <2> HIDE DEF o2
  <2>3. new \in OutRecordOf /\ new.streams = made.streams /\ new.seqs = made.seqs /\ new.output = o2
    BY <1>5, <2>2 DEF OutRecordOf
  <2> HIDE DEF new
  <2>4. HandlesOK(new.streams, new.output) BY <2>2, <2>3 DEF HandlesOK
  <2>5. NoneLeft(new.streams, new.output) BY <1>5, <1>7, <2>3 DEF NoneLeft, StreamsOK, StreamOK
  <2>6. StateOK(new, reachable) BY <1>4, <2>3, <2>4, <2>5 DEF StateOK, ServerOK
  <2> QED BY <2>1, <2>2, <2>3, <2>6
<1> QED BY <1>1, <1>3, <1>6, <1>7

\* The data of a stream become others of its kind.
LEMMA DataBecome ==
  ASSUME NEW st, NEW r \in BOOLEAN, StateOK(st, r), NEW h \in DOMAIN st.streams, NEW data,
         st.streams[h].code = "dmx" => data \in [Channel -> Level],
         st.streams[h].code = "pcp" => data \in [Channel -> Priority]
  PROVE  LET new == [st EXCEPT !.streams = [st.streams EXCEPT ![h] = [st.streams[h] EXCEPT !.data = data]]]
         IN StateOK(new, r) /\ new.output = st.output /\ DOMAIN new.streams = DOMAIN st.streams
<1> DEFINE old == st.streams[h]
           s   == [old EXCEPT !.data = data]
           new == [st EXCEPT !.streams = [st.streams EXCEPT ![h] = s]]
           alt == [st EXCEPT !.streams = [st.streams EXCEPT ![h] = s], !.seqs = st.seqs, !.receiver = st.receiver]
<1>1. /\ st \in OutRecordOf /\ st.streams \in Seq(Stream) /\ StreamsOK(st.streams, r)
      /\ st.seqs \in [Number -> SeqState] /\ st.receiver \in [Number -> Receiver]
  BY DEF StateOK, ServerOK, OutRecordOf
<1>2. StreamOK(old, r) /\ old \in Stream /\ old.code \in {"dmx", "pcp"}
  <2>1. StreamOK(old, r) BY <1>1 DEF StreamsOK
  <2> QED BY <2>1 DEF StreamOK, Stream
<1>3. data \in [Channel -> Nat]
  <2>1. data \in [Channel -> Level] \/ data \in [Channel -> Priority] BY <1>2
  <2> QED BY <2>1, OutConstants
<1>4. /\ s \in Stream /\ s.number = old.number /\ s.code = old.code /\ s.live = old.live /\ s.ended = old.ended
      /\ s.terminates = old.terminates /\ s.priority = old.priority /\ s.data = data
  BY <1>2, <1>3 DEF Stream
<1>5. new = alt BY <1>1 DEF OutRecordOf
<1> HIDE DEF s
<1>6. StreamOK(s, r) BY <1>2, <1>4 DEF StreamOK
<1>7. StateOK(alt, r) BY <1>1, <1>4, <1>6, OneStreamKeeps
<1>8. new.output = st.output /\ new.streams = [st.streams EXCEPT ![h] = s] BY <1>1 DEF OutRecordOf
<1> QED BY <1>1, <1>5, <1>7, <1>8 DEF s

\* The handle of the priorities, or what the router notes of them.
LEMMA PriorityNoted ==
  ASSUME NEW st, NEW r \in BOOLEAN, StateOK(st, r), NEW n \in Number, NEW priority \in Priority
  PROVE  LET new == [st EXCEPT !.output[n].pcpPriority = priority]
         IN StateOK(new, r) /\ new.streams = st.streams /\ new.output[n].dmx = st.output[n].dmx
<1> DEFINE o   == st.output[n]
           u   == [o EXCEPT !.pcpPriority = priority]
           o2  == [st.output EXCEPT ![n] = u]
           new == [st EXCEPT !.output = o2]
<1>1. /\ st \in OutRecordOf /\ st.output \in [Number -> OutUniverse] /\ o \in OutUniverse
      /\ HandlesOK(st.streams, st.output) /\ NoneLeft(st.streams, st.output)
      /\ StreamsOK(st.streams, r)
  BY DEF StateOK, ServerOK, OutRecordOf
<1>2. u \in OutUniverse /\ u.dmx = o.dmx /\ u.pcp = o.pcp /\ u.priority = o.priority
  BY <1>1 DEF OutUniverse
<1>3. [st EXCEPT !.output[n].pcpPriority = priority] = new OBVIOUS
<1> HIDE DEF u
<1>4. o2 \in [Number -> OutUniverse] /\ \A m \in Number : /\ o2[m].dmx = st.output[m].dmx
                                                           /\ o2[m].pcp = st.output[m].pcp
                                                           /\ o2[m].priority = st.output[m].priority
  BY <1>1, <1>2
<1> HIDE DEF o2
<1>5. new \in OutRecordOf /\ new.streams = st.streams /\ new.seqs = st.seqs /\ new.output = o2
  BY <1>1, <1>4 DEF OutRecordOf
<1> HIDE DEF new
<1>6. HandlesOK(new.streams, new.output) BY <1>1, <1>4, <1>5 DEF HandlesOK
<1>7. NoneLeft(new.streams, new.output)
  <2>1. \A i \in DOMAIN st.streams : st.streams[i].number \in Number
    BY <1>1 DEF StreamsOK, StreamOK, Stream
  <2> QED BY <1>1, <1>4, <1>5, <2>1 DEF NoneLeft
<1>8. ServerOK(new, r) BY <1>5 DEF StateOK, ServerOK
<1> QED BY <1>3, <1>4, <1>5, <1>6, <1>7, <1>8 DEF StateOK

\* The universe of priorities is created and named.
LEMMA PcpCreated ==
  ASSUME NEW st, StateOK(st, reachable), reachable \in BOOLEAN, NEW n \in Number,
         NEW priority \in Priority
  PROVE  LET h    == Place(st, n, "pcp")
             made == [CreateUniverse(st, n, "pcp", priority) EXCEPT !.output[n].pcp = h]
         IN  /\ reachable => StateOK(made, reachable)
             /\ made.output[n].dmx = st.output[n].dmx
             /\ made.output[n].pcp = h /\ h # 0
<1> DEFINE o    == st.output[n]
           h    == Place(st, n, "pcp")
           made == CreateUniverse(st, n, "pcp", priority)
           u    == [o EXCEPT !.pcp = h]
           o2   == [st.output EXCEPT ![n] = u]
           new  == [made EXCEPT !.output = o2]
<1>1. /\ st \in OutRecordOf /\ ServerOK(st, reachable) /\ HandlesOK(st.streams, st.output)
      /\ NoneLeft(st.streams, st.output) /\ StreamsOK(st.streams, reachable)
      /\ st.output \in [Number -> OutUniverse] /\ st.streams \in Seq(Stream) /\ o \in OutUniverse
  BY DEF StateOK, ServerOK, OutRecordOf
<1>2. /\ ServerOK(made, reachable) /\ made.output = st.output
      /\ h \in DOMAIN made.streams /\ h # 0
      /\ DOMAIN st.streams \subseteq DOMAIN made.streams
      /\ DOMAIN made.streams \subseteq DOMAIN st.streams \cup {h}
      /\ made.streams[h] = InitStreamHeader(n, "pcp", priority)
      /\ \A i \in DOMAIN st.streams : i # h => made.streams[i] = st.streams[i]
      /\ h \in DOMAIN st.streams =>
           ~st.streams[h].live \/ (st.streams[h].number = n /\ st.streams[h].code = "pcp")
  <2>1. ServerOK(st, reachable) /\ reachable \in BOOLEAN /\ "pcp" \in StartCodes BY <1>1 DEF StartCodes
  <2> QED BY <2>1, CreateKeeps
<1> HIDE DEF made, h
<1>3. /\ made \in OutRecordOf /\ made.streams \in Seq(Stream) /\ StreamsOK(made.streams, reachable)
      /\ OnePlace(made.streams) /\ 0 \notin DOMAIN made.streams
  <2>1. /\ made \in OutRecordOf /\ StreamsOK(made.streams, reachable) /\ OnePlace(made.streams)
    BY <1>2 DEF ServerOK
  <2>2. made.streams \in Seq(Stream) BY <2>1 DEF OutRecordOf
  <2> QED BY <2>1, <2>2, PlacesArePositive
<1>4. [made EXCEPT !.output[n].pcp = h] = new BY <1>2
<1>5. u \in OutUniverse /\ u.pcp = h /\ u.dmx = o.dmx /\ u.priority = o.priority
  <2>1. h \in Nat BY <1>2, <1>3
  <2> QED BY <1>1, <2>1 DEF OutUniverse
<1> HIDE DEF u
<1>6. o2 \in [Number -> OutUniverse] /\ o2[n] = u /\ \A m \in Number : m # n => o2[m] = st.output[m]
  BY <1>1, <1>5
<1> HIDE DEF o2
<1>7. new \in OutRecordOf /\ new.streams = made.streams /\ new.seqs = made.seqs /\ new.output = o2
  BY <1>3, <1>6 DEF OutRecordOf
<1>8. reachable => Names(made.streams, h, n, "pcp") BY <1>2 DEF Names, InitStreamHeader
<1>9. ASSUME reachable PROVE HandlesOK(made.streams, o2) /\ NoneLeft(made.streams, o2)
  <2> DEFINE ss == st.streams  after == made.streams  before == st.output
  <2>1. /\ HandlesOK(ss, before) /\ NoneLeft(ss, before) /\ OnePlace(after) /\ StreamsOK(ss, TRUE)
        /\ 0 \notin DOMAIN after /\ h \in DOMAIN after
    BY <1>1, <1>2, <1>3, <1>9
  <2>2. Placed(ss, after, h, n, "pcp") BY <1>2 DEF Placed
  <2>3. Handed(before, o2, h, n, "pcp", after[h].priority)
    BY <1>5, <1>6 DEF Handed
  <2>4. Names(after, h, n, "pcp") /\ "pcp" \in StartCodes BY <1>8, <1>9 DEF StartCodes
  <2> HIDE DEF ss, after, before
  <2>5. HandlesOK(after, o2) /\ NoneLeft(after, o2)
    BY <2>1, <2>2, <2>3, <2>4, HandleBecomes
  <2> QED BY <2>5 DEF after
<1> HIDE DEF new
<1>10. reachable => StateOK(new, reachable) BY <1>2, <1>7, <1>9 DEF StateOK, ServerOK
<1> QED BY <1>2, <1>4, <1>5, <1>6, <1>7, <1>10 DEF made, h

LEMMA WithPcpKeeps ==
  ASSUME NEW st, StateOK(st, reachable), reachable \in BOOLEAN, NEW n \in Number, NEW p \in OutPacket
  PROVE  reachable => /\ StateOK(WithPcp(st, n, p), reachable)
                      /\ WithPcp(st, n, p).output[n].dmx = st.output[n].dmx
<1> DEFINE o          == st.output[n]
           initialize == o.pcp = 0
           made       == IF initialize
                         THEN [CreateUniverse(st, n, "pcp", p.priority) EXCEPT
                                 !.output[n].pcp = Place(st, n, "pcp")]
                         ELSE st
           h          == made.output[n].pcp
           marked     == PcpMarked(made, h, initialize)
           priorities == [i \in DOMAIN p.args |-> p.priority]
           marks      == p.mode = "perChannelPriority" /\ (initialize \/ o.pcpPriority # p.priority)
           ends       == p.mode # "perChannelPriority" /\ o.pcp # 0
<1>1. /\ HandlesOK(st.streams, st.output) /\ NoneLeft(st.streams, st.output)
      /\ StreamsOK(st.streams, reachable) /\ OnePlace(st.streams) /\ Referred(st.streams, st.seqs)
      /\ st \in OutRecordOf /\ st.streams \in Seq(Stream) /\ st.output \in [Number -> OutUniverse]
      /\ st.seqs \in [Number -> SeqState] /\ st.receiver \in [Number -> Receiver] /\ o \in OutUniverse
      /\ p.priority \in Priority /\ p.offset \in Nat /\ p.args \in Seq(Level)
  BY DEF StateOK, ServerOK, OutRecordOf, OutPacket
<1>2. WithPcp(st, n, p) =
        CASE marks -> [marked EXCEPT !.output[n].pcpPriority = p.priority,
                                     !.streams[h].data = Written(@, p.offset, priorities)]
          [] ends -> [DestroyUniverse(st, o.pcp) EXCEPT !.output[n].pcp = 0]
          [] OTHER -> st
  BY DEF WithPcp
<1>3. CASE reachable /\ marks
  <2>1. StateOK(made, reachable) /\ made.output[n].dmx = o.dmx /\ h # 0
    <3>1. CASE initialize
      <4>1. made = [CreateUniverse(st, n, "pcp", p.priority) EXCEPT !.output[n].pcp = Place(st, n, "pcp")]
        BY <3>1
      <4> HIDE DEF made
      <4>2. reachable BY <1>3
      <4> QED BY <1>1, <4>1, <4>2, PcpCreated
    <3>2. CASE ~initialize BY <3>2
    <3> QED BY <3>1, <3>2
  <2> HIDE DEF made
  <2>2. Names(made.streams, h, n, "pcp") BY <2>1 DEF StateOK, HandlesOK
  <2>3. marked = SetUniverseDirty(made, h) BY DEF PcpMarked
  <2>4. h \in DOMAIN made.streams /\ made.streams[h].code = "pcp" BY <2>2 DEF Names
  <2> HIDE DEF h
  <2>5. /\ StateOK(SetUniverseDirty(made, h), reachable)
        /\ SetUniverseDirty(made, h).output = made.output
        /\ DOMAIN SetUniverseDirty(made, h).streams = DOMAIN made.streams
        /\ SetUniverseDirty(made, h).streams[h].data = made.streams[h].data
        /\ \A i \in DOMAIN made.streams : SetUniverseDirty(made, h).streams[i].code = made.streams[i].code
    BY <2>1, <2>4, DirtyKeeps
  <2> HIDE DEF marked
  <2>6. StateOK(marked, reachable) /\ marked.output = made.output /\ h \in DOMAIN marked.streams
        /\ marked.streams[h].code = "pcp"
    BY <2>3, <2>4, <2>5
  <2> DEFINE data  == Written(marked.streams[h].data, p.offset, priorities)
             after == [marked EXCEPT !.streams = [marked.streams EXCEPT ![h] = [marked.streams[h] EXCEPT !.data = data]]]
  <2>7. data \in [Channel -> Priority]
    <3>1. marked.streams[h].data \in [Channel -> Priority]
      BY <2>6 DEF StateOK, ServerOK, StreamsOK, StreamOK
    <3>2. priorities \in Seq(Priority) BY <1>1
    <3> HIDE DEF priorities
    <3> QED BY <1>1, <3>1, <3>2, WrittenIs
  <2>8. WithPcp(st, n, p) = [after EXCEPT !.output[n].pcpPriority = p.priority]
    <3>1. WithPcp(st, n, p) = [marked EXCEPT !.output[n].pcpPriority = p.priority,
                                             !.streams[h].data = Written(@, p.offset, priorities)]
      BY <1>2, <1>3
    <3> QED BY <3>1
  <2> HIDE DEF data
  <2>9. StateOK(after, reachable) /\ after.output = marked.output BY <2>6, <2>7, DataBecome
  <2> HIDE DEF after
  <2>10. /\ StateOK([after EXCEPT !.output[n].pcpPriority = p.priority], reachable)
         /\ [after EXCEPT !.output[n].pcpPriority = p.priority].output[n].dmx = after.output[n].dmx
    BY <1>1, <2>9, PriorityNoted
  <2> QED BY <2>1, <2>6, <2>8, <2>9, <2>10
<1>4. CASE reachable /\ ~marks /\ ends
  <2> DEFINE i     == o.pcp
             old   == st.streams[i]
             s     == [old EXCEPT !.ended = TRUE]
             after == [st.streams EXCEPT ![i] = s]
             u     == [o EXCEPT !.pcp = 0]
             o2    == [st.output EXCEPT ![n] = u]
             new   == [st EXCEPT !.streams = after, !.output = o2]
  <2>1. Names(st.streams, i, n, "pcp") BY <1>1, <1>4 DEF HandlesOK
  <2>2. i \in DOMAIN st.streams /\ old.live /\ old.number = n /\ old.code = "pcp" BY <2>1 DEF Names
  <2>3. StreamOK(old, reachable) /\ old \in Stream BY <1>1, <2>2 DEF StreamsOK, StreamOK
  <2>4. WithPcp(st, n, p) = new
    <3>1. WithPcp(st, n, p) = [DestroyUniverse(st, i) EXCEPT !.output[n].pcp = 0]
      BY <1>2, <1>4
    <3>2. DestroyUniverse(st, i) = [st EXCEPT !.streams[i].ended = TRUE] BY <2>2 DEF DestroyUniverse
    <3> QED BY <3>1, <3>2
  <2>5. /\ s \in Stream /\ s.number = n /\ s.code = "pcp" /\ s.live = old.live /\ s.ended
        /\ s.terminates = old.terminates /\ s.priority = old.priority /\ s.data = old.data
    BY <2>2, <2>3 DEF Stream
  <2> HIDE DEF s
  <2>6. StreamOK(s, reachable) BY <2>2, <2>3, <2>5 DEF StreamOK
  <2>7. u \in OutUniverse /\ u.pcp = 0 /\ u.dmx = o.dmx /\ u.priority = o.priority BY <1>1 DEF OutUniverse
  <2> HIDE DEF u
  <2>8. o2 \in [Number -> OutUniverse] /\ o2[n] = u /\ \A m \in Number : m # n => o2[m] = st.output[m]
    BY <1>1, <2>7
  <2>9. /\ after \in Seq(Stream) /\ DOMAIN after = DOMAIN st.streams
        /\ after[i] = s /\ \A j \in DOMAIN st.streams : j # i => after[j] = st.streams[j]
        /\ StreamsOK(after, reachable) /\ OnePlace(after)
    <3> DEFINE ss == st.streams
    <3>1. /\ i \in DOMAIN ss /\ s.number = ss[i].number /\ s.code = ss[i].code
          /\ s \in Stream /\ StreamOK(s, reachable) /\ StreamsOK(ss, reachable) /\ OnePlace(ss) /\ ss \in Seq(Stream)
      BY <1>1, <2>2, <2>5, <2>6
    <3> HIDE DEF ss, i
    <3>2. LET a == [ss EXCEPT ![i] = s]
          IN  /\ a \in Seq(Stream) /\ Len(a) = Len(ss) /\ DOMAIN a = DOMAIN ss
              /\ a[i] = s /\ \A j \in DOMAIN ss : j # i => a[j] = ss[j]
              /\ StreamsOK(a, reachable) /\ OnePlace(a)
      BY <3>1, StreamBecomes
    <3> QED BY <3>2 DEF ss
  <2> HIDE DEF after, o2
  <2>10. new \in OutRecordOf /\ new.streams = after /\ new.seqs = st.seqs /\ new.output = o2
    BY <1>1, <2>8, <2>9 DEF OutRecordOf
  <2> HIDE DEF new
  <2>11. Referred(after, st.seqs)
    <3> SUFFICES ASSUME NEW m \in Number
                 PROVE  Count(InUse(after, m, "dmx")) + Count(InUse(after, m, "pcp")) <= st.seqs[m].refs
      BY DEF Referred
    <3>1. \A c : InUse(after, m, c) => InUse(st.streams, m, c) BY <2>2, <2>5, <2>9 DEF InUse
    <3>2. /\ InUse(after, m, "dmx") => InUse(st.streams, m, "dmx")
          /\ InUse(after, m, "pcp") => InUse(st.streams, m, "pcp")
      BY <3>1
    <3>3. Count(InUse(st.streams, m, "dmx")) + Count(InUse(st.streams, m, "pcp")) <= st.seqs[m].refs
          /\ st.seqs[m].refs \in Nat
      BY <1>1 DEF Referred, SeqState
    <3> QED BY <3>2, <3>3 DEF Count
  <2>12. HandlesOK(after, o2)
    <3> SUFFICES ASSUME NEW m \in Number
                 PROVE  /\ o2[m].dmx # 0 => /\ Names(after, o2[m].dmx, m, "dmx")
                                            /\ after[o2[m].dmx].priority = o2[m].priority
                        /\ o2[m].pcp # 0 => Names(after, o2[m].pcp, m, "pcp")
      BY DEF HandlesOK
    <3>1. /\ st.output[m].dmx # 0 => /\ Names(st.streams, st.output[m].dmx, m, "dmx")
                                     /\ st.streams[st.output[m].dmx].priority = st.output[m].priority
          /\ st.output[m].pcp # 0 => Names(st.streams, st.output[m].pcp, m, "pcp")
      BY <1>1 DEF HandlesOK
    <3>2. \A handle, c : Names(st.streams, handle, m, c) /\ (m # n \/ c # "pcp")
            => Names(after, handle, m, c) /\ after[handle] = st.streams[handle]
      BY <2>2, <2>9 DEF Names
    <3>3. CASE m = n BY <3>1, <3>2, <3>3, <2>7, <2>8
    <3>4. CASE m # n BY <3>1, <3>2, <3>4, <2>8
    <3> QED BY <3>3, <3>4
  <2>13. NoneLeft(after, o2)
    <3> SUFFICES ASSUME NEW j \in DOMAIN after, after[j].live
                 PROVE  after[j].ended \/ j \in {o2[after[j].number].dmx, o2[after[j].number].pcp}
      BY DEF NoneLeft
    <3>1. CASE j = i BY <3>1, <2>5, <2>9
    <3>2. CASE j # i
      <4>1. after[j] = st.streams[j] /\ j \in DOMAIN st.streams BY <2>9, <3>2
      <4>2. st.streams[j].ended \/ j \in {st.output[st.streams[j].number].dmx, st.output[st.streams[j].number].pcp}
        BY <1>1, <4>1 DEF NoneLeft
      <4>3. st.streams[j].number \in Number BY <1>1, <4>1 DEF StreamsOK, StreamOK, Stream
      <4>4. CASE st.streams[j].number = n BY <4>1, <4>2, <4>4, <3>2, <2>7, <2>8
      <4>5. CASE st.streams[j].number # n BY <4>1, <4>2, <4>3, <4>5, <2>8
      <4> QED BY <4>4, <4>5
    <3> QED BY <3>1, <3>2
  <2>14. StateOK(new, reachable) BY <2>9, <2>10, <2>11, <2>12, <2>13 DEF StateOK, ServerOK
  <2> QED BY <2>4, <2>7, <2>8, <2>10, <2>14
<1>5. CASE reachable /\ ~marks /\ ~ends
  <2>1. WithPcp(st, n, p) = st BY <1>2, <1>5
  <2> QED BY <2>1
<1> QED BY <1>3, <1>4, <1>5

LEMMA WithLevelsKeeps ==
  ASSUME NEW st, NEW r \in BOOLEAN, StateOK(st, r), NEW n \in Number, NEW p \in OutPacket,
         st.output[n].dmx # 0
  PROVE  StateOK(WithLevels(st, n, p), r)
<1> DEFINE h      == st.output[n].dmx
           new    == NewLevels(st.streams[h].data, p)
           marked == LevelsMarked(st, h, new)
           after  == [marked EXCEPT !.streams = [marked.streams EXCEPT ![h] = [marked.streams[h] EXCEPT !.data = new]]]
<1>1. h \in DOMAIN st.streams /\ st.streams[h].code = "dmx"
  BY DEF StateOK, HandlesOK, Names
<1>2. st.streams[h].data \in [Channel -> Level]
  BY <1>1 DEF StateOK, ServerOK, StreamsOK, StreamOK
<1>3. new \in [Channel -> Level]
  <2>1. /\ p.offset \in Nat /\ p.args \in Seq(Level) /\ p.universe \in [Channel -> Level] \cup {NoUniverse}
    BY DEF OutPacket
  <2> DEFINE data == st.streams[h].data
  <2>2. data \in [Channel -> Level] BY <1>2
  <2> HIDE DEF data
  <2>3. Written(data, p.offset, p.args) \in [Channel -> Level] BY <2>1, <2>2, WrittenIs
  <2>4. NewLevels(data, p) \in [Channel -> Level] BY <2>1, <2>2, <2>3 DEF NewLevels
  <2> QED BY <2>4 DEF data
<1>4. StateOK(marked, r) /\ h \in DOMAIN marked.streams /\ marked.streams[h].code = "dmx"
  <2>1. CASE new = st.streams[h].data
    <3>1. marked = st BY <2>1 DEF LevelsMarked
    <3> QED BY <1>1, <3>1
  <2>2. CASE new # st.streams[h].data
    <3>1. marked = SetUniverseDirty(st, h) BY <2>2 DEF LevelsMarked
    <3> HIDE DEF marked, h
    <3>2. /\ StateOK(SetUniverseDirty(st, h), r)
          /\ DOMAIN SetUniverseDirty(st, h).streams = DOMAIN st.streams
          /\ \A i \in DOMAIN st.streams : SetUniverseDirty(st, h).streams[i].code = st.streams[i].code
      BY <1>1, DirtyKeeps
    <3> QED BY <1>1, <3>1, <3>2
  <2> QED BY <2>1, <2>2
<1>5. WithLevels(st, n, p) = after BY DEF WithLevels
<1> HIDE DEF new, marked, h
<1>6. StateOK(after, r) BY <1>3, <1>4, DataBecome
<1> QED BY <1>5, <1>6

\* What Tick does with one stream.
LEMMA TickKeeps ==
  ASSUME NEW st, NEW r \in BOOLEAN, StateOK(st, r), NEW h \in DOMAIN st.streams, NEW expired \in BOOLEAN
  PROVE  StateOK(TickStream(st, h, expired), r) /\ Len(TickStream(st, h, expired).streams) = Len(st.streams)
<1> DEFINE old  == st.streams[h]
           kept == IF old.terminates >= Repeats THEN Destruction(st, h) ELSE st
           s    == kept.streams[h]
           went == [s EXCEPT !.inactive = IF s.dirty THEN 0 ELSE IF @ < Repeats THEN @ + 1 ELSE @,
                             !.terminates = IF s.ended THEN @ + 1 ELSE @,
                             !.dirty = FALSE]
<1>0. Repeats \in Nat \ {0} /\ 0 \in 0..Repeats BY OutConstants
<1>1. /\ ServerOK(st, r) /\ HandlesOK(st.streams, st.output) /\ NoneLeft(st.streams, st.output)
      /\ StreamsOK(st.streams, r) /\ st.streams \in Seq(Stream)
      /\ StreamOK(old, r) /\ old \in Stream
  BY DEF StateOK, ServerOK, OutRecordOf, StreamsOK, StreamOK
<1>2. /\ StateOK(kept, r) /\ DOMAIN kept.streams = DOMAIN st.streams /\ Len(kept.streams) = Len(st.streams)
      /\ s.live => old.terminates < Repeats /\ s = old
  <2>1. CASE old.terminates >= Repeats
    <3>1. kept = Destruction(st, h) BY <2>1
    <3> HIDE DEF kept
    <3>2. /\ ServerOK(kept, r)
          /\ kept.output = st.output
          /\ DOMAIN kept.streams = DOMAIN st.streams /\ Len(kept.streams) = Len(st.streams)
          /\ ~kept.streams[h].live
          /\ \A i \in DOMAIN st.streams : i # h => kept.streams[i] = st.streams[i]
      BY <1>1, <3>1, DestructionKeeps
    <3>3. old.ended
      <4>1. old.terminates # 0 /\ old.terminates \in Nat BY <1>0, <1>1, <2>1 DEF Stream
      <4> QED BY <1>1, <4>1 DEF StreamOK
    <3>4. \A handle, n, code : Names(st.streams, handle, n, code) =>
            Names(kept.streams, handle, n, code) /\ kept.streams[handle] = st.streams[handle]
      BY <3>2, <3>3 DEF Names
    <3>5. HandlesOK(kept.streams, kept.output) BY <1>1, <3>2, <3>4 DEF HandlesOK
    <3>6. NoneLeft(kept.streams, kept.output)
      <4> SUFFICES ASSUME NEW i \in DOMAIN kept.streams, kept.streams[i].live
                   PROVE  kept.streams[i].ended \/
                          i \in {kept.output[kept.streams[i].number].dmx, kept.output[kept.streams[i].number].pcp}
        BY DEF NoneLeft
      <4>1. i # h /\ i \in DOMAIN st.streams BY <3>2
      <4>2. kept.streams[i] = st.streams[i] BY <3>2, <4>1
      <4> QED BY <1>1, <3>2, <4>1, <4>2 DEF NoneLeft
    <3> QED BY <3>2, <3>5, <3>6 DEF StateOK
  <2>2. CASE ~(old.terminates >= Repeats)
    <3>1. kept = st BY <2>2
    <3>2. old.terminates < Repeats BY <1>0, <1>1, <2>2 DEF Stream
    <3> QED BY <3>1, <3>2
  <2> QED BY <2>1, <2>2
<1>3. TickStream(st, h, expired) =
        IF IsDue(s, expired) THEN [SeqSendUniverse(kept, h) EXCEPT !.streams[h] = went] ELSE kept
  BY DEF TickStream
<1>4. ASSUME IsDue(s, expired)
      PROVE  StateOK([SeqSendUniverse(kept, h) EXCEPT !.streams[h] = went], r)
             /\ Len([SeqSendUniverse(kept, h) EXCEPT !.streams[h] = went].streams) = Len(st.streams)
  <2>1. s.live /\ s = old /\ old.terminates < Repeats BY <1>2, <1>4 DEF IsDue
  <2> HIDE DEF kept
  <2> DEFINE m    == s.number
             one  == kept.seqs[m]
             next == SeqAdvanced(one, s)
             q    == [kept.seqs EXCEPT ![m] = next]
             hears == Received(kept.receiver[m], s, one.seq)
             rc   == [kept.receiver EXCEPT ![m] = hears]
             new  == [kept EXCEPT !.streams = [kept.streams EXCEPT ![h] = went], !.seqs = q, !.receiver = rc]
  <2>2. /\ kept \in OutRecordOf /\ kept.streams \in Seq(Stream) /\ h \in DOMAIN kept.streams
        /\ kept.seqs \in [Number -> SeqState] /\ kept.receiver \in [Number -> Receiver]
    <3>1. kept \in OutRecordOf BY <1>2 DEF StateOK, ServerOK
    <3> QED BY <1>2, <3>1 DEF OutRecordOf
  <2>3. StreamOK(s, r) /\ s \in Stream /\ m \in Number /\ s.terminates < Repeats
    BY <1>1, <2>1 DEF Stream
  <2>4. [SeqSendUniverse(kept, h) EXCEPT !.streams[h] = went] = new
    <3>1. SeqSendUniverse(kept, h) =
            [kept EXCEPT !.seqs[m] = SeqAdvanced(@, s), !.receiver[m] = Received(@, s, kept.seqs[m].seq)]
      BY DEF SeqSendUniverse
    <3> HIDE DEF went
    <3>2. [kept EXCEPT !.seqs[m] = SeqAdvanced(@, s), !.receiver[m] = Received(@, s, kept.seqs[m].seq)]
          = [kept EXCEPT !.seqs = q, !.receiver = rc]
      OBVIOUS
    <3> HIDE DEF q, rc
    <3>3. [[kept EXCEPT !.seqs = q, !.receiver = rc] EXCEPT !.streams[h] = went] = new
      BY <2>2 DEF OutRecordOf
    <3> QED BY <3>1, <3>2, <3>3
  <2>5. /\ went.number = s.number /\ went.code = s.code /\ went.live = s.live /\ went.ended = s.ended
        /\ went.priority = s.priority /\ went.data = s.data
        /\ went.terminates = (IF s.ended THEN s.terminates + 1 ELSE s.terminates)
        /\ went \in Stream
    <3> HIDE DEF s
    <3>1. s.inactive \in 0..Repeats /\ s.terminates \in 0..Repeats /\ s.ended \in BOOLEAN /\ s.dirty \in BOOLEAN
      BY <2>3 DEF Stream
    <3> DEFINE quiet == IF s.dirty THEN 0 ELSE IF s.inactive < Repeats THEN s.inactive + 1 ELSE s.inactive
               last  == IF s.ended THEN s.terminates + 1 ELSE s.terminates
    <3>2. quiet \in 0..Repeats /\ last \in 0..Repeats BY <1>0, <2>3, <3>1
    <3>3. went = [s EXCEPT !.inactive = quiet, !.terminates = last, !.dirty = FALSE] BY <2>3 DEF Stream
    <3> HIDE DEF quiet, last, went
    <3>4. went \in Stream BY <2>3, <3>2, <3>3 DEF Stream
    <3>5. /\ went.number = s.number /\ went.code = s.code /\ went.live = s.live /\ went.ended = s.ended
          /\ went.priority = s.priority /\ went.data = s.data /\ went.terminates = last
      BY <2>3, <3>3 DEF Stream
    <3> QED BY <3>4, <3>5 DEF last
  <2> HIDE DEF went
  <2>6. StreamOK(went, r)
    <3> HIDE DEF s
    <3> QED BY <2>3, <2>5 DEF StreamOK
  <2>7. one \in SeqState /\ kept.receiver[m] \in Receiver BY <2>2, <2>3
  <2>8. next \in SeqState /\ next.refs = one.refs
    <3> HIDE DEF one
    <3>1. one.seq \in 0..(SeqSize - 1) /\ SeqSize \in Nat \ {0} BY <2>7, OutConstants DEF SeqState
    <3>2. (one.seq + 1) % SeqSize \in 0..(SeqSize - 1) BY <3>1
    <3> QED BY <2>7, <3>2 DEF SeqAdvanced, SeqState
  <2>9. hears \in Receiver
    <3> DEFINE heard == [kept.receiver[m] EXCEPT !.known = TRUE, !.behind = @ \ {s.code}, !.seq = one.seq]
    <3>1. one.seq \in 0..(SeqSize - 1) BY <2>7 DEF SeqState
    <3>2. heard \in Receiver BY <2>7, <3>1 DEF Receiver
    <3>3. hears = IF kept.receiver[m].known /\ (s.ended \/ IsOld(kept.receiver[m].seq, one.seq))
                  THEN kept.receiver[m]
                  ELSE IF s.code = "pcp" THEN [heard EXCEPT !.pcp = s.data]
                  ELSE [heard EXCEPT !.dmx = s.data, !.priority = s.priority]
      BY DEF Received
    <3>4. /\ s.code \in {"dmx", "pcp"} /\ s.priority \in Priority
          /\ s.code = "pcp" => s.data \in [Channel -> Priority]
          /\ s.code = "dmx" => s.data \in [Channel -> Level]
      BY <2>3 DEF Stream, StreamOK
    <3> HIDE DEF heard, hears, s
    <3>5. CASE s.code = "pcp"
      <4>1. [heard EXCEPT !.pcp = s.data] \in Receiver BY <3>2, <3>4, <3>5 DEF Receiver
      <4> QED BY <2>7, <3>3, <3>5, <4>1
    <3>6. CASE s.code = "dmx"
      <4>1. [heard EXCEPT !.dmx = s.data, !.priority = s.priority] \in Receiver
        BY <3>2, <3>4, <3>6 DEF Receiver
      <4> QED BY <2>7, <3>3, <3>6, <4>1
    <3> QED BY <3>4, <3>5, <3>6
  <2> HIDE DEF next, hears
  <2>10. q \in [Number -> SeqState] /\ rc \in [Number -> Receiver] /\ \A n \in Number : q[n].refs = kept.seqs[n].refs
    BY <2>2, <2>3, <2>8, <2>9
  <2> HIDE DEF q, rc
  <2>11. StateOK(new, r)
    <3>1. /\ went.number = kept.streams[h].number /\ went.code = kept.streams[h].code
          /\ went.live = kept.streams[h].live /\ went.priority = kept.streams[h].priority
          /\ went.ended = kept.streams[h].ended
      BY <2>5
    <3>2. StateOK(kept, r) /\ h \in DOMAIN kept.streams BY <1>2, <2>2
    <3> QED BY <2>6, <2>10, <3>1, <3>2, OneStreamKeeps
  <2>12. new.streams = [kept.streams EXCEPT ![h] = went] BY <2>2 DEF OutRecordOf
  <2>13. Len(new.streams) = Len(st.streams) BY <1>2, <2>2, <2>5, <2>12
  <2> QED BY <2>4, <2>11, <2>13
<1> QED BY <1>2, <1>3, <1>4

LEMMA SacnOutputInvStep == SacnOutputInv /\ [SacnOutputNext]_sacnOutVars => SacnOutputInv'
<1> SUFFICES ASSUME SacnOutputInv, [SacnOutputNext]_sacnOutVars PROVE SacnOutputInv' OBVIOUS
<1>1. /\ StateOK(OutState, reachable) /\ reachable \in BOOLEAN /\ muteOut \in BOOLEAN
      /\ at \in 0..Len(streams) /\ sends \in 0..MaxSends /\ MaxSends \in Nat
  BY OutConstants DEF SacnOutputInv
<1>2. /\ OutState.streams = streams /\ OutState.seqs = seqs /\ OutState.output = output
      /\ OutState.receiver = receiver
  BY DEF OutState
<1>3. /\ OutState \in OutRecordOf /\ streams \in Seq(Stream) /\ Len(streams) \in Nat
      /\ DOMAIN streams = 1..Len(streams) /\ receiver \in [Number -> Receiver]
  <2>1. OutState \in OutRecordOf BY <1>1 DEF StateOK, ServerOK
  <2>2. streams \in Seq(Stream) /\ receiver \in [Number -> Receiver] BY <1>2, <2>1 DEF OutRecordOf
  <2> QED BY <2>1, <2>2
\* What becomes of the state is what the next one has.
<1>4. ASSUME NEW st, NEW r \in BOOLEAN, StateOK(st, r), Becomes(st), r = reachable'
      PROVE  StateOK(OutState, reachable)' /\ Len(streams') = Len(st.streams) /\ Len(streams') \in Nat
  <2>1. st \in OutRecordOf BY <1>4 DEF StateOK, ServerOK
  <2>2. st = [streams |-> st.streams, seqs |-> st.seqs, output |-> st.output, receiver |-> st.receiver]
    BY <2>1 DEF OutRecordOf
  <2>3. OutState' = st BY <1>4, <2>2 DEF OutState, Becomes
  <2>4. StateOK(OutState', reachable') BY <1>4, <2>3
  <2>5. StateOK(OutState, reachable)'
    BY <2>4 DEF StateOK, ServerOK, HandlesOK, NoneLeft, StreamsOK, StreamOK, Names, OnePlace, Referred, InUse,
      OutRecordOf, SeqState, Count
  <2>6. streams' = st.streams /\ st.streams \in Seq(Stream) BY <1>4, <2>1 DEF Becomes, OutRecordOf
  <2> QED BY <2>5, <2>6
<1>5. ASSUME NEW n \in Number, NEW p \in OutPackets[n], SendsACN(n, p) PROVE SacnOutputInv'
  <2>1. /\ at = 0 /\ sends < MaxSends /\ sends' = sends + 1
        /\ reachable' = reachable /\ muteOut' = muteOut /\ at' = at
    BY <1>5 DEF SendsACN
  <2>2. p \in OutPacket BY OutConstants
  <2>3. PICK st : StateOK(st, reachable) /\ Becomes(st)
    <3>1. CASE p.offset < Size
      <4>1. PICK dmx : /\ dmx = WithDmx(OutState, n, p)
                       /\ IF dmx.output[n].dmx = 0 THEN Becomes(dmx)
                          ELSE \E pcp \in {WithPcp(dmx, n, p)} :
                                 \E st \in {WithLevels(pcp, n, p)} : Becomes(st)
        BY <1>5, <3>1 DEF SendsACN
      <4>2. StateOK(dmx, reachable) /\ (dmx.output[n].dmx # 0 => reachable)
        BY <1>1, <2>2, <4>1, WithDmxKeeps
      <4>3. CASE dmx.output[n].dmx = 0 BY <4>1, <4>2, <4>3
      <4>4. CASE dmx.output[n].dmx # 0
        <5>1. PICK pcp : /\ pcp = WithPcp(dmx, n, p)
                         /\ \E st \in {WithLevels(pcp, n, p)} : Becomes(st)
          BY <4>1, <4>4
        <5>2. StateOK(pcp, reachable) /\ pcp.output[n].dmx # 0
          <6>1. reachable => StateOK(WithPcp(dmx, n, p), reachable)
                             /\ WithPcp(dmx, n, p).output[n].dmx = dmx.output[n].dmx
            BY <1>1, <2>2, <4>2, WithPcpKeeps
          <6> QED BY <4>2, <4>4, <5>1, <6>1
        <5>3. StateOK(WithLevels(pcp, n, p), reachable) BY <1>1, <2>2, <5>2, WithLevelsKeeps
        <5> QED BY <5>1, <5>3
      <4> QED BY <4>3, <4>4
    <3>2. CASE ~(p.offset < Size)
      <4>1. Becomes(OutState) BY <1>5, <3>2 DEF SendsACN
      <4> QED BY <1>1, <4>1
    <3> QED BY <3>1, <3>2
  <2>4. StateOK(OutState, reachable)' /\ Len(streams') \in Nat BY <1>1, <1>4, <2>1, <2>3
  <2>5. at' \in 0..Len(streams') /\ sends' \in 0..MaxSends BY <1>1, <2>1, <2>4
  <2> QED BY <1>1, <2>1, <2>4, <2>5 DEF SacnOutputInv
<1>6. CASE StartTick
  <2>1. /\ at' = (IF streams = <<>> THEN 0 ELSE 1) /\ streams' = streams /\ seqs' = seqs /\ output' = output
        /\ reachable' = reachable /\ muteOut' = muteOut /\ sends' = sends /\ receiver' = receiver
    BY <1>6 DEF StartTick
  <2>2. Becomes(OutState) BY <1>2, <2>1 DEF Becomes
  <2>3. StateOK(OutState, reachable)' BY <1>1, <1>4, <2>1, <2>2
  <2>4. at' \in 0..Len(streams')
    <3>1. CASE streams = <<>> BY <1>3, <2>1, <3>1
    <3>2. CASE streams # <<>> BY <1>3, <2>1, <3>2
    <3> QED BY <3>1, <3>2
  <2> QED BY <1>1, <2>1, <2>3, <2>4 DEF SacnOutputInv
<1>7. ASSUME NEW expired \in BOOLEAN, Tick(expired) PROVE SacnOutputInv'
  <2>1. /\ at # 0 /\ Becomes(TickStream(OutState, at, expired))
        /\ at' = (IF at = Len(streams) THEN 0 ELSE at + 1)
        /\ reachable' = reachable /\ muteOut' = muteOut /\ sends' = sends
    BY <1>7 DEF Tick
  <2>2. at \in DOMAIN OutState.streams
    <3>1. at \in 0..Len(streams) /\ Len(streams) \in Nat /\ at # 0 BY <1>1, <1>3, <2>1
    <3>2. at \in 1..Len(streams) BY <3>1
    <3> QED BY <1>2, <1>3, <3>2
  <2>3. /\ StateOK(TickStream(OutState, at, expired), reachable)
        /\ Len(TickStream(OutState, at, expired).streams) = Len(streams)
    BY <1>1, <1>2, <2>2, TickKeeps
  <2>4. StateOK(OutState, reachable)' /\ Len(streams') = Len(streams) BY <1>1, <1>4, <2>1, <2>3
  <2>5. at' \in 0..Len(streams')
    <3> DEFINE n == Len(streams)
    <3>1. at \in 0..n /\ n \in Nat /\ at' = (IF at = n THEN 0 ELSE at + 1) /\ Len(streams') = n
      BY <1>1, <1>3, <2>1, <2>4
    <3> HIDE DEF n
    <3>2. at' \in 0..n BY <3>1
    <3> QED BY <3>1, <3>2
  <2> QED BY <1>1, <2>1, <2>4, <2>5 DEF SacnOutputInv
<1>8. CASE MuteOut \/ UNCHANGED sacnOutVars
  <2>1. /\ at' = at /\ streams' = streams /\ seqs' = seqs /\ output' = output
        /\ reachable' = reachable /\ muteOut' \in BOOLEAN /\ sends' = sends /\ receiver' = receiver
    BY <1>1, <1>8 DEF MuteOut, sacnOutVars
  <2>2. Becomes(OutState) BY <1>2, <2>1 DEF Becomes
  <2>3. StateOK(OutState, reachable)' BY <1>1, <1>4, <2>1, <2>2
  <2> QED BY <1>1, <2>1, <2>3 DEF SacnOutputInv
<1>9. CASE Rebuild
  <2>1. /\ at = 0 /\ sends < MaxSends /\ sends' = sends + 1 /\ streams' = <<>> /\ seqs' = NoSequence
        /\ output' = NoOutput /\ reachable' \in BOOLEAN /\ muteOut' = muteOut /\ at' = at /\ receiver' = receiver
    BY <1>9 DEF Rebuild
  <2> DEFINE st == [streams |-> <<>>, seqs |-> NoSequence, output |-> NoOutput, receiver |-> receiver]
  <2>2. Becomes(st) BY <2>1 DEF Becomes
  <2>3. StateOK(st, reachable') /\ Len(st.streams) = 0
    <3>1. NoOutput \in [Number -> OutUniverse] BY OutConstants DEF NoOutput, OutUniverse
    <3>2. NoSequence \in [Number -> SeqState] BY OutConstants DEF NoSequence, SeqState
    <3>3. st \in OutRecordOf BY <1>3, <3>1, <3>2 DEF OutRecordOf
    <3>4. ServerOK(st, reachable')
      BY <3>3 DEF ServerOK, StreamsOK, OnePlace, Referred, InUse, NoSequence, Count
    <3>5. HandlesOK(st.streams, st.output) /\ NoneLeft(st.streams, st.output)
      BY DEF HandlesOK, NoneLeft, NoOutput
    <3> QED BY <3>4, <3>5 DEF StateOK
  <2> HIDE DEF st
  <2>4. StateOK(OutState', reachable') /\ Len(streams') = 0 BY <1>4, <2>1, <2>2, <2>3
  <2>5. StateOK(OutState, reachable)' BY <2>4 DEF StateOK, ServerOK, HandlesOK, NoneLeft, StreamsOK, StreamOK, Names,
    OnePlace, Referred, InUse, OutRecordOf, SeqState, Count
  <2> QED BY <1>1, <2>1, <2>4, <2>5 DEF SacnOutputInv
<1> QED BY <1>5, <1>6, <1>7, <1>8, <1>9 DEF SacnOutputNext

LEMMA SacnOutputKeepsInv == SacnOutputSpec => []SacnOutputInv
  BY InitSacnOutputInv, SacnOutputInvStep, PTL DEF SacnOutputSpec

\* The streams, the sequence numbers and what a receiver has of them keep their types: a
\* sequence number is counted as long as it is used, and within its width (CStreamServer).
THEOREM SacnOutputTypes == SacnOutputSpec => []SacnOutputTypeOK
<1>1. SacnOutputInv => SacnOutputTypeOK
  <2> SUFFICES ASSUME SacnOutputInv PROVE SacnOutputTypeOK OBVIOUS
  <2>1. OutState \in OutRecordOf BY DEF SacnOutputInv, StateOK, ServerOK
  <2>2. /\ OutState.streams = streams /\ OutState.seqs = seqs /\ OutState.output = output
        /\ OutState.receiver = receiver
    BY DEF OutState
  <2> QED BY <2>1, <2>2 DEF SacnOutputInv, SacnOutputTypeOK, OutRecordOf, SeqState
<1> QED BY <1>1, SacnOutputKeepsInv, PTL

\* However universes are created, ended and created anew, for any numbers, packets and
\* sequence lengths: each handle of the router names a stream of its own universe that is
\* being went, and every stream that is went has a handle or was ended (SendsACN, CreateUniverse).
THEOREM HandlesNameStreams == SacnOutputSpec => []HandlesAreStreams
<1>1. SacnOutputInv => HandlesAreStreams
  <2> SUFFICES ASSUME SacnOutputInv PROVE HandlesAreStreams OBVIOUS
  <2>1. /\ HandlesOK(streams, output) /\ NoneLeft(streams, output) /\ OnePlace(streams)
    <3>1. OutState.streams = streams /\ OutState.output = output BY DEF OutState
    <3> QED BY <3>1 DEF SacnOutputInv, StateOK, ServerOK
  <2>2. \A n \in Number : output[n].dmx # 0 =>
          /\ streams[output[n].dmx].live /\ IsStreamOf(output[n].dmx, n, "dmx", output[n].dmx)
          /\ streams[output[n].dmx].priority = output[n].priority
    BY <2>1 DEF HandlesOK, Names, IsStreamOf
  <2>3. \A n \in Number : output[n].pcp # 0 =>
          streams[output[n].pcp].live /\ IsStreamOf(output[n].pcp, n, "pcp", output[n].pcp)
    BY <2>1 DEF HandlesOK, Names, IsStreamOf
  <2>4. \A h \in DOMAIN streams : streams[h].live =>
          streams[h].ended \/ LET o == output[streams[h].number] IN h \in {o.dmx, o.pcp}
    BY <2>1 DEF NoneLeft
  <2>5. \A h, i \in DOMAIN streams :
          streams[h].live /\ streams[i].live /\ h # i =>
            streams[h].number # streams[i].number \/ streams[h].code # streams[i].code
    BY <2>1 DEF OnePlace
  <2> QED BY <2>2, <2>3, <2>4, <2>5 DEF HandlesAreStreams
<1> QED BY <1>1, SacnOutputKeepsInv, PTL
=============================================================================
