------------------------------ MODULE Listening ------------------------------
(***************************************************************************)
(* What RouterThread expects of its sACN client, IStreamACNCli: packets of *)
(* what it asked for are handed over until the client is shut down, which  *)
(* ends, and none after that.                                              *)
(***************************************************************************)
CONSTANT Addresses  \* the multicast addresses of universes, each on one interface

VARIABLES
  asked,  \* what has been asked for, by the router or by what else runs on the machine
  heard,  \* what was handed over last
  stage   \* of the client: open, closing or closed

listenVars == <<asked, heard, stage>>

ListenInit == asked \in SUBSET Addresses /\ heard = {} /\ stage = "open"

Ask(a) == stage = "open" /\ asked' = asked \cup {a} /\ UNCHANGED <<heard, stage>>

Hear(a) ==
  /\ stage # "closed"
  /\ a \in asked
  /\ heard' = {a}
  /\ UNCHANGED <<asked, stage>>

Close == stage = "open" /\ stage' = "closing" /\ UNCHANGED <<asked, heard>>

Closed == stage = "closing" /\ stage' = "closed" /\ UNCHANGED <<asked, heard>>

ListenNext == Close \/ Closed \/ \E a \in Addresses : Ask(a) \/ Hear(a)

\* What it does, and that it ends.
ListenSteps == ListenInit /\ [][ListenNext]_listenVars

ListenSpec == ListenSteps /\ WF_listenVars(Closed)
=============================================================================
