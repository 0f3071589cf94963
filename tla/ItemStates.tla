------------------------------ MODULE ItemStates ------------------------------
(***************************************************************************)
(* ItemStateTable: the states, activity and mutes of the endpoints of the  *)
(* routes, by id.  There are two of them, the one of the user interface    *)
(* and the one RouterThread updates, and Sync exchanges what changed.      *)
(*                                                                         *)
(* Ids count from 1, and 0 is sm_Invalid_Id.  ItemState::dirty, which only *)
(* tells the desktop widgets what to repaint, is left out.                 *)
(***************************************************************************)
EXTENDS Naturals, Sequences

CONSTANTS
  States,         \* some of ItemState::EnumState
  Uninitialized,  \* STATE_UNINITIALIZED
  Directions      \* those that can be muted for all routes: "incoming", "outgoing"

ASSUME StatesAssumption == Uninitialized \in States

Item == [state: States, activity: BOOLEAN, mute: BOOLEAN]
Table == [items: Seq(Item), muteAll: SUBSET Directions, dirty: BOOLEAN, muteDirty: BOOLEAN]

EmptyTable == [items |-> <<>>, muteAll |-> {}, dirty |-> FALSE, muteDirty |-> FALSE]

Clear(t) == [t EXCEPT !.items = <<>>, !.dirty = FALSE, !.muteDirty = FALSE]

Reset(t) ==
  [t EXCEPT !.items = [id \in DOMAIN @ |-> [@[id] EXCEPT !.activity = FALSE]],
            !.dirty = FALSE, !.muteDirty = FALSE]

Register(t, mute) ==
  [t EXCEPT !.items = Append(@, [state |-> Uninitialized, activity |-> FALSE, mute |-> mute])]

\* Mutant: a change of an item does not mark the table.
UpdateAllSilent(t, items) ==
  [t EXCEPT !.items = [id \in DOMAIN @ |-> IF id \in DOMAIN items
                                           THEN [items[id] EXCEPT !.mute = t.items[id].mute]
                                           ELSE @[id]]]

\* Update of every id that `items` has, each by the item it gives.
UpdateAll(t, items) ==
  LET Shows(id) == <<items[id].state, items[id].activity>>
      changed == {id \in DOMAIN t.items \cap DOMAIN items :
                    Shows(id) # <<t.items[id].state, t.items[id].activity>>}
  IN [t EXCEPT !.items = [id \in DOMAIN @ |-> IF id \in changed
                                              THEN [items[id] EXCEPT !.mute = t.items[id].mute]
                                              ELSE @[id]],
               !.dirty = @ \/ changed # {}]

Update(t, id, item) == UpdateAll(t, [k \in {id} |-> item])

Deactivate(t) ==
  UpdateAll(t, [id \in DOMAIN t.items |-> [state |-> Uninitialized, activity |-> FALSE, mute |-> FALSE]])

Mute(t, id, b) ==
  IF id \in DOMAIN t.items /\ t.items[id].mute # b
  THEN [t EXCEPT !.items[id].mute = b, !.muteDirty = TRUE]
  ELSE t

-----------------------------------------------------------------------------
(* Sync, of the table of the user interface with the one of the router:    *)
(* what becomes of the one, and of the other.                              *)

SyncUi(ui, other) ==
  [IF other.dirty THEN UpdateAll(ui, other.items) ELSE ui EXCEPT !.muteDirty = FALSE]

\* The router's item: what is pending for it is taken, and what was reported is reset.
Exchanged(ui, other, id) ==
  [other.items[id] EXCEPT !.activity = @ /\ ~other.dirty,
                          !.mute = IF ui.muteDirty /\ id \in DOMAIN ui.items
                                   THEN ui.items[id].mute ELSE @]

SyncRouter(ui, other) ==
  [other EXCEPT !.items = [id \in DOMAIN @ |-> Exchanged(ui, other, id)],
                !.muteAll = ui.muteAll,
                !.dirty = FALSE]
=============================================================================
