------------------------------ MODULE ItemStore ------------------------------
(***************************************************************************)
(* What the DB cache server promises a game core about items, whatever it  *)
(* does with caches, timers and SQL connections: an item has the row it    *)
(* was last saved with, an item that was destroyed has none, and a player  *)
(* or safebox that is loaded brings exactly the rows it owns.  A row that  *)
(* is loaded belongs to an item that is nowhere in the game: no load       *)
(* duplicates an item.                                                     *)
(*                                                                         *)
(* The operations are the packets of the protocol: ITEM_SAVE, ITEM_DESTROY,*)
(* ITEM_LOAD and SAFEBOX_LOAD (common/tables.h), and the items leaving the *)
(* game with their player, their safebox or their game core.               *)
(***************************************************************************)
CONSTANTS
    Item, Player, Data,
    NoRow,      \* the item has no row
    Loose,      \* the item is in the game without an owner, or not yet made
    Offline     \* the item is not in the game

Window == {"INVENTORY", "SAFEBOX"}
Row == [owner : Player, window : Window, data : Data]

VARIABLES
    store,      \* the row of each item, or NoRow
    view        \* what the game has of each item: a row, Loose or Offline

vars == <<store, view>>

Owned(p, w) == { i \in Item : /\ store[i] \in Row
                              /\ store[i].owner = p /\ store[i].window = w }

Init ==
    /\ store = [i \in Item |-> NoRow]
    /\ view = [i \in Item |-> Loose]

Save(i, row) ==
    /\ view[i] # Offline
    /\ store' = [store EXCEPT ![i] = row]
    /\ view' = [view EXCEPT ![i] = row]

Destroy(i) ==
    /\ view[i] # Offline
    /\ store' = [store EXCEPT ![i] = NoRow]
    /\ view' = [view EXCEPT ![i] = Loose]

Load(p, w) ==
    /\ \A i \in Owned(p, w) : view[i] = Offline
    /\ view' = [i \in Item |-> IF i \in Owned(p, w) THEN store[i] ELSE view[i]]
    /\ UNCHANGED store

Leave(items) ==
    /\ view' = [i \in Item |-> IF i \in items THEN Offline ELSE view[i]]
    /\ UNCHANGED store

Next ==
    \/ \E i \in Item, row \in Row : Save(i, row)
    \/ \E i \in Item : Destroy(i)
    \/ \E p \in Player, w \in Window : Load(p, w)
    \/ \E items \in SUBSET Item : Leave(items)

Spec == Init /\ [][Next]_vars

-----------------------------------------------------------------------------
TypeOK ==
    /\ store \in [Item -> Row \cup {NoRow}]
    /\ view \in [Item -> Row \cup {Loose, Offline}]

\* The game and the store agree on every item that is in the game.
InStep(i) == \/ view[i] = Offline
             \/ view[i] = Loose /\ store[i] = NoRow
             \/ view[i] \in Row /\ store[i] = view[i]

\* The consequence a player relies on: what the game has of an item is what
\* the store will bring back, so no item is lost, doubled or out of date.
Faithful == \A i \in Item : InStep(i)
=============================================================================
