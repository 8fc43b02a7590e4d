--------------------------- MODULE ItemStoreProofs ---------------------------
(***************************************************************************)
(* Proofs about ItemStore, for any items, players and versions of an item. *)
(***************************************************************************)
EXTENDS ItemStore, TLAPS

\* Saving, destroying, loading and leaving keep the shape of the store and of
\* the game, whatever the items and players are.
THEOREM StoreTypeCorrect == Spec => []TypeOK
<1>1. Init => TypeOK
  BY DEF Init, TypeOK
<1>2. TypeOK /\ [Next]_vars => TypeOK'
  <2> SUFFICES ASSUME TypeOK, [Next]_vars PROVE TypeOK'
    OBVIOUS
  <2>1. ASSUME NEW i \in Item, NEW row \in Row, Save(i, row) PROVE TypeOK'
    BY <2>1 DEF TypeOK, Save
  <2>2. ASSUME NEW i \in Item, Destroy(i) PROVE TypeOK'
    BY <2>2 DEF TypeOK, Destroy
  <2>3. ASSUME NEW p \in Player, NEW w \in Window, Load(p, w) PROVE TypeOK'
    <3>1. \A i \in Owned(p, w) : store[i] \in Row
      BY DEF Owned
    <3> QED BY <2>3, <3>1 DEF TypeOK, Load
  <2>4. ASSUME NEW items \in SUBSET Item, Leave(items) PROVE TypeOK'
    BY <2>4 DEF TypeOK, Leave
  <2>5. CASE UNCHANGED vars
    BY <2>5 DEF TypeOK, vars
  <2> QED BY <2>1, <2>2, <2>3, <2>4, <2>5 DEF Next
<1> QED BY <1>1, <1>2, PTL DEF Spec

\* What a player relies on when the DB server keeps the promise of ItemStore:
\* every item that is in the game has the row it would be loaded with, and an
\* item without an owner has none.
THEOREM StoreFaithful == Spec => []Faithful
<1>1. Init => Faithful
  BY DEF Init, Faithful, InStep
<1>2. TypeOK /\ Faithful /\ [Next]_vars => Faithful'
  <2> SUFFICES ASSUME TypeOK, Faithful, [Next]_vars,
                      NEW j \in Item
               PROVE  InStep(j)'
    BY DEF Faithful
  <2>0. InStep(j)
    BY DEF Faithful
  <2>1. ASSUME NEW i \in Item, NEW row \in Row, Save(i, row) PROVE InStep(j)'
    BY <2>0, <2>1 DEF TypeOK, Save, InStep
  <2>2. ASSUME NEW i \in Item, Destroy(i) PROVE InStep(j)'
    BY <2>0, <2>2 DEF TypeOK, Destroy, InStep
  <2>3. ASSUME NEW p \in Player, NEW w \in Window, Load(p, w) PROVE InStep(j)'
    <3>1. CASE j \in Owned(p, w)
      BY <2>3, <3>1 DEF TypeOK, Load, InStep, Owned
    <3>2. CASE j \notin Owned(p, w)
      BY <2>0, <2>3, <3>2 DEF TypeOK, Load, InStep
    <3> QED BY <3>1, <3>2
  <2>4. ASSUME NEW items \in SUBSET Item, Leave(items) PROVE InStep(j)'
    BY <2>0, <2>4 DEF TypeOK, Leave, InStep
  <2>5. CASE UNCHANGED vars
    BY <2>0, <2>5 DEF vars, InStep
  <2> QED BY <2>1, <2>2, <2>3, <2>4, <2>5 DEF Next
<1> QED BY <1>1, <1>2, StoreTypeCorrect, PTL DEF Spec
=============================================================================
