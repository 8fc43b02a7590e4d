--------------------------- MODULE ExchangeProofs ---------------------------
(***************************************************************************)
(* For any characters, items, sizes and pages: exchanges stay in pairs,    *)
(* block exactly what they offer and keep what was accepted (no item moves *)
(* but what was offered and is still there, wherever it goes); no two      *)
(* items of a character share a cell (what the search finds is free and    *)
(* apart); and an exchange does what both accepted or nothing (the search  *)
(* finds places again for items of one size when others have gone); and no *)
(* step makes gold.                                                        *)
(***************************************************************************)
EXTENDS Exchange, SequenceTheorems, FiniteSetTheorems, WellFoundedInduction, TLAPS

(* The slots have their domains and hold items; no item is in two of them. *)
SlotsHold ==
    /\ slots = [x \in Char |-> [n \in Slot |-> slots[x][n]]]
    /\ \A x \in Char : \A n \in Slot : slots[x][n].item \in Item \cup {None}
    /\ \A x \in Char : \A n, m \in Slot :
        n # m /\ slots[x][n].item = slots[x][m].item => slots[x][n].item = None

(* Only who is in an exchange has accepted one.                            *)
AcceptsRun == accepted \subseteq {x \in Char : company[x] # None}

Types ==
    /\ owner \in [Item -> Char \cup {Ground, Gone}]
    /\ company \in [Char -> Char \cup {None}]
    /\ safebox \in [Char -> {"closed", "asked", "open"}]

IInv == Types /\ SlotsHold /\ AcceptsRun /\ Paired /\ Blocked

(* Blocked without its union.                                              *)
BlockedMeans ==
    /\ \A i : i \in exchanging <=>
          (\E x \in Char : i \in OfferedItems(x)) /\ ~(i \in Item /\ owner[i] = Gone)
    /\ \A x \in Char : \A i \in OfferedItems(x) : i \in Item /\ owner[i] \in {x, Gone}

LEMMA BlockedIff == Blocked <=> BlockedMeans
  <1> DEFINE Lost == {i \in Item : owner[i] = Gone}
  <1>1. \A i : i \in Lost <=> i \in Item /\ owner[i] = Gone
    OBVIOUS
  <1>2. ASSUME NEW x \in Char
        PROVE  (OfferedItems(x) \subseteq Carried(owner, x) \cup Lost)
                <=> \A i \in OfferedItems(x) : i \in Item /\ owner[i] \in {x, Gone}
    BY <1>1 DEF Carried
  <1> HIDE DEF Lost
  <1>3. exchanging = (UNION {OfferedItems(x) : x \in Char}) \ Lost
          <=> \A i : i \in exchanging <=> (\E x \in Char : i \in OfferedItems(x)) /\ i \notin Lost
    <2> DEFINE All == UNION {OfferedItems(x) : x \in Char}
    <2>1. \A i : i \in All <=> \E x \in Char : i \in OfferedItems(x)
      OBVIOUS
    <2> HIDE DEF All
    <2>2. exchanging = All \ Lost <=> \A i : i \in exchanging <=> i \in All /\ i \notin Lost
      <3>1. ASSUME \A i : i \in exchanging <=> i \in All /\ i \notin Lost
            PROVE  exchanging = All \ Lost
        <4>1. exchanging \subseteq All \ Lost
          BY <3>1
        <4>2. All \ Lost \subseteq exchanging
          BY <3>1
        <4> QED BY <4>1, <4>2
      <3> QED BY <3>1
    <2>3. exchanging = All \ Lost
            <=> \A i : i \in exchanging <=> (\E x \in Char : i \in OfferedItems(x)) /\ i \notin Lost
      BY <2>1, <2>2
    <2> QED BY <2>3 DEF All
  <1>4. Blocked <=> /\ exchanging = (UNION {OfferedItems(x) : x \in Char}) \ Lost
                    /\ \A x \in Char : OfferedItems(x) \subseteq Carried(owner, x) \cup Lost
    BY Zenon DEF Blocked, Lost
  <1>5. (\A x \in Char : OfferedItems(x) \subseteq Carried(owner, x) \cup Lost)
        <=> \A x \in Char : \A i \in OfferedItems(x) : i \in Item /\ owner[i] \in {x, Gone}
    BY <1>2, Zenon
  <1> QED BY <1>1, <1>3, <1>4, <1>5 DEF BlockedMeans

(* What is offered and still exists belongs to who offers it, is blocked,  *)
(* and is offered by nobody else.                                          *)
LEMMA OfferedIsOwn ==
    ASSUME IInv, NEW x \in Char, NEW i \in OfferedItems(x)
    PROVE  i \in Item /\ owner[i] \in {x, Gone} /\ (owner[i] # Gone => i \in exchanging)
  BY BlockedIff DEF IInv, BlockedMeans

LEMMA BlockedIsOffered ==
    ASSUME IInv, NEW i \in exchanging
    PROVE  i \in Item /\ owner[i] # Gone /\ \E x \in Char : i \in OfferedItems(x)
  BY BlockedIff DEF IInv, BlockedMeans

LEMMA InitOK == ASSUME Init PROVE IInv
  <1>1. Types
    BY ExchangeAssumption DEF Init, Types, ExchangeAssumption
  <1>2. SlotsHold
    BY DEF Init, SlotsHold, Empty
  <1>3. AcceptsRun /\ Paired
    BY DEF Init, AcceptsRun, Paired
  <1>4. \A x \in Char : OfferedItems(x) = {}
    BY DEF Init, OfferedItems, Empty
  <1>5. Blocked
    <2>1. exchanging = {}
      BY DEF Init
    <2> QED BY <1>4, <2>1, BlockedIff DEF BlockedMeans
  <1> QED BY <1>1, <1>2, <1>3, <1>5 DEF IInv

(* The offers are as they were when the slots are.                         *)
LEMMA SameOffers ==
    ASSUME NEW x, slots'[x] = slots[x]
    PROVE  OfferedItems(x)' = OfferedItems(x)
  BY DEF OfferedItems

(* Steps that leave exchanges alone: what is offered stays where it is or  *)
(* expires, and the safebox of who is in an exchange does not open.        *)
LEMMA BesideOK ==
    ASSUME IInv, UNCHANGED exchange, Types',
           \A i \in Item : owner'[i] # owner[i] =>
              i \notin exchanging' /\ (i \in exchanging => owner'[i] = Gone) /\ owner[i] # Gone,
           \A i \in exchanging : i \in exchanging' \/ owner'[i] # owner[i],
           exchanging' \subseteq exchanging,
           \A x \in Char : safebox'[x] = "open" => safebox[x] = "open" \/ company[x] = None
    PROVE  IInv'
  <1>1. UNCHANGED <<company, slots, accepted>>
    BY DEF exchange
  <1>2. SlotsHold' /\ AcceptsRun' /\ Paired'
    BY <1>1 DEF IInv, SlotsHold, AcceptsRun, Paired
  <1>3. \A x \in Char : OfferedItems(x)' = OfferedItems(x)
    BY <1>1, SameOffers
  <1>4. \A i \in exchanging' : i \in Item /\ owner'[i] # Gone /\ \E x \in Char : i \in OfferedItems(x)
    BY BlockedIsOffered
  <1>5. \A x \in Char : \A i \in OfferedItems(x) :
          i \in Item /\ owner'[i] \in {x, Gone} /\ (owner'[i] # Gone => i \in exchanging')
    <2> SUFFICES ASSUME NEW x \in Char, NEW i \in OfferedItems(x)
                 PROVE  i \in Item /\ owner'[i] \in {x, Gone} /\ (owner'[i] # Gone => i \in exchanging')
      OBVIOUS
    <2>1. i \in Item /\ owner[i] \in {x, Gone} /\ (owner[i] # Gone => i \in exchanging)
      BY OfferedIsOwn
    <2>2. CASE owner'[i] = owner[i]
      BY <2>1, <2>2
    <2>3. CASE owner'[i] # owner[i]
      BY <2>1, <2>3
    <2> QED BY <2>2, <2>3
  <1>6. Blocked'
    <2>1. \A i : i \in exchanging' <=>
            (\E x \in Char : i \in OfferedItems(x)') /\ ~(i \in Item /\ owner'[i] = Gone)
      BY <1>3, <1>4, <1>5
    <2>2. \A x \in Char : \A i \in OfferedItems(x)' : i \in Item /\ owner'[i] \in {x, Gone}
      BY <1>3, <1>5
    <2>3. BlockedMeans'
      BY <2>1, <2>2 DEF BlockedMeans
    <2> QED BY <2>3, BlockedIff, PTL
  <1> QED BY <1>2, <1>6 DEF IInv

LEMMA BesideSteps ==
    ASSUME IInv, NEW c \in Char,
           \/ \E i \in Item : DropItem(c, i) \/ PickupItem(c, i)
           \/ \E i \in Item, n \in Cell : MoveItem(c, i, n)
           \/ \E n \in 1..GoldMax : DropGold(c, n)
           \/ \E k \in DOMAIN floor : PickupGold(c, k)
           \/ ReqSafeboxLoad(c) \/ SafeboxLoad(c) \/ CloseSafebox(c)
    PROVE  IInv'
  <1>1. Ground # Gone /\ Ground \notin Char /\ Gone \notin Char
    BY ExchangeAssumption DEF ExchangeAssumption
  <1>2. ASSUME NEW i \in Item, DropItem(c, i) PROVE IInv'
    <2>1. /\ owner[i] = c /\ i \notin exchanging
          /\ owner' = [owner EXCEPT ![i] = Ground]
          /\ UNCHANGED <<exchanging, exchange, safebox, company>>
      BY <1>2 DEF DropItem, Meanwhile, exchange
    <2>2. Types'
      BY <2>1 DEF IInv, Types
    <2> QED BY <1>1, <2>1, <2>2, BesideOK DEF IInv, Types
  <1>3. ASSUME NEW i \in Item, PickupItem(c, i) PROVE IInv'
    <2>1. /\ owner[i] = Ground
          /\ owner' = [owner EXCEPT ![i] = c]
          /\ UNCHANGED <<exchanging, exchange, safebox, company>>
      BY <1>3 DEF PickupItem, Meanwhile, exchange
    <2>2. i \notin exchanging
      <3>1. ASSUME i \in exchanging PROVE FALSE
        <4>1. owner[i] # Gone /\ \E x \in Char : i \in OfferedItems(x)
          BY <3>1, BlockedIsOffered
        <4>2. owner[i] \in Char
          BY <4>1, OfferedIsOwn
        <4> QED BY <1>1, <2>1, <4>2
      <3> QED BY <3>1
    <2>3. Types'
      BY <2>1 DEF IInv, Types
    <2> QED BY <1>1, <2>1, <2>2, <2>3, BesideOK DEF IInv, Types
  <1>4. ASSUME UNCHANGED <<owner, exchanging, exchange, safebox>> PROVE IInv'
    <2>1. Types'
      BY <1>4 DEF IInv, Types, exchange
    <2> QED BY <1>4, <2>1, BesideOK
  <1>5. ASSUME UNCHANGED <<owner, exchanging, exchange>>,
               NEW to \in {"asked", "closed", "open"}, to = "open" => company[c] = None,
               safebox' = [safebox EXCEPT ![c] = to]
        PROVE  IInv'
    <2>1. Types'
      BY <1>5 DEF IInv, Types, exchange
    <2> QED BY <1>5, <2>1, BesideOK DEF IInv, Types
  <1>6. ASSUME NEW i \in Item, NEW n \in Cell, MoveItem(c, i, n) PROVE IInv'
    BY <1>4, <1>6 DEF MoveItem, Meanwhile
  <1>7. ASSUME NEW n, DropGold(c, n) PROVE IInv'
    BY <1>4, <1>7 DEF DropGold, Meanwhile
  <1>8. ASSUME NEW k, PickupGold(c, k) PROVE IInv'
    BY <1>4, <1>8 DEF PickupGold, Meanwhile
  <1>9. ASSUME ReqSafeboxLoad(c) PROVE IInv'
    BY <1>5, <1>9 DEF ReqSafeboxLoad
  <1>10. ASSUME SafeboxLoad(c) PROVE IInv'
    BY <1>5, <1>10 DEF SafeboxLoad, SetSafebox
  <1>11. ASSUME CloseSafebox(c) PROVE IInv'
    BY <1>5, <1>11 DEF CloseSafebox, SetSafebox
  <1> QED BY <1>2, <1>3, <1>6, <1>7, <1>8, <1>9, <1>10, <1>11

LEMMA ExpireOK == ASSUME IInv, NEW i \in Item, Expire(i) PROVE IInv'
  <1>1. /\ owner[i] \in Char
        /\ owner' = [owner EXCEPT ![i] = Gone]
        /\ exchanging' = exchanging \ {i}
        /\ UNCHANGED <<exchange, safebox, company>>
    BY DEF Expire, Meanwhile, exchange
  <1>2. Types'
    BY <1>1 DEF IInv, Types
  <1>3. owner[i] # Gone
    BY <1>1, ExchangeAssumption DEF ExchangeAssumption
  <1> QED BY <1>1, <1>2, <1>3, BesideOK DEF IInv, Types

LEMMA StartOK ==
    ASSUME IInv, NEW c \in Char, NEW victim \in Char, Start(c, victim)
    PROVE  IInv'
  <1>1. /\ c # victim /\ company[c] = None /\ company[victim] = None
        /\ safebox[c] # "open" /\ safebox[victim] # "open"
        /\ company' = [company EXCEPT ![c] = victim, ![victim] = c]
        /\ UNCHANGED <<owner, exchanging, slots, accepted, safebox>>
    BY DEF Start, MayExchange
  <1>2. Types'
    BY <1>1 DEF IInv, Types
  <1>3. SlotsHold'
    BY <1>1 DEF IInv, SlotsHold
  <1>4. AcceptsRun'
    BY <1>1, ExchangeAssumption DEF IInv, AcceptsRun, Types, ExchangeAssumption
  <1>5. Paired'
    <2>1. \A x \in Char : company'[x] = IF x = victim THEN c ELSE IF x = c THEN victim ELSE company[x]
      BY <1>1 DEF IInv, Types
    <2>2. \A x \in Char : company[x] # None =>
            company[x] \in Char /\ company[x] # x /\ company[company[x]] = x /\ safebox[x] # "open"
      BY DEF IInv, Paired, Types
    <2>3. \A x \in Char : company[x] \notin {c, victim}
      BY <1>1, <2>2, ExchangeAssumption DEF ExchangeAssumption
    <2>4. ASSUME NEW x \in Char, company'[x] # None
          PROVE  company'[x] # x /\ company'[company'[x]] = x /\ safebox'[x] # "open"
      <3>1. CASE x \in {c, victim}
        BY <1>1, <2>1, <3>1
      <3>2. CASE x \notin {c, victim}
        BY <1>1, <2>1, <2>2, <2>3, <2>4, <3>2
      <3> QED BY <3>1, <3>2
    <2> QED BY <2>4 DEF Paired
  <1>6. Blocked'
    BY <1>1 DEF IInv, Blocked, OfferedItems
  <1> QED BY <1>2, <1>3, <1>4, <1>5, <1>6 DEF IInv

(* An offer that changes: the accepts of both are taken back.              *)
LEMMA OfferOK ==
    ASSUME IInv, NEW c \in Char, WithoutAccept(c), UNCHANGED <<owner, company, safebox>>
    PROVE  Types' /\ AcceptsRun' /\ Paired'
  BY DEF IInv, Types, AcceptsRun, Paired, WithoutAccept

LEMMA AddItemOK ==
    ASSUME IInv, NEW c \in Char, NEW i \in Item, AddItem(c, i)
    PROVE  IInv'
  <1>1. /\ owner[i] = c /\ i \notin exchanging /\ i # None
        /\ exchanging' = exchanging \cup {i}
        /\ UNCHANGED <<owner, company, safebox>>
    BY ExchangeAssumption DEF AddItem, ExchangeAssumption
  <1>2. PICK n \in Slot : /\ slots[c][n].item = None
                          /\ slots' = [slots EXCEPT ![c][n] = [item |-> i, cell |-> cell[i]]]
    BY DEF AddItem
  <1>3. owner[i] # Gone
    BY <1>1, ExchangeAssumption DEF ExchangeAssumption
  <1>4. \A x \in Char : i \notin OfferedItems(x)
    BY <1>1, <1>3, OfferedIsOwn
  <1>5. \A x \in Char, m \in Slot : slots[x][m].item # i
    BY <1>1, <1>4 DEF OfferedItems
  <1>6. slots' = [x \in Char |-> [m \in Slot |->
            IF x = c /\ m = n THEN [item |-> i, cell |-> cell[i]] ELSE slots[x][m]]]
    BY <1>2 DEF IInv, SlotsHold
  <1>7. \A x \in Char, m \in Slot :
            slots'[x][m].item = IF x = c /\ m = n THEN i ELSE slots[x][m].item
    BY <1>6
  <1>8. SlotsHold'
    <2>1. slots' = [x \in Char |-> [m \in Slot |-> slots'[x][m]]]
      BY <1>6
    <2>2. \A x \in Char : \A m \in Slot : slots'[x][m].item \in Item \cup {None}
      BY <1>7 DEF IInv, SlotsHold
    <2>3. \A x \in Char : \A k, m \in Slot :
            k # m /\ slots'[x][k].item = slots'[x][m].item => slots'[x][k].item = None
      BY <1>5, <1>7 DEF IInv, SlotsHold
    <2> QED BY <2>1, <2>2, <2>3 DEF SlotsHold
  <1>9. \A x \in Char : OfferedItems(x)' = IF x = c THEN OfferedItems(x) \cup {i} ELSE OfferedItems(x)
    <2> SUFFICES ASSUME NEW x \in Char
                 PROVE  OfferedItems(x)' = IF x = c THEN OfferedItems(x) \cup {i} ELSE OfferedItems(x)
      OBVIOUS
    <2>1. \A j : j \in OfferedItems(x)' <=> j # None /\ \E m \in Slot : slots'[x][m].item = j
      BY DEF OfferedItems
    <2>2. \A j : j \in OfferedItems(x) <=> j # None /\ \E m \in Slot : slots[x][m].item = j
      BY DEF OfferedItems
    <2>3. \A j : j \in OfferedItems(x)' <=> j \in OfferedItems(x) \/ (x = c /\ j = i)
      BY <1>1, <1>2, <1>7, <2>1, <2>2
    <2> QED BY <2>3
  <1>10. Blocked'
    <2>1. BlockedMeans
      BY BlockedIff DEF IInv
    <2>2. \A j : j \in exchanging' <=>
            (\E x \in Char : j \in OfferedItems(x)') /\ ~(j \in Item /\ owner'[j] = Gone)
      BY <1>1, <1>3, <1>9, <2>1 DEF BlockedMeans
    <2>3. \A x \in Char : \A j \in OfferedItems(x)' : j \in Item /\ owner'[j] \in {x, Gone}
      BY <1>1, <1>9, <2>1 DEF BlockedMeans
    <2>4. BlockedMeans'
      BY <2>2, <2>3 DEF BlockedMeans
    <2> QED BY <2>4, BlockedIff, PTL
  <1> QED BY <1>1, <1>8, <1>10, OfferOK DEF IInv, AddItem

LEMMA RemoveItemOK ==
    ASSUME IInv, NEW c \in Char, NEW n \in Slot, RemoveItem(c, n)
    PROVE  IInv'
  <1> DEFINE i == slots[c][n].item
  <1>1. /\ i # None
        /\ slots' = [slots EXCEPT ![c][n] = Empty]
        /\ exchanging' = exchanging \ {i}
        /\ UNCHANGED <<owner, company, safebox>>
    BY DEF RemoveItem
  <1>2. i \in OfferedItems(c)
    BY <1>1 DEF OfferedItems
  <1>3. i \in Item /\ owner[i] \in {c, Gone}
    BY <1>2, OfferedIsOwn
  <1>4. \A m \in Slot \ {n} : slots[c][m].item # i
    BY <1>1 DEF IInv, SlotsHold
  <1>5. slots' = [x \in Char |-> [m \in Slot |-> IF x = c /\ m = n THEN Empty ELSE slots[x][m]]]
    BY <1>1 DEF IInv, SlotsHold
  <1>6. \A x \in Char, m \in Slot :
            slots'[x][m].item = IF x = c /\ m = n THEN None ELSE slots[x][m].item
    BY <1>5 DEF Empty
  <1>7. SlotsHold'
    <2>1. slots' = [x \in Char |-> [m \in Slot |-> slots'[x][m]]]
      BY <1>5
    <2>2. \A x \in Char : \A m \in Slot : slots'[x][m].item \in Item \cup {None}
      BY <1>6 DEF IInv, SlotsHold
    <2>3. \A x \in Char : \A k, m \in Slot :
            k # m /\ slots'[x][k].item = slots'[x][m].item => slots'[x][k].item = None
      BY <1>6 DEF IInv, SlotsHold
    <2> QED BY <2>1, <2>2, <2>3 DEF SlotsHold
  <1> HIDE DEF i
  <1>8. \A x \in Char : OfferedItems(x)' = IF x = c THEN OfferedItems(x) \ {i} ELSE OfferedItems(x)
    <2> SUFFICES ASSUME NEW x \in Char
                 PROVE  OfferedItems(x)' = IF x = c THEN OfferedItems(x) \ {i} ELSE OfferedItems(x)
      OBVIOUS
    <2>1. \A j : j \in OfferedItems(x)' <=> j # None /\ \E m \in Slot : slots'[x][m].item = j
      BY DEF OfferedItems
    <2>2. \A j : j \in OfferedItems(x) <=> j # None /\ \E m \in Slot : slots[x][m].item = j
      BY DEF OfferedItems
    <2>3. \A j : j \in OfferedItems(x)' <=> j \in OfferedItems(x) /\ ~(x = c /\ j = i)
      BY <1>1, <1>4, <1>6, <2>1, <2>2 DEF i
    <2> QED BY <2>3
  <1>9. Blocked'
    <2>1. BlockedMeans
      BY BlockedIff DEF IInv
    <2>2. \A x \in Char : i \in OfferedItems(x) /\ owner[i] # Gone => x = c
      BY <1>3, OfferedIsOwn
    <2>3. \A j : j \in exchanging' <=>
            (\E x \in Char : j \in OfferedItems(x)') /\ ~(j \in Item /\ owner'[j] = Gone)
      BY <1>1, <1>3, <1>8, <2>1, <2>2 DEF BlockedMeans
    <2>4. \A x \in Char : \A j \in OfferedItems(x)' : j \in Item /\ owner'[j] \in {x, Gone}
      BY <1>1, <1>8, <2>1 DEF BlockedMeans
    <2>5. BlockedMeans'
      BY <2>3, <2>4 DEF BlockedMeans
    <2> QED BY <2>5, BlockedIff, PTL
  <1> QED BY <1>1, <1>7, <1>9, OfferOK DEF IInv, RemoveItem

LEMMA AddGoldOK ==
    ASSUME IInv, NEW c \in Char, NEW n, AddGold(c, n)
    PROVE  IInv'
  <1>1. UNCHANGED <<owner, company, safebox, slots, exchanging>>
    BY DEF AddGold
  <1>2. SlotsHold' /\ Blocked'
    BY <1>1 DEF IInv, SlotsHold, Blocked, OfferedItems
  <1> QED BY <1>1, <1>2, OfferOK DEF IInv, AddGold

LEMMA AcceptFirstOK ==
    ASSUME IInv, NEW c \in Char, AcceptFirst(c)
    PROVE  IInv'
  <1>1. /\ company[c] # None /\ accepted' = accepted \cup {c}
        /\ UNCHANGED <<owner, company, safebox, slots, exchanging>>
    BY DEF AcceptFirst
  <1>2. Types' /\ AcceptsRun' /\ Paired'
    BY <1>1 DEF IInv, Types, AcceptsRun, Paired
  <1>3. SlotsHold' /\ Blocked'
    BY <1>1 DEF IInv, SlotsHold, Blocked, OfferedItems
  <1> QED BY <1>2, <1>3 DEF IInv

(* The end of an exchange of c, if what w moved was offered and there.     *)
LEMMA EndOK ==
    ASSUME IInv, NEW c \in Char, NEW w, company[c] # None, End(c, w),
           w.owner \in [Item -> Char \cup {Ground, Gone}],
           \A i \in Item : w.owner[i] # owner[i] =>
              /\ i \in OfferedItems(c) \cup OfferedItems(company[c])
              /\ owner[i] \in {c, company[c]}
              /\ w.owner[i] # Gone,
           \A i : i \in w.exchanging /\ i \notin w.offered <=>
                i \in exchanging /\ i \notin OfferedItems(c) \cup OfferedItems(company[c])
    PROVE  IInv'
  <1> DEFINE both == {c, company[c]}
  <1>1. /\ owner' = w.owner
        /\ exchanging' = w.exchanging \ w.offered
        /\ company' = [x \in Char |-> IF x \in both THEN None ELSE company[x]]
        /\ slots' = [x \in Char |-> IF x \in both THEN [n \in Slot |-> Empty] ELSE slots[x]]
        /\ accepted' = accepted \ both
        /\ UNCHANGED safebox
    BY DEF End
  <1>2. \A x \in Char : company[x] # None =>
            company[x] \in Char /\ company[x] # x /\ company[company[x]] = x /\ safebox[x] # "open"
    BY DEF IInv, Paired, Types
  <1>3. \A x \in Char \ both : company[x] \notin both
    BY <1>2, ExchangeAssumption DEF ExchangeAssumption
  <1>4. Types'
    BY <1>1 DEF IInv, Types
  <1>5. SlotsHold'
    <2>1. \A x \in Char, n \in Slot :
              slots'[x][n] = IF x \in both THEN Empty ELSE slots[x][n]
      BY <1>1
    <2>2. slots' = [x \in Char |-> [n \in Slot |-> slots'[x][n]]]
      <3>1. \A x \in Char : slots'[x] = [n \in Slot |-> slots'[x][n]]
        BY <1>1 DEF IInv, SlotsHold
      <3> QED BY <1>1, <3>1
    <2>3. Empty.item = None
      BY DEF Empty
    <2> HIDE DEF both
    <2>4. \A x \in Char, n \in Slot :
              slots'[x][n].item = IF x \in both THEN None ELSE slots[x][n].item
      BY <2>1, <2>3
    <2>5. \A x \in Char : \A n \in Slot : slots'[x][n].item \in Item \cup {None}
      BY <2>4 DEF IInv, SlotsHold
    <2>6. \A x \in Char : \A n, m \in Slot :
            n # m /\ slots'[x][n].item = slots'[x][m].item => slots'[x][n].item = None
      BY <2>4 DEF IInv, SlotsHold
    <2> QED BY <2>2, <2>5, <2>6 DEF SlotsHold
  <1>6. AcceptsRun'
    BY <1>1 DEF IInv, AcceptsRun
  <1>7. Paired'
    <2>1. \A x \in Char : company'[x] = IF x \in both THEN None ELSE company[x]
      BY <1>1
    <2> HIDE DEF both
    <2> QED BY <1>1, <1>2, <1>3, <2>1 DEF Paired
  <1>8. \A x \in Char : OfferedItems(x)' = IF x \in both THEN {} ELSE OfferedItems(x)
    <2> SUFFICES ASSUME NEW x \in Char
                 PROVE  OfferedItems(x)' = IF x \in both THEN {} ELSE OfferedItems(x)
      OBVIOUS
    <2>1. CASE x \in both
      <3>1. \A n \in Slot : slots'[x][n].item = None
        BY <1>1, <2>1 DEF Empty
      <3> QED BY <2>1, <3>1 DEF OfferedItems
    <2>2. CASE x \notin both
      BY <1>1, <2>2, SameOffers
    <2> QED BY <2>1, <2>2
  <1>9. Blocked'
    <2> DEFINE off == OfferedItems(c) \cup OfferedItems(company[c])
    <2>1. BlockedMeans
      BY BlockedIff DEF IInv
    <2>2. \A i : i \in exchanging' <=> i \in exchanging /\ i \notin off
      BY <1>1
    <2>3. \A i \in off : i \in Item /\ owner[i] \in both \cup {Gone}
      BY <1>2, OfferedIsOwn
    <2>4. \A i \in Item : owner'[i] # owner[i] => i \in off /\ owner[i] \in both /\ owner'[i] # Gone
      BY <1>1
    <2>5. \A x \in Char \ both : \A i \in OfferedItems(x) :
            i \in Item /\ owner[i] \in {x, Gone} /\ (owner[i] # Gone => i \notin off) /\ owner'[i] = owner[i]
      <3> SUFFICES ASSUME NEW x \in Char \ both, NEW i \in OfferedItems(x)
                   PROVE  /\ i \in Item /\ owner[i] \in {x, Gone}
                          /\ owner[i] # Gone => i \notin off
                          /\ owner'[i] = owner[i]
        OBVIOUS
      <3>1. i \in Item /\ owner[i] \in {x, Gone}
        BY OfferedIsOwn
      <3>2. owner[i] \notin both
        BY <1>2, <3>1, ExchangeAssumption DEF ExchangeAssumption
      <3>3. owner[i] # Gone => i \notin off
        BY <2>3, <3>2
      <3>4. owner'[i] = owner[i]
        BY <2>4, <3>1, <3>2
      <3> QED BY <3>1, <3>3, <3>4
    <2>6. c \in Char /\ company[c] \in Char
      BY <1>2
    <2>7. \A i \in exchanging : i \in Item /\ owner[i] # Gone /\ \E x \in Char : i \in OfferedItems(x)
      BY BlockedIsOffered
    <2>8. \A x \in both : OfferedItems(x) \subseteq off
      OBVIOUS
    <2> HIDE DEF both, off
    <2>9. \A i : i \in exchanging' =>
            (\E x \in Char : i \in OfferedItems(x)') /\ ~(i \in Item /\ owner'[i] = Gone)
      <3> SUFFICES ASSUME NEW i, i \in exchanging'
                   PROVE  (\E x \in Char : i \in OfferedItems(x)') /\ owner'[i] # Gone
        OBVIOUS
      <3>1. i \in exchanging /\ i \notin off
        BY <2>2
      <3>2. i \in Item /\ owner[i] # Gone /\ owner'[i] = owner[i]
        BY <2>4, <2>7, <3>1
      <3>3. PICK x \in Char : i \in OfferedItems(x)
        BY <2>7, <3>1
      <3>4. x \notin both
        BY <2>8, <3>1, <3>3
      <3> QED BY <1>8, <3>2, <3>3, <3>4
    <2>10. \A x \in Char : \A i \in OfferedItems(x)' :
            /\ i \in Item /\ owner'[i] \in {x, Gone}
            /\ owner'[i] # Gone => i \in exchanging'
      <3> SUFFICES ASSUME NEW x \in Char, NEW i \in OfferedItems(x)'
                   PROVE  /\ i \in Item /\ owner'[i] \in {x, Gone}
                          /\ owner'[i] # Gone => i \in exchanging'
        OBVIOUS
      <3>1. x \notin both /\ i \in OfferedItems(x)
        BY <1>8
      <3>2. i \in Item /\ owner[i] \in {x, Gone} /\ (owner[i] # Gone => i \notin off) /\ owner'[i] = owner[i]
        BY <2>5, <3>1
      <3>3. owner[i] # Gone => i \in exchanging
        BY <3>1, OfferedIsOwn
      <3> QED BY <2>2, <3>2, <3>3
    <2>11. BlockedMeans'
      BY <2>9, <2>10 DEF BlockedMeans
    <2> QED BY <2>11, BlockedIff, PTL
  <1> QED BY <1>4, <1>5, <1>6, <1>7, <1>9 DEF IInv

LEMMA CancelOK == ASSUME IInv, NEW c \in Char, company[c] # None, End(c, Now(c)) PROVE IInv'
  <1>1. Now(c).owner = owner /\ Now(c).exchanging = exchanging
        /\ Now(c).offered = OfferedItems(c) \cup OfferedItems(company[c])
    BY DEF Now
  <1> QED BY <1>1, EndOK DEF IInv, Types

(* What Done makes of w: items that c offers may go to the partner.        *)
LEMMA DoneMoves ==
    ASSUME NEW w, NEW c
    PROVE  \E moved \in SUBSET OfferedItems(c) :
            /\ Done(w, c).owner = [i \in Item |-> IF i \in moved THEN company[c] ELSE w.owner[i]]
            /\ Done(w, c).exchanging = w.exchanging \ moved
            /\ Done(w, c).offered = w.offered \ moved
  <1> DEFINE put == PutAll(c, Taken(w.owner, w.cell, company[c]))
             moved == {i \in OfferedItems(c) : put[i] # None}
  <1>1. /\ Done(w, c).owner = [i \in Item |-> IF i \in moved THEN company[c] ELSE w.owner[i]]
        /\ Done(w, c).exchanging = w.exchanging \ moved
        /\ Done(w, c).offered = w.offered \ moved
    BY DEF Done
  <1>2. moved \in SUBSET OfferedItems(c)
    OBVIOUS
  <1> HIDE DEF moved
  <1> QED BY <1>1, <1>2

LEMMA TradeOK ==
    ASSUME IInv, NEW c \in Char, company[c] # None, Check(c), Check(company[c]),
           End(c, Done(Done(Now(c), c), company[c]))
    PROVE  IInv'
  <1> DEFINE p == company[c]
             w1 == Done(Now(c), c)
             w2 == Done(w1, p)
  <1>1. p \in Char /\ company[p] = c
    BY DEF IInv, Paired, Types
  <1>2. Now(c).owner = owner /\ Now(c).exchanging = exchanging
        /\ Now(c).offered = OfferedItems(c) \cup OfferedItems(p)
    BY DEF Now
  <1>3. PICK moved1 \in SUBSET OfferedItems(c) :
            /\ w1.owner = [i \in Item |-> IF i \in moved1 THEN p ELSE owner[i]]
            /\ w1.exchanging = exchanging \ moved1
            /\ w1.offered = (OfferedItems(c) \cup OfferedItems(p)) \ moved1
    BY <1>2, DoneMoves
  <1>4. PICK moved2 \in SUBSET OfferedItems(p) :
            /\ w2.owner = [i \in Item |-> IF i \in moved2 THEN c ELSE w1.owner[i]]
            /\ w2.exchanging = w1.exchanging \ moved2
            /\ w2.offered = w1.offered \ moved2
    <2> HIDE DEF w1
    <2> QED BY <1>1, DoneMoves
  <1>5. \A i \in OfferedItems(c) : owner[i] = c
    BY DEF Check, OfferedItems
  <1>6. \A i \in OfferedItems(p) : owner[i] = p
    BY DEF Check, OfferedItems
  <1>7. End(c, w2)
    OBVIOUS
  <1> HIDE DEF p, w1, w2
  <1>8. \A i \in Item : w2.owner[i] = IF i \in moved2 THEN c ELSE IF i \in moved1 THEN p ELSE owner[i]
    BY <1>3, <1>4
  <1>9. w2.owner \in [Item -> Char \cup {Ground, Gone}]
    BY <1>1, <1>3, <1>4 DEF IInv, Types
  <1>10. \A i \in Item : w2.owner[i] # owner[i] =>
            /\ i \in OfferedItems(c) \cup OfferedItems(p)
            /\ owner[i] \in {c, p}
            /\ w2.owner[i] # Gone
    BY <1>1, <1>5, <1>6, <1>8, ExchangeAssumption DEF ExchangeAssumption
  <1>11. \A i : i \in w2.exchanging /\ i \notin w2.offered <=>
            i \in exchanging /\ i \notin OfferedItems(c) \cup OfferedItems(p)
    BY <1>3, <1>4
  <1> QED BY <1>7, <1>9, <1>10, <1>11, EndOK DEF p

LEMMA AcceptSecondOK == ASSUME IInv, NEW c \in Char, AcceptSecond(c) PROVE IInv'
  <1>1. company[c] # None
    BY DEF AcceptSecond
  <1>2. \/ End(c, Now(c))
        \/ Check(c) /\ Check(company[c]) /\ End(c, Done(Done(Now(c), c), company[c]))
    BY DEF AcceptSecond
  <1> QED BY <1>1, <1>2, CancelOK, TradeOK

LEMMA NextOK == ASSUME IInv, [Next]_vars PROVE IInv'
  <1>1. CASE UNCHANGED vars
    <2>1. UNCHANGED <<owner, exchanging, exchange, safebox>>
      BY <1>1 DEF vars
    <2>2. Types'
      BY <2>1 DEF IInv, Types, exchange
    <2> QED BY <2>1, <2>2, BesideOK
  <1>2. ASSUME NEW c \in Char, Cancel(c) PROVE IInv'
    BY <1>2, CancelOK DEF Cancel
  <1>3. CASE Next
    BY <1>2, <1>3, StartOK, AddItemOK, RemoveItemOK, AddGoldOK, AcceptFirstOK, AcceptSecondOK,
       BesideSteps, ExpireOK DEF Next
  <1> QED BY <1>1, <1>3

LEMMA Invariance == Spec => []IInv
  <1> QED BY InitOK, NextOK, PTL DEF Spec

(* Whoever is in an exchange is so with one other, who is in it with him,  *)
(* and has no safebox open (ExchangeStart, CInputDB::SafeboxLoad).         *)
THEOREM StaysPaired == Spec => []Paired
  <1>1. IInv => Paired
    BY DEF IInv
  <1> QED BY <1>1, Invariance, PTL

(* Exactly the items in the slots of running exchanges are blocked, as far *)
(* as they exist (SetExchanging in AddItem, RemoveItem, Done and Cancel).  *)
THEOREM BlocksOffered == Spec => []Blocked
  <1>1. IInv => Blocked
    BY DEF IInv
  <1> QED BY <1>1, Invariance, PTL

(* Every character offers some gold, if only none.                         *)
GoldHeld == lGold = [x \in Char |-> lGold[x]]

LEMMA GoldHeldOK == ASSUME GoldHeld, [Next]_vars PROVE GoldHeld'
  <1>1. CASE UNCHANGED lGold
    BY <1>1 DEF GoldHeld
  <1>2. CASE \E c, n : lGold' = [lGold EXCEPT ![c] = n]
    BY <1>2 DEF GoldHeld
  <1>3. CASE \E c, w : End(c, w)
    <2>1. PICK both : lGold' = [x \in Char |-> IF x \in both THEN 0 ELSE lGold[x]]
      BY <1>3 DEF End
    <2> QED BY <2>1 DEF GoldHeld
  <1>4. CASE UNCHANGED vars
    BY <1>1, <1>4 DEF vars, exchange
  <1>5. ASSUME NEW c \in Char, NEW i \in Item,
               AddItem(c, i) \/ DropItem(c, i) \/ PickupItem(c, i)
                 \/ \E n \in Cell : MoveItem(c, i, n)
        PROVE  UNCHANGED lGold
    BY <1>5 DEF AddItem, DropItem, PickupItem, Expire, MoveItem, Meanwhile, exchange
  <1>6. ASSUME NEW i \in Item, Expire(i) PROVE UNCHANGED lGold
    BY <1>6 DEF Expire, Meanwhile, exchange
  <1>7. ASSUME NEW c \in Char,
               \/ \E victim \in Char : Start(c, victim)
               \/ \E n \in Slot : RemoveItem(c, n)
               \/ \E n \in 1..GoldMax : DropGold(c, n)
               \/ \E k \in DOMAIN floor : PickupGold(c, k)
               \/ AcceptFirst(c) \/ ReqSafeboxLoad(c) \/ SafeboxLoad(c) \/ CloseSafebox(c)
        PROVE  UNCHANGED lGold
    BY <1>7 DEF Start, RemoveItem, DropGold, PickupGold, AcceptFirst, ReqSafeboxLoad,
        SafeboxLoad, CloseSafebox, SetSafebox, Meanwhile, exchange
  <1>8. ASSUME NEW c \in Char, NEW n, AddGold(c, n) PROVE lGold' = [lGold EXCEPT ![c] = n]
    BY <1>8 DEF AddGold
  <1>9. ASSUME NEW c \in Char, AcceptSecond(c) \/ Cancel(c) PROVE \E w : End(c, w)
    BY <1>9 DEF AcceptSecond, Cancel
  <1>10. CASE Next
    BY <1>1, <1>2, <1>3, <1>5, <1>6, <1>7, <1>8, <1>9, <1>10 DEF Next
  <1> QED BY <1>4, <1>10

(* Steps that change an offer take back the accepts of both sides.         *)
LEMMA OfferedWhileAccepted ==
    ASSUME IInv, GoldHeld, [Next]_vars, NEW x \in accepted \cap accepted', NEW y \in {x, company[x]}
    PROVE  slots'[y] = slots[y] /\ lGold'[y] = lGold[y]
  <1>1. /\ x \in Char /\ y \in Char /\ company[x] \in Char /\ company[company[x]] = x
        /\ company[y] \in Char /\ y \in {x, company[x]} /\ {y, company[y]} = {x, company[x]}
    BY DEF IInv, AcceptsRun, Paired, Types
  <1>2. ASSUME NEW c \in Char, WithoutAccept(c) PROVE y # c
    BY <1>1, <1>2 DEF WithoutAccept
  <1>3. ASSUME NEW c \in Char, NEW w, company[c] # None, End(c, w)
        PROVE  slots'[y] = slots[y] /\ lGold'[y] = lGold[y]
    <2>1. company[c] \in Char /\ company[company[c]] = c
      BY <1>3 DEF IInv, Paired, Types
    <2>2. y \notin {c, company[c]}
      BY <1>1, <1>3, <2>1 DEF End
    <2> QED BY <1>1, <1>3, <2>2 DEF End
  <1>4. ASSUME NEW c \in Char, Cancel(c) \/ AcceptSecond(c)
        PROVE  slots'[y] = slots[y] /\ lGold'[y] = lGold[y]
    <2>1. company[c] # None /\ \E w : End(c, w)
      BY <1>4 DEF Cancel, AcceptSecond
    <2> QED BY <1>3, <2>1
  <1>5. ASSUME NEW c \in Char, NEW i \in Item, AddItem(c, i)
        PROVE  slots'[y] = slots[y] /\ lGold'[y] = lGold[y]
    BY <1>1, <1>2, <1>5 DEF AddItem, IInv, SlotsHold
  <1>6. ASSUME NEW c \in Char, NEW n \in Slot, RemoveItem(c, n)
        PROVE  slots'[y] = slots[y] /\ lGold'[y] = lGold[y]
    BY <1>1, <1>2, <1>6 DEF RemoveItem, IInv, SlotsHold
  <1>7. ASSUME NEW c \in Char, NEW n, AddGold(c, n)
        PROVE  slots'[y] = slots[y] /\ lGold'[y] = lGold[y]
    <2>1. UNCHANGED slots /\ lGold' = [lGold EXCEPT ![c] = n] /\ y # c
      BY <1>2, <1>7 DEF AddGold
    <2> QED BY <1>1, <2>1 DEF GoldHeld
  <1>8. ASSUME NEW c \in Char, AcceptFirst(c) \/ \E victim \in Char : Start(c, victim)
        PROVE  slots'[y] = slots[y] /\ lGold'[y] = lGold[y]
    BY <1>8 DEF AcceptFirst, Start
  <1>9. ASSUME UNCHANGED exchange
        PROVE  slots'[y] = slots[y] /\ lGold'[y] = lGold[y]
    BY <1>9 DEF exchange
  <1>10. CASE UNCHANGED vars
    BY <1>9, <1>10 DEF vars
  <1>11. ASSUME NEW c \in Char,
               \/ \E i \in Item : DropItem(c, i) \/ PickupItem(c, i)
               \/ \E i \in Item, n \in Cell : MoveItem(c, i, n)
               \/ \E n \in 1..GoldMax : DropGold(c, n)
               \/ \E k \in DOMAIN floor : PickupGold(c, k)
               \/ ReqSafeboxLoad(c) \/ SafeboxLoad(c) \/ CloseSafebox(c)
        PROVE  UNCHANGED exchange
    BY <1>11 DEF DropItem, PickupItem, MoveItem, DropGold, PickupGold, Meanwhile,
        ReqSafeboxLoad, SafeboxLoad, CloseSafebox, SetSafebox
  <1>12. ASSUME NEW i \in Item, Expire(i) PROVE UNCHANGED exchange
    BY <1>12 DEF Expire, Meanwhile
  <1>13. CASE Next
    BY <1>4, <1>5, <1>6, <1>7, <1>8, <1>9, <1>11, <1>12, <1>13 DEF Next
  <1> QED BY <1>10, <1>13

(* What one has accepted stays as it is as long as the accept counts       *)
(* (Accept(false) of both sides in AddItem, RemoveItem and AddGold).       *)
THEOREM KeepsAccepted == Spec => AcceptedStands
  <1>1. ASSUME IInv, GoldHeld, [Next]_vars
        PROVE  [\A c \in accepted \cap accepted' : \A x \in {c, company[c]} :
                    slots'[x] = slots[x] /\ lGold'[x] = lGold[x]]_vars
    BY <1>1, OfferedWhileAccepted
  <1>2. Init => GoldHeld
    BY DEF Init, GoldHeld
  <1> QED BY <1>1, <1>2, GoldHeldOK, Invariance, PTL DEF Spec, AcceptedStands
-----------------------------------------------------------------------------
(* Where items are put                                                     *)

LEMMA LeastNat ==
    ASSUME NEW T \in SUBSET Nat, T # {}
    PROVE  \E m \in T : \A k \in T : m <= k
  <1> DEFINE R == OpToRel(<, Nat)
  <1>1. IsWellFoundedOn(R, Nat)
    BY NatLessThanWellFounded
  <1>2. PICK m \in T : \A k \in T : <<k, m>> \notin R
    <2> HIDE DEF R
    <2> QED BY <1>1, WFMin
  <1>3. \A k \in T : ~(k < m)
    BY <1>2 DEF OpToRel
  <1> QED BY <1>3

(* Induction: a set with 0, closed under the successor, has every number.  *)
LEMMA NatSet ==
    ASSUME NEW S, 0 \in S, \A n \in Nat : n \in S => n + 1 \in S
    PROVE  Nat \subseteq S
  <1> DEFINE T == Nat \ S
  <1>1. SUFFICES ASSUME T # {} PROVE FALSE
    OBVIOUS
  <1>2. PICK m \in T : \A k \in T : m <= k
    BY <1>1, LeastNat
  <1>3. m \in Nat /\ m # 0 /\ m \notin S
    OBVIOUS
  <1>4. m - 1 \in Nat /\ m - 1 \in S
    BY <1>2, <1>3
  <1>5. (m - 1) + 1 \in S
    BY <1>4
  <1> QED BY <1>3, <1>5

LEMMA MinOK ==
    ASSUME NEW room \in SUBSET Cell, room # {}
    PROVE  Min(room) \in room /\ \A n \in room : Min(room) <= n
  <1>1. Cell \subseteq Nat
    BY DEF Cell
  <1>2. \E m \in room : \A k \in room : m <= k
    BY <1>1, LeastNat
  <1> QED BY <1>2 DEF Min

(* The recursion that defines Search has a solution, and Search is one.    *)
LEMMA SearchSteps ==
    ASSUME NEW c, NEW T
    PROVE  /\ Search(c, T)[0] = [taken |-> T, put |-> [i \in Item |-> None]]
           /\ \A n \in Slot : Search(c, T)[n] =
                IF slots[c][n].item = None THEN Search(c, T)[n - 1]
                ELSE PutNext(Search(c, T)[n - 1], slots[c][n].item)
  <1> DEFINE start == [taken |-> T, put |-> [i \in Item |-> None]]
             After(x, n) == IF slots[c][n].item = None THEN x ELSE PutNext(x, slots[c][n].item)
             Solves(f, n) == f = [k \in 0..n |-> IF k = 0 THEN start ELSE After(f[k - 1], k)]
             S == {n \in Nat : \E f : Solves(f, n)}
  <1>1. Slots \in Nat
    BY ExchangeAssumption DEF ExchangeAssumption
  <1>2. Search(c, T) = CHOOSE f : Solves(f, Slots)
    BY DEF Search
  <1> HIDE DEF start, After
  <1>3. 0 \in S
    <2> DEFINE f == [k \in 0..0 |-> start]
    <2>1. Solves(f, 0)
      OBVIOUS
    <2> QED BY <2>1
  <1>4. ASSUME NEW n \in Nat, n \in S
        PROVE  n + 1 \in S
    <2>1. PICK f : Solves(f, n)
      BY <1>4
    <2> DEFINE g == [k \in 0 .. n + 1 |-> IF k = n + 1 THEN After(f[n], n + 1) ELSE f[k]]
    <2>2. \A k \in 0 .. n + 1 : g[k] = IF k = 0 THEN start ELSE After(g[k - 1], k)
      <3>1. SUFFICES ASSUME NEW k \in 0 .. n + 1
                     PROVE  g[k] = IF k = 0 THEN start ELSE After(g[k - 1], k)
        OBVIOUS
      <3>2. CASE k = 0
        BY <2>1, <3>2
      <3>3. CASE k = n + 1
        <4>1. g[k] = After(f[n], k) /\ k # 0 /\ k - 1 = n /\ g[n] = f[n]
          BY <3>3
        <4> QED BY <4>1
      <3>4. CASE k # 0 /\ k # n + 1
        <4>1. k \in 0..n /\ k - 1 \in 0..n /\ k - 1 # n + 1
          BY <3>4
        <4>2. g[k] = f[k] /\ g[k - 1] = f[k - 1]
          BY <3>4, <4>1
        <4>3. f[k] = After(f[k - 1], k)
          BY <2>1, <3>4, <4>1
        <4> QED BY <3>4, <4>2, <4>3
      <3> QED BY <3>2, <3>3, <3>4
    <2>3. Solves(g, n + 1)
      BY <2>2
    <2> HIDE DEF g, Solves
    <2>4. \E h : Solves(h, n + 1)
      BY <2>3
    <2> QED BY <2>4
  <1>5. Nat \subseteq S
    <2> HIDE DEF S
    <2> QED BY <1>3, <1>4, NatSet
  <1>6. \E f : Solves(f, Slots)
    BY <1>1, <1>5
  <1>7. Solves(Search(c, T), Slots)
    <2> HIDE DEF Solves
    <2> QED BY <1>2, <1>6
  <1> QED BY <1>1, <1>7 DEF start, After, Slot

SlotItem(c, n) == slots[c][n].item

(* After n slots of c: the places found fit and are apart, and what is     *)
(* taken is what was taken first and these places.                         *)
SearchOK(c, T, n, s) ==
    /\ s.put \in [Item -> Cell \cup {None}]
    /\ \A i \in Item : s.put[i] # None => \E k \in 1..n : SlotItem(c, k) = i
    /\ \A x : x \in s.taken <=>
            x \in T \/ \E i \in Item : s.put[i] # None /\ x \in Area(s.put[i], Size[i])
    /\ \A i \in Item : s.put[i] # None => Fits(T, s.put[i], Size[i])
    /\ \A i, j \in Item : i # j /\ s.put[i] # None /\ s.put[j] # None =>
            Area(s.put[i], Size[i]) \cap Area(s.put[j], Size[j]) = {}

LEMMA PutNextFinds ==
    ASSUME NEW s, NEW i \in Item, s.put \in [Item -> Cell \cup {None}], s.put[i] = None
    PROVE  LET room == Room(s.taken, Size[i])
               r == PutNext(s, i)
           IN  /\ room = {} => r = s
               /\ room # {} =>
                    /\ r.put[i] \in room /\ r.put[i] # None
                    /\ \A n \in room : r.put[i] <= n
                    /\ r.taken = s.taken \cup Area(r.put[i], Size[i])
                    /\ r.put \in [Item -> Cell \cup {None}]
                    /\ \A j \in Item \ {i} : r.put[j] = s.put[j]
  <1> DEFINE room == Room(s.taken, Size[i])
             r == PutNext(s, i)
  <1>1. room \in SUBSET Cell
    BY DEF Room
  <1>2. room # {} => Min(room) \in room /\ \A n \in room : Min(room) <= n
    <2> HIDE DEF room
    <2> QED BY <1>1, MinOK
  <1>3. r = IF room = {} THEN s
            ELSE [taken |-> s.taken \cup Area(Min(room), Size[i]),
                  put   |-> [s.put EXCEPT ![i] = Min(room)]]
    BY DEF PutNext
  <1>4. None \notin Cell
    BY ExchangeAssumption DEF ExchangeAssumption
  <1> HIDE DEF room, r
  <1>5. ASSUME room # {}
        PROVE  /\ r.put[i] = Min(room)
               /\ r.taken = s.taken \cup Area(Min(room), Size[i])
               /\ r.put \in [Item -> Cell \cup {None}]
               /\ \A j \in Item \ {i} : r.put[j] = s.put[j]
    <2>1. r.put = [s.put EXCEPT ![i] = Min(room)]
      BY <1>3, <1>5
    <2>2. r.taken = s.taken \cup Area(Min(room), Size[i])
      BY <1>3, <1>5
    <2>3. Min(room) \in Cell
      BY <1>1, <1>2, <1>5
    <2> QED BY <2>1, <2>2, <2>3
  <1>6. room = {} => r = s
    BY <1>3
  <1>7. room # {} => r.put[i] \in room /\ r.put[i] # None /\ (\A n \in room : r.put[i] <= n)
                     /\ r.taken = s.taken \cup Area(r.put[i], Size[i])
    BY <1>1, <1>2, <1>4, <1>5
  <1> QED BY <1>5, <1>6, <1>7 DEF room, r

LEMMA SearchNext ==
    ASSUME NEW c, NEW T, NEW n \in Nat, NEW s, SearchOK(c, T, n, s),
           SlotItem(c, n + 1) \in Item, s.put[SlotItem(c, n + 1)] = None
    PROVE  SearchOK(c, T, n + 1, PutNext(s, SlotItem(c, n + 1)))
  <1> DEFINE i == SlotItem(c, n + 1)
             r == PutNext(s, i)
             room == Room(s.taken, Size[i])
  <1>1. s.put \in [Item -> Cell \cup {None}]
    BY DEF SearchOK
  <1>2. /\ room = {} => r = s
        /\ room # {} =>
             /\ r.put[i] \in room /\ r.put[i] # None
             /\ r.taken = s.taken \cup Area(r.put[i], Size[i])
             /\ r.put \in [Item -> Cell \cup {None}]
             /\ \A j \in Item \ {i} : r.put[j] = s.put[j]
    <2> HIDE DEF i
    <2>1. i \in Item /\ s.put[i] = None
      BY DEF i
    <2> QED BY <1>1, <2>1, PutNextFinds
  <1>3. i \in Item /\ n + 1 \in 1 .. n + 1 /\ \A k \in 1..n : k \in 1 .. n + 1
    OBVIOUS
  <1>4. \A j \in Item : s.put[j] # None => \E k \in 1..n : SlotItem(c, k) = j
    BY DEF SearchOK
  <1>5. \A x : x \in s.taken <=>
            x \in T \/ \E j \in Item : s.put[j] # None /\ x \in Area(s.put[j], Size[j])
    BY DEF SearchOK
  <1>6. \A j \in Item : s.put[j] # None => Fits(T, s.put[j], Size[j])
    BY DEF SearchOK
  <1>7. \A j, k \in Item : j # k /\ s.put[j] # None /\ s.put[k] # None =>
            Area(s.put[j], Size[j]) \cap Area(s.put[k], Size[k]) = {}
    BY DEF SearchOK
  <1>8. s.put[i] = None /\ SlotItem(c, n + 1) = i
    OBVIOUS
  <1> SUFFICES SearchOK(c, T, n + 1, r)
    OBVIOUS
  <1>9. room # {} => Fits(s.taken, r.put[i], Size[i])
    BY <1>2 DEF Room
  <1> HIDE DEF i, r, room
  <1>10. CASE room = {}
    <2>1. r = s
      BY <1>2, <1>10
    <2>2. \A j \in Item : s.put[j] # None => \E k \in 1 .. n + 1 : SlotItem(c, k) = j
      BY <1>3, <1>4
    <2> QED BY <1>1, <1>5, <1>6, <1>7, <2>1, <2>2 DEF SearchOK
  <1>11. CASE room # {}
    <2>1. \A j \in Item : r.put[j] # None => \E k \in 1 .. n + 1 : SlotItem(c, k) = j
      BY <1>2, <1>3, <1>4, <1>8, <1>11
    <2>2. \A x : x \in r.taken <=>
            x \in T \/ \E j \in Item : r.put[j] # None /\ x \in Area(r.put[j], Size[j])
      <3>1. ASSUME NEW x
            PROVE  (\E j \in Item : r.put[j] # None /\ x \in Area(r.put[j], Size[j])) <=>
                   \/ \E j \in Item : s.put[j] # None /\ x \in Area(s.put[j], Size[j])
                   \/ x \in Area(r.put[i], Size[i])
        BY <1>2, <1>3, <1>8, <1>11
      <3> QED BY <1>2, <1>5, <1>11, <3>1
    <2>3. Area(r.put[i], Size[i]) \cap T = {} /\ Fits(T, r.put[i], Size[i])
      <3>1. T \subseteq s.taken
        BY <1>5
      <3> QED BY <1>9, <1>11, <3>1 DEF Fits
    <2>4. \A j \in Item : r.put[j] # None => Fits(T, r.put[j], Size[j])
      BY <1>2, <1>6, <1>11, <2>3
    <2>5. \A j \in Item : s.put[j] # None => Area(r.put[i], Size[i]) \cap Area(s.put[j], Size[j]) = {}
      <3>1. Area(r.put[i], Size[i]) \cap s.taken = {}
        BY <1>9, <1>11 DEF Fits
      <3>2. \A j \in Item : s.put[j] # None => Area(s.put[j], Size[j]) \subseteq s.taken
        BY <1>5
      <3> QED BY <3>1, <3>2
    <2>6. \A j, k \in Item : j # k /\ r.put[j] # None /\ r.put[k] # None =>
            Area(r.put[j], Size[j]) \cap Area(r.put[k], Size[k]) = {}
      <3> SUFFICES ASSUME NEW j \in Item, NEW k \in Item,
                          j # k, r.put[j] # None, r.put[k] # None
                   PROVE  Area(r.put[j], Size[j]) \cap Area(r.put[k], Size[k]) = {}
        OBVIOUS
      <3>1. CASE j # i /\ k # i
        BY <1>2, <1>7, <1>11, <3>1
      <3>2. CASE j = i
        <4>1. r.put[k] = s.put[k]
          BY <1>2, <1>11, <3>2
        <4> QED BY <2>5, <3>2, <4>1
      <3>3. CASE k = i
        <4>1. r.put[j] = s.put[j]
          BY <1>2, <1>11, <3>3
        <4>2. Area(r.put[i], Size[i]) \cap Area(r.put[j], Size[j]) = {}
          BY <2>5, <4>1
        <4> QED BY <3>3, <4>2
      <3> QED BY <3>1, <3>2, <3>3
    <2> QED BY <1>2, <1>11, <2>1, <2>2, <2>4, <2>6 DEF SearchOK
  <1> QED BY <1>10, <1>11

(* What the slots of c hold, as the search needs it.                       *)
SlotsOf(c) ==
    /\ \A n \in Slot : SlotItem(c, n) \in Item \cup {None}
    /\ \A n, m \in Slot : n # m /\ SlotItem(c, n) = SlotItem(c, m) => SlotItem(c, n) = None

LEMMA SearchRuns ==
    ASSUME NEW c, SlotsOf(c), NEW T
    PROVE  \A n \in 0..Slots : SearchOK(c, T, n, Search(c, T)[n])
  <1> DEFINE t == Search(c, T)
             S == {n \in Nat : n <= Slots => SearchOK(c, T, n, t[n])}
  <1>1. /\ t[0] = [taken |-> T, put |-> [i \in Item |-> None]]
        /\ \A n \in Slot : t[n] = IF SlotItem(c, n) = None THEN t[n - 1]
                                  ELSE PutNext(t[n - 1], SlotItem(c, n))
    BY SearchSteps DEF SlotItem
  <1>2. Slots \in Nat
    BY ExchangeAssumption DEF ExchangeAssumption
  <1> HIDE DEF t
  <1>3. 0 \in S
    <2>1. t[0].taken = T /\ t[0].put = [i \in Item |-> None]
      BY <1>1
    <2>2. SearchOK(c, T, 0, t[0])
      BY <2>1 DEF SearchOK
    <2> QED BY <2>2
  <1>4. ASSUME NEW n \in Nat, n \in S
        PROVE  n + 1 \in S
    <2>1. SUFFICES ASSUME n + 1 <= Slots PROVE SearchOK(c, T, n + 1, t[n + 1])
      OBVIOUS
    <2>2. n + 1 \in Slot /\ (n + 1) - 1 = n /\ SearchOK(c, T, n, t[n])
      BY <1>2, <1>4, <2>1 DEF Slot
    <2>3. t[n + 1] = IF SlotItem(c, n + 1) = None THEN t[n]
                     ELSE PutNext(t[n], SlotItem(c, n + 1))
      BY <1>1, <2>2
    <2>4. \A k \in 1..n : k \in 1 .. n + 1 /\ k \in Slot /\ k # n + 1
      BY <1>2, <2>2 DEF Slot
    <2>5. CASE SlotItem(c, n + 1) = None
      BY <2>2, <2>3, <2>4, <2>5 DEF SearchOK
    <2>6. CASE SlotItem(c, n + 1) # None
      <3>1. SlotItem(c, n + 1) \in Item
        BY <2>2, <2>6 DEF SlotsOf
      <3>2. t[n].put[SlotItem(c, n + 1)] = None
        <4>1. ASSUME t[n].put[SlotItem(c, n + 1)] # None PROVE FALSE
          <5>1. PICK k \in 1..n : SlotItem(c, k) = SlotItem(c, n + 1)
            BY <2>2, <3>1, <4>1 DEF SearchOK
          <5> QED BY <2>2, <2>4, <2>6, <5>1 DEF SlotsOf
        <4> QED BY <4>1
      <3> QED BY <2>2, <2>3, <2>6, <3>1, <3>2, SearchNext
    <2> QED BY <2>5, <2>6
  <1>5. Nat \subseteq S
    <2> HIDE DEF S
    <2> QED BY <1>3, <1>4, NatSet
  <1> QED BY <1>2, <1>5 DEF t
-----------------------------------------------------------------------------
(* Types, and items that stay apart                                        *)

LEMMA SlotsOfAll == ASSUME IInv, NEW c \in Char PROVE SlotsOf(c) /\ OfferedItems(c) \subseteq Item
  BY DEF IInv, SlotsHold, SlotsOf, SlotItem, OfferedItems

LEMMA ZeroCell == 0 \in Cell
  <1>1. Cols \in Nat \ {0} /\ Rows \in Nat \ {0} /\ Pages \in Nat \ {0}
    BY ExchangeAssumption DEF ExchangeAssumption
  <1>2. \A m, n \in Nat \ {0} : m * n \in Nat \ {0}
    OBVIOUS
  <1>3. Cols * Rows \in Nat \ {0}
    BY <1>1, <1>2
  <1>4. (Cols * Rows) * Pages \in Nat \ {0}
    BY <1>1, <1>2, <1>3
  <1> DEFINE all == Cols * Rows * Pages
  <1>5. all \in Nat \ {0}
    BY <1>4
  <1>6. Cell = 0 .. all - 1
    BY DEF Cell
  <1> HIDE DEF all
  <1> QED BY <1>5, <1>6

LEMMA GoldOK ==
    ASSUME NEW g \in 0..GoldMax, NEW n \in Nat
    PROVE  Earned(g, n) \in 0..GoldMax /\ Paid(g, n) \in 0..GoldMax
  BY ExchangeAssumption DEF Earned, Paid, ExchangeAssumption

(* What c's Done finds for its items in the inventories of w.              *)
Found(w, c) == PutAll(c, Taken(w.owner, w.cell, company[c]))

Moved(w, c) == {i \in OfferedItems(c) : Found(w, c)[i] # None}

NewOwner(w, c) == [i \in Item |-> IF i \in Moved(w, c) THEN company[c] ELSE w.owner[i]]

NewCell(w, c) == [i \in Item |-> IF i \in Moved(w, c) THEN Found(w, c)[i] ELSE w.cell[i]]

LEMMA DoneIs ==
    ASSUME NEW w, NEW c
    PROVE  /\ Done(w, c).owner = NewOwner(w, c)
           /\ Done(w, c).cell = NewCell(w, c)
           /\ Done(w, c).exchanging = w.exchanging \ Moved(w, c)
           /\ Done(w, c).gold = [w.gold EXCEPT ![c] = Paid(@, lGold[c]),
                                               ![company[c]] = Earned(@, lGold[c])]
  BY DEF Done, Moved, Found, NewOwner, NewCell

LEMMA FoundOK ==
    ASSUME NEW w, NEW c, SlotsOf(c)
    PROVE  SearchOK(c, Taken(w.owner, w.cell, company[c]), Slots,
                    Search(c, Taken(w.owner, w.cell, company[c]))[Slots])
  <1>1. Slots \in 0..Slots
    BY ExchangeAssumption DEF ExchangeAssumption
  <1> DEFINE T == Taken(w.owner, w.cell, company[c])
  <1> HIDE DEF T
  <1>2. SearchOK(c, T, Slots, Search(c, T)[Slots])
    BY <1>1, SearchRuns
  <1> QED BY <1>2 DEF T

LEMMA FoundFits ==
    ASSUME NEW w, NEW c, SlotsOf(c)
    PROVE  /\ Found(w, c) \in [Item -> Cell \cup {None}]
           /\ \A i \in Item : Found(w, c)[i] # None =>
                Fits(Taken(w.owner, w.cell, company[c]), Found(w, c)[i], Size[i])
           /\ \A i, j \in Item : i # j /\ Found(w, c)[i] # None /\ Found(w, c)[j] # None =>
                Area(Found(w, c)[i], Size[i]) \cap Area(Found(w, c)[j], Size[j]) = {}
  <1> DEFINE T == Taken(w.owner, w.cell, company[c])
             s == Search(c, T)[Slots]
  <1>1. SearchOK(c, T, Slots, s)
    BY FoundOK
  <1>2. Found(w, c) = s.put
    BY DEF Found, PutAll
  <1> HIDE DEF s, T
  <1>3. /\ s.put \in [Item -> Cell \cup {None}]
        /\ \A i \in Item : s.put[i] # None => Fits(T, s.put[i], Size[i])
        /\ \A i, j \in Item : i # j /\ s.put[i] # None /\ s.put[j] # None =>
              Area(s.put[i], Size[i]) \cap Area(s.put[j], Size[j]) = {}
    BY <1>1 DEF SearchOK
  <1> QED BY <1>2, <1>3 DEF T

LEMMA DoneTypes ==
    ASSUME IInv, NEW c \in Char, company[c] \in Char, lGold \in [Char -> 0..GoldMax], NEW w,
           w.cell \in [Item -> Cell], w.gold \in [Char -> 0..GoldMax]
    PROVE  /\ Done(w, c).cell \in [Item -> Cell]
           /\ Done(w, c).gold \in [Char -> 0..GoldMax]
           /\ Done(w, c).exchanging \subseteq w.exchanging
  <1>1. SlotsOf(c)
    BY SlotsOfAll
  <1>2. Found(w, c) \in [Item -> Cell \cup {None}]
    BY <1>1, FoundFits
  <1> DEFINE d == Done(w, c)
             found == Found(w, c)
             moved == Moved(w, c)
  <1>6. /\ d.cell = [i \in Item |-> IF i \in moved THEN found[i] ELSE w.cell[i]]
        /\ d.exchanging = w.exchanging \ moved
        /\ d.gold = [w.gold EXCEPT ![c] = Paid(@, lGold[c]),
                                   ![company[c]] = Earned(@, lGold[c])]
    BY DoneIs DEF NewCell
  <1>7. found \in [Item -> Cell \cup {None}] /\ \A i \in moved : found[i] # None
    BY <1>2 DEF Moved
  <1> HIDE DEF d, found, moved
  <1>3. d.cell \in [Item -> Cell]
    BY <1>6, <1>7
  <1>4. lGold[c] \in Nat
    BY ExchangeAssumption DEF ExchangeAssumption
  <1>5. d.gold \in [Char -> 0..GoldMax]
    <2> DEFINE g1 == [w.gold EXCEPT ![c] = Paid(w.gold[c], lGold[c])]
    <2>1. d.gold = [g1 EXCEPT ![company[c]] = Earned(g1[company[c]], lGold[c])]
      BY <1>6
    <2>2. g1 \in [Char -> 0..GoldMax]
      <3>1. Paid(w.gold[c], lGold[c]) \in 0..GoldMax
        BY <1>4, GoldOK
      <3> QED BY <3>1
    <2> HIDE DEF g1
    <2>3. g1[company[c]] \in 0..GoldMax
      BY <2>2
    <2>4. Earned(g1[company[c]], lGold[c]) \in 0..GoldMax
      BY <1>4, <2>3, GoldOK
    <2> QED BY <2>1, <2>2, <2>4
  <1> QED BY <1>3, <1>5, <1>6 DEF d

LEMMA EndTypes ==
    ASSUME IInv, TypeOK, NEW c \in Char, NEW w, End(c, w),
           w.owner \in [Item -> Char \cup {Ground, Gone}],
           w.cell \in [Item -> Cell], w.gold \in [Char -> 0..GoldMax], w.exchanging \subseteq Item
    PROVE  TypeOK'
  <1> DEFINE both == {c, company[c]}
  <1>1. /\ owner' = w.owner /\ cell' = w.cell /\ gold' = w.gold
        /\ exchanging' = w.exchanging \ w.offered
        /\ company' = [x \in Char |-> IF x \in both THEN None ELSE company[x]]
        /\ slots' = [x \in Char |-> IF x \in both THEN [n \in Slot |-> Empty] ELSE slots[x]]
        /\ lGold' = [x \in Char |-> IF x \in both THEN 0 ELSE lGold[x]]
        /\ accepted' = accepted \ both
        /\ ended' = ended + 1
        /\ UNCHANGED <<floor, safebox, meanwhile>>
    BY DEF End
  <1>2. Empty \in [item : Item \cup {None}, cell : Cell]
    BY ZeroCell DEF Empty
  <1> HIDE DEF both
  <1>3. /\ company' \in [Char -> Char \cup {None}] /\ lGold' \in [Char -> 0..GoldMax]
        /\ slots' \in [Char -> [Slot -> [item : Item \cup {None}, cell : Cell]]]
    <2>1. 0 \in 0..GoldMax
      BY ExchangeAssumption DEF ExchangeAssumption
    <2> QED BY <1>1, <1>2, <2>1 DEF TypeOK
  <1> QED BY <1>1, <1>3 DEF TypeOK

LEMMA TradeTypes ==
    ASSUME IInv, TypeOK, NEW c \in Char, company[c] # None,
           End(c, Done(Done(Now(c), c), company[c]))
    PROVE  TypeOK'
  <1> DEFINE p == company[c]
             w1 == Done(Now(c), c)
             w2 == Done(w1, p)
  <1>1. p \in Char /\ company[p] = c /\ p # c
    BY DEF IInv, Paired, Types
  <1>2. Now(c).owner = owner /\ Now(c).cell = cell /\ Now(c).exchanging = exchanging /\ Now(c).gold = gold
    BY DEF Now
  <1>3. /\ owner \in [Item -> Char \cup {Ground, Gone}] /\ cell \in [Item -> Cell]
        /\ gold \in [Char -> 0..GoldMax] /\ exchanging \subseteq Item /\ lGold \in [Char -> 0..GoldMax]
    BY DEF TypeOK
  <1>4. /\ w1.owner \in [Item -> Char \cup {Ground, Gone}] /\ w1.cell \in [Item -> Cell]
        /\ w1.gold \in [Char -> 0..GoldMax] /\ w1.exchanging \subseteq Item
    <2>1. w1.owner = NewOwner(Now(c), c)
      BY DoneIs
    <2>2. w1.owner \in [Item -> Char \cup {Ground, Gone}]
      BY <1>1, <1>2, <1>3, <2>1 DEF NewOwner
    <2>3. Now(c).cell \in [Item -> Cell] /\ Now(c).gold \in [Char -> 0..GoldMax]
      BY <1>2, <1>3
    <2>4. /\ w1.cell \in [Item -> Cell] /\ w1.gold \in [Char -> 0..GoldMax]
          /\ w1.exchanging \subseteq Now(c).exchanging
      BY <1>1, <1>3, <2>3, DoneTypes
    <2> QED BY <1>2, <1>3, <2>2, <2>4
  <1> HIDE DEF w1
  <1>5. /\ w2.owner \in [Item -> Char \cup {Ground, Gone}] /\ w2.cell \in [Item -> Cell]
        /\ w2.gold \in [Char -> 0..GoldMax] /\ w2.exchanging \subseteq Item
    <2>1. w2.owner = NewOwner(w1, p)
      BY DoneIs
    <2>2. w2.owner \in [Item -> Char \cup {Ground, Gone}]
      BY <1>1, <1>4, <2>1 DEF NewOwner
    <2>3. company[p] \in Char
      BY <1>1
    <2>4. /\ w2.cell \in [Item -> Cell] /\ w2.gold \in [Char -> 0..GoldMax]
          /\ w2.exchanging \subseteq w1.exchanging
      <3> HIDE DEF p
      <3> QED BY <1>1, <1>3, <1>4, <2>3, DoneTypes
    <2> QED BY <1>4, <2>2, <2>4
  <1>6. End(c, w2)
    BY DEF w1
  <1> HIDE DEF w2
  <1> QED BY <1>5, <1>6, EndTypes

LEMMA OfferTypes ==
    ASSUME IInv, TypeOK, NEW c \in Char,
           \/ \E i \in Item : AddItem(c, i)
           \/ \E n \in Slot : RemoveItem(c, n)
           \/ \E n \in 1..GoldMax : AddGold(c, n)
    PROVE  TypeOK'
  <1>1. accepted' \subseteq Char
    BY DEF AddItem, RemoveItem, AddGold, WithoutAccept, TypeOK
  <1>2. Empty \in [item : Item \cup {None}, cell : Cell]
    BY ZeroCell DEF Empty
  <1>3. ASSUME NEW i \in Item, AddItem(c, i) PROVE TypeOK'
    <2>1. PICK n \in Slot : slots' = [slots EXCEPT ![c][n] = [item |-> i, cell |-> cell[i]]]
      BY <1>3 DEF AddItem
    <2>2. [item |-> i, cell |-> cell[i]] \in [item : Item \cup {None}, cell : Cell]
      BY DEF TypeOK
    <2>3. slots' \in [Char -> [Slot -> [item : Item \cup {None}, cell : Cell]]]
      BY <2>1, <2>2 DEF TypeOK
    <2> QED BY <1>1, <1>3, <2>3 DEF AddItem, TypeOK
  <1>4. ASSUME NEW n \in Slot, RemoveItem(c, n) PROVE TypeOK'
    <2>1. slots' \in [Char -> [Slot -> [item : Item \cup {None}, cell : Cell]]]
      BY <1>2, <1>4 DEF RemoveItem, TypeOK
    <2> QED BY <1>1, <1>4, <2>1 DEF RemoveItem, TypeOK
  <1>5. ASSUME NEW n \in 1..GoldMax, AddGold(c, n) PROVE TypeOK'
    <2>1. lGold' \in [Char -> 0..GoldMax]
      BY <1>5 DEF AddGold, TypeOK
    <2> QED BY <1>1, <1>5, <2>1 DEF AddGold, TypeOK
  <1> QED BY <1>3, <1>4, <1>5

LEMMA BesideTypes ==
    ASSUME TypeOK, NEW c \in Char,
           \/ \E i \in Item : DropItem(c, i) \/ PickupItem(c, i)
           \/ \E i \in Item, n \in Cell : MoveItem(c, i, n)
           \/ \E n \in 1..GoldMax : DropGold(c, n)
           \/ \E k \in DOMAIN floor : PickupGold(c, k)
           \/ ReqSafeboxLoad(c) \/ SafeboxLoad(c) \/ CloseSafebox(c)
    PROVE  TypeOK'
  <1>1. MaxMeanwhile \in Nat /\ 0 \in Cell
    BY ExchangeAssumption, ZeroCell DEF ExchangeAssumption
  <1>2. ASSUME Meanwhile, UNCHANGED <<gold, floor>>, owner' \in [Item -> Char \cup {Ground, Gone}],
               cell' \in [Item -> Cell], exchanging' \subseteq Item
        PROVE  TypeOK'
    BY <1>1, <1>2 DEF Meanwhile, exchange, TypeOK
  <1>3. ASSUME NEW i \in Item, DropItem(c, i) PROVE TypeOK'
    BY <1>1, <1>2, <1>3 DEF DropItem, TypeOK
  <1>4. ASSUME NEW i \in Item, PickupItem(c, i) PROVE TypeOK'
    <2> DEFINE room == Room(Taken(owner, cell, c), Size[i])
    <2>1. room \in SUBSET Cell /\ room # {} /\ cell' = [cell EXCEPT ![i] = Min(room)]
      BY <1>4 DEF PickupItem, Room
    <2> HIDE DEF room
    <2>2. Min(room) \in Cell
      BY <2>1, MinOK
    <2> QED BY <1>2, <1>4, <2>1, <2>2 DEF PickupItem, TypeOK
  <1>5. ASSUME NEW i \in Item, NEW n \in Cell, MoveItem(c, i, n) PROVE TypeOK'
    BY <1>2, <1>5 DEF MoveItem, TypeOK
  <1>7. ASSUME Meanwhile, UNCHANGED <<owner, cell, exchanging>>, gold' \in [Char -> 0..GoldMax],
               floor' \in Seq(1..GoldMax)
        PROVE  TypeOK'
    BY <1>1, <1>7 DEF Meanwhile, exchange, TypeOK
  <1>8. ASSUME NEW n \in 1..GoldMax, DropGold(c, n) PROVE TypeOK'
    <2>1. Paid(gold[c], n) \in 0..GoldMax
      BY GoldOK DEF TypeOK
    <2>2. gold' \in [Char -> 0..GoldMax] /\ floor' \in Seq(1..GoldMax)
      BY <1>8, <2>1 DEF DropGold, TypeOK
    <2> QED BY <1>7, <1>8, <2>2 DEF DropGold
  <1>9. ASSUME NEW k \in DOMAIN floor, PickupGold(c, k) PROVE TypeOK'
    <2>5. floor \in Seq(1..GoldMax) /\ k \in DOMAIN floor
      BY <1>9 DEF TypeOK
    <2>1. /\ floor[k] \in 1..GoldMax /\ Len(floor) \in Nat /\ k \in 1..Len(floor)
          /\ \A n \in 1..Len(floor) : floor[n] \in 1..GoldMax
      <3>1. Len(floor) \in Nat /\ DOMAIN floor = 1..Len(floor)
        BY <2>5
      <3>2. \A n \in 1..Len(floor) : floor[n] \in 1..GoldMax
        BY <2>5, ElementOfSeq
      <3> QED BY <2>5, <3>1, <3>2
    <2>2. Earned(gold[c], floor[k]) \in 0..GoldMax
      <3>1. floor[k] \in Nat
        BY <2>1, ExchangeAssumption DEF ExchangeAssumption
      <3> QED BY <3>1, GoldOK DEF TypeOK
    <2>3. floor' \in Seq(1..GoldMax)
      <3>1. floor' = SubSeq(floor, 1, k - 1) \o SubSeq(floor, k + 1, Len(floor))
        BY <1>9 DEF PickupGold, RemoveAt
      <3>2. SubSeq(floor, 1, k - 1) \in Seq(1..GoldMax)
        BY <2>1, SubSeqProperties
      <3>3. SubSeq(floor, k + 1, Len(floor)) \in Seq(1..GoldMax)
        BY <2>1, SubSeqProperties
      <3> QED BY <3>1, <3>2, <3>3
    <2>4. gold' \in [Char -> 0..GoldMax]
      BY <1>9, <2>2 DEF PickupGold, TypeOK
    <2> QED BY <1>7, <1>9, <2>3, <2>4 DEF PickupGold
  <1>10. ASSUME ReqSafeboxLoad(c) \/ SafeboxLoad(c) \/ CloseSafebox(c) PROVE TypeOK'
    <2>1. /\ UNCHANGED <<owner, cell, exchanging, exchange, gold, floor, ended>>
          /\ \E to \in {"closed", "asked", "open"} : safebox' = [safebox EXCEPT ![c] = to]
          /\ meanwhile' = meanwhile \/ (meanwhile < MaxMeanwhile /\ meanwhile' = meanwhile + 1)
      BY <1>10 DEF ReqSafeboxLoad, SafeboxLoad, CloseSafebox, SetSafebox
    <2>2. safebox' \in [Char -> {"closed", "asked", "open"}]
      BY <2>1 DEF TypeOK
    <2>3. meanwhile' \in 0..MaxMeanwhile
      BY <1>1, <2>1 DEF TypeOK
    <2> QED BY <2>1, <2>2, <2>3 DEF exchange, TypeOK
  <1> QED BY <1>3, <1>4, <1>5, <1>8, <1>9, <1>10

LEMMA ExpireTypes == ASSUME TypeOK, NEW i \in Item, Expire(i) PROVE TypeOK'
  <1>1. 0 \in Cell
    BY ZeroCell
  <1>2. /\ owner' \in [Item -> Char \cup {Ground, Gone}] /\ cell' \in [Item -> Cell]
        /\ exchanging' \subseteq Item
    BY <1>1 DEF Expire, TypeOK
  <1> QED BY <1>2, ExchangeAssumption DEF Expire, Meanwhile, exchange, TypeOK, ExchangeAssumption

LEMMA TypeNext == ASSUME IInv, TypeOK, [Next]_vars PROVE TypeOK'
  <1>1. CASE UNCHANGED vars
    BY <1>1 DEF vars, exchange, TypeOK
  <1>2. ASSUME NEW c \in Char, NEW victim \in Char, Start(c, victim) PROVE TypeOK'
    BY <1>2 DEF Start, TypeOK
  <1>3. ASSUME NEW c \in Char, AcceptFirst(c) PROVE TypeOK'
    BY <1>3 DEF AcceptFirst, TypeOK
  <1>4. ASSUME NEW c \in Char, End(c, Now(c)) PROVE TypeOK'
    <2>1. Now(c).owner = owner /\ Now(c).cell = cell /\ Now(c).exchanging = exchanging /\ Now(c).gold = gold
      BY DEF Now
    <2>2. /\ owner \in [Item -> Char \cup {Ground, Gone}] /\ cell \in [Item -> Cell]
          /\ gold \in [Char -> 0..GoldMax] /\ exchanging \subseteq Item
      BY DEF TypeOK
    <2> QED BY <1>4, <2>1, <2>2, EndTypes
  <1>5. ASSUME NEW c \in Char, AcceptSecond(c) \/ Cancel(c) PROVE TypeOK'
    <2>1. company[c] # None
      BY <1>5 DEF AcceptSecond, Cancel
    <2>2. End(c, Now(c)) \/ End(c, Done(Done(Now(c), c), company[c]))
      BY <1>5 DEF AcceptSecond, Cancel
    <2>3. CASE End(c, Now(c))
      BY <1>4, <2>3
    <2>4. CASE End(c, Done(Done(Now(c), c), company[c]))
      BY <2>1, <2>4, TradeTypes
    <2> QED BY <2>2, <2>3, <2>4
  <1>6. ASSUME NEW c \in Char,
               \/ \E i \in Item : AddItem(c, i)
               \/ \E n \in Slot : RemoveItem(c, n)
               \/ \E n \in 1..GoldMax : AddGold(c, n)
        PROVE  TypeOK'
    BY <1>6, OfferTypes
  <1>7. ASSUME NEW c \in Char,
               \/ \E i \in Item : DropItem(c, i) \/ PickupItem(c, i)
               \/ \E i \in Item, n \in Cell : MoveItem(c, i, n)
               \/ \E n \in 1..GoldMax : DropGold(c, n)
               \/ \E k \in DOMAIN floor : PickupGold(c, k)
               \/ ReqSafeboxLoad(c) \/ SafeboxLoad(c) \/ CloseSafebox(c)
        PROVE  TypeOK'
    BY <1>7, BesideTypes
  <1>8. ASSUME NEW i \in Item, Expire(i) PROVE TypeOK'
    BY <1>8, ExpireTypes
  <1>9. CASE Next
    BY <1>2, <1>3, <1>5, <1>6, <1>7, <1>8, <1>9 DEF Next
  <1> QED BY <1>1, <1>9
LEMMA TypeInit == ASSUME Init PROVE TypeOK
  <1>1. 0 \in Cell /\ 0 \in 0..GoldMax
    BY ZeroCell, ExchangeAssumption DEF ExchangeAssumption
  <1>2. Empty \in [item : Item \cup {None}, cell : Cell]
    BY <1>1 DEF Empty
  <1> QED BY <1>1, <1>2, ExchangeAssumption DEF Init, TypeOK, ExchangeAssumption

(* Every reachable state is type correct: gold stays between 0 and         *)
(* GOLD_MAX (PointChange), and every item has a cell of the inventory.     *)
THEOREM TypeCorrect == Spec => []TypeOK
  <1> QED BY TypeInit, TypeNext, Invariance, PTL DEF Spec

LEMMA TakenAreas ==
    ASSUME NEW own, NEW at, NEW c, NEW i \in Item, own[i] = c
    PROVE  Area(at[i], Size[i]) \subseteq Taken(own, at, c)
  BY DEF Taken, Carried

(* Apart without its sets.                                                 *)
LaidOutMeans(own, at) ==
    \A i \in Item : own[i] \in Char =>
        /\ Fits({}, at[i], Size[i])
        /\ \A j \in Item : j # i /\ own[j] = own[i] =>
                Area(at[i], Size[i]) \cap Area(at[j], Size[j]) = {}

LEMMA LaidOutIff == ASSUME NEW own, NEW at PROVE LaidOut(own, at) <=> LaidOutMeans(own, at)
  BY DEF LaidOut, LaidOutMeans, Carried

LEMMA FitsAnywhere == ASSUME NEW T, NEW n, NEW s, Fits(T, n, s) PROVE Fits({}, n, s) /\ Area(n, s) \cap T = {}
  BY DEF Fits

(* Items that go to victim, to places that are free and apart.             *)
Handing(own, at, victim, moved, put, own2, at2) ==
    /\ \A i \in moved : Fits(Taken(own, at, victim), put[i], Size[i])
    /\ \A i, j \in moved : i # j => Area(put[i], Size[i]) \cap Area(put[j], Size[j]) = {}
    /\ \A i \in Item : own2[i] = IF i \in moved THEN victim ELSE own[i]
    /\ \A i \in Item : at2[i] = IF i \in moved THEN put[i] ELSE at[i]

LEMMA HandingLaidOut ==
    ASSUME NEW own, NEW at, NEW victim, NEW moved, NEW put, NEW own2, NEW at2,
           LaidOutMeans(own, at), Handing(own, at, victim, moved, put, own2, at2)
    PROVE  LaidOutMeans(own2, at2)
  <1> USE DEF Handing
  <1>1. ASSUME NEW i \in Item, NEW j \in Item, i # j, own2[i] \in Char, own2[i] = own2[j]
        PROVE  Area(at2[i], Size[i]) \cap Area(at2[j], Size[j]) = {}
    <2>1. ASSUME NEW k \in Item \cap moved, NEW l \in Item \ moved, own[l] = victim
          PROVE  Area(put[k], Size[k]) \cap Area(at[l], Size[l]) = {}
      <3>1. Area(at[l], Size[l]) \subseteq Taken(own, at, victim)
        BY <2>1, TakenAreas
      <3>2. Area(put[k], Size[k]) \cap Taken(own, at, victim) = {}
        BY FitsAnywhere
      <3> QED BY <3>1, <3>2
    <2>2. CASE i \in moved /\ j \in moved
      BY <1>1, <2>2
    <2>3. CASE i \in moved /\ j \notin moved
      <3>1. at2[i] = put[i] /\ at2[j] = at[j] /\ own[j] = victim
        BY <1>1, <2>3
      <3> QED BY <2>1, <2>3, <3>1
    <2>4. CASE i \notin moved /\ j \in moved
      <3>1. at2[j] = put[j] /\ at2[i] = at[i] /\ own[i] = victim
        BY <1>1, <2>4
      <3>2. Area(put[j], Size[j]) \cap Area(at[i], Size[i]) = {}
        BY <2>1, <2>4, <3>1
      <3> QED BY <3>1, <3>2
    <2>5. CASE i \notin moved /\ j \notin moved
      <3>1. at2[j] = at[j] /\ at2[i] = at[i] /\ own[i] = own[j] /\ own[i] \in Char
        BY <1>1, <2>5
      <3> QED BY <1>1, <3>1 DEF LaidOutMeans
    <2> QED BY <2>2, <2>3, <2>4, <2>5
  <1>2. ASSUME NEW i \in Item, own2[i] \in Char
        PROVE  Fits({}, at2[i], Size[i])
    <2>1. CASE i \in moved
      <3>1. at2[i] = put[i]
        BY <2>1
      <3> QED BY <2>1, <3>1, FitsAnywhere
    <2>2. CASE i \notin moved
      BY <1>2, <2>2 DEF LaidOutMeans
    <2> QED BY <2>1, <2>2
  <1> QED BY <1>1, <1>2 DEF LaidOutMeans

LEMMA DoneLaidOut ==
    ASSUME NEW w, NEW c, SlotsOf(c), OfferedItems(c) \subseteq Item, LaidOutMeans(w.owner, w.cell)
    PROVE  LaidOutMeans(Done(w, c).owner, Done(w, c).cell)
  <1> DEFINE own == w.owner
             at == w.cell
             victim == company[c]
             moved == Moved(w, c)
             put == Found(w, c)
             own2 == Done(w, c).owner
             at2 == Done(w, c).cell
  <1>1. own2 = NewOwner(w, c) /\ at2 = NewCell(w, c)
    BY DoneIs
  <1>2. /\ \A i \in Item : own2[i] = IF i \in moved THEN victim ELSE own[i]
        /\ \A i \in Item : at2[i] = IF i \in moved THEN put[i] ELSE at[i]
    BY <1>1 DEF NewOwner, NewCell
  <1>3. moved \subseteq Item /\ \A i \in moved : put[i] # None
    BY DEF Moved
  <1>4. /\ \A i \in Item : put[i] # None => Fits(Taken(own, at, victim), put[i], Size[i])
        /\ \A i, j \in Item : i # j /\ put[i] # None /\ put[j] # None =>
              Area(put[i], Size[i]) \cap Area(put[j], Size[j]) = {}
    BY FoundFits
  <1>5. /\ \A i \in moved : Fits(Taken(own, at, victim), put[i], Size[i])
        /\ \A i, j \in moved : i # j => Area(put[i], Size[i]) \cap Area(put[j], Size[j]) = {}
    BY <1>3, <1>4
  <1>6. LaidOutMeans(own, at)
    OBVIOUS
  <1> HIDE DEF own, at, victim, moved, put, own2, at2
  <1>7. Handing(own, at, victim, moved, put, own2, at2)
    BY <1>2, <1>5 DEF Handing
  <1>8. LaidOutMeans(own2, at2)
    BY <1>6, <1>7, HandingLaidOut
  <1> QED BY <1>8 DEF own2, at2

LEMMA EndApart == ASSUME Apart, IInv, NEW c \in Char, AcceptSecond(c) \/ Cancel(c) PROVE Apart'
  <1> DEFINE p == company[c]
             w1 == Done(Now(c), c)
             w2 == Done(w1, p)
  <1>1. company[c] # None
    BY DEF AcceptSecond, Cancel
  <1>2. End(c, Now(c)) \/ End(c, w2)
    BY DEF AcceptSecond, Cancel
  <1>3. Now(c).owner = owner /\ Now(c).cell = cell
    BY DEF Now
  <1>4. LaidOutMeans(owner, cell)
    BY LaidOutIff DEF Apart
  <1>5. p \in Char
    BY <1>1 DEF IInv, Types
  <1>6. LaidOutMeans(w1.owner, w1.cell)
    BY <1>3, <1>4, SlotsOfAll, DoneLaidOut
  <1> HIDE DEF w1
  <1>7. LaidOutMeans(w2.owner, w2.cell)
    <2> HIDE DEF p
    <2> QED BY <1>5, <1>6, SlotsOfAll, DoneLaidOut
  <1> HIDE DEF w2
  <1>8. \/ owner' = owner /\ cell' = cell
        \/ owner' = w2.owner /\ cell' = w2.cell
    BY <1>2, <1>3 DEF End
  <1>9. LaidOutMeans(owner', cell')
    BY <1>4, <1>7, <1>8
  <1> QED BY <1>9, LaidOutIff DEF Apart

LEMMA BesideApart ==
    ASSUME Apart, TypeOK, NEW c \in Char,
           \/ \E i \in Item : DropItem(c, i) \/ PickupItem(c, i)
           \/ \E i \in Item, n \in Cell : MoveItem(c, i, n)
    PROVE  Apart'
  <1>1. LaidOutMeans(owner, cell)
    BY LaidOutIff DEF Apart
  <1>2. owner \in [Item -> Char \cup {Ground, Gone}] /\ cell \in [Item -> Cell]
    BY DEF TypeOK
  <1>3. SUFFICES LaidOutMeans(owner', cell')
    BY LaidOutIff DEF Apart
  <1>4. ASSUME NEW i \in Item, DropItem(c, i) PROVE LaidOutMeans(owner', cell')
    <2>1. owner' = [owner EXCEPT ![i] = Ground] /\ cell' = [cell EXCEPT ![i] = 0]
      BY <1>4 DEF DropItem
    <2>2. Ground \notin Char
      BY ExchangeAssumption DEF ExchangeAssumption
    <2>3. \A j \in Item : owner'[j] \in Char => j # i /\ owner'[j] = owner[j] /\ cell'[j] = cell[j]
      BY <1>2, <2>1, <2>2
    <2> QED BY <1>1, <2>3 DEF LaidOutMeans
  <1>5. ASSUME NEW i \in Item, NEW n, Fits(Taken(owner, cell, c) \ Area(cell[i], Size[i]), n, Size[i]),
               owner[i] = c \/ (owner[i] \notin Char /\ Fits(Taken(owner, cell, c), n, Size[i])),
               owner' = [owner EXCEPT ![i] = c], cell' = [cell EXCEPT ![i] = n]
        PROVE  LaidOutMeans(owner', cell')
    <2>1. /\ \A j \in Item : owner'[j] = IF j = i THEN c ELSE owner[j]
          /\ \A j \in Item : cell'[j] = IF j = i THEN n ELSE cell[j]
      BY <1>2, <1>5
    <2>2. ASSUME NEW j \in Item, j # i, owner[j] = c
          PROVE  Area(n, Size[i]) \cap Area(cell[j], Size[j]) = {}
      <3>1. Area(cell[j], Size[j]) \subseteq Taken(owner, cell, c)
        BY <2>2, TakenAreas
      <3>2. CASE owner[i] = c
        <4>1. Area(cell[j], Size[j]) \cap Area(cell[i], Size[i]) = {}
          BY <1>1, <2>2, <3>2 DEF LaidOutMeans
        <4>2. Area(n, Size[i]) \cap (Taken(owner, cell, c) \ Area(cell[i], Size[i])) = {}
          BY <1>5, FitsAnywhere
        <4> QED BY <3>1, <4>1, <4>2
      <3>3. CASE owner[i] # c
        <4>1. Area(n, Size[i]) \cap Taken(owner, cell, c) = {}
          BY <1>5, <3>3, FitsAnywhere
        <4> QED BY <3>1, <4>1
      <3> QED BY <3>2, <3>3
    <2>3. Fits({}, n, Size[i])
      BY <1>5, FitsAnywhere
    <2>4. ASSUME NEW j \in Item, owner'[j] \in Char
          PROVE  Fits({}, cell'[j], Size[j])
      BY <1>1, <2>1, <2>3, <2>4 DEF LaidOutMeans
    <2>5. ASSUME NEW j \in Item, NEW k \in Item, j # k, owner'[j] \in Char, owner'[j] = owner'[k]
          PROVE  Area(cell'[j], Size[j]) \cap Area(cell'[k], Size[k]) = {}
      <3>1. CASE j # i /\ k # i
        BY <1>1, <2>1, <2>5, <3>1 DEF LaidOutMeans
      <3>2. CASE j = i
        BY <2>1, <2>2, <2>5, <3>2
      <3>3. CASE k = i
        <4>1. Area(n, Size[i]) \cap Area(cell[j], Size[j]) = {} /\ cell'[j] = cell[j] /\ cell'[k] = n
          BY <2>1, <2>2, <2>5, <3>3
        <4> QED BY <3>3, <4>1
      <3> QED BY <3>1, <3>2, <3>3
    <2> QED BY <2>4, <2>5 DEF LaidOutMeans
  <1>6. ASSUME NEW i \in Item, PickupItem(c, i) PROVE LaidOutMeans(owner', cell')
    <2> DEFINE room == Room(Taken(owner, cell, c), Size[i])
    <2>1. /\ room \in SUBSET Cell /\ room # {} /\ owner[i] = Ground
          /\ owner' = [owner EXCEPT ![i] = c] /\ cell' = [cell EXCEPT ![i] = Min(room)]
      BY <1>6 DEF PickupItem, Room
    <2>2. \A n \in room : Fits(Taken(owner, cell, c), n, Size[i])
      BY DEF Room
    <2> HIDE DEF room
    <2>3. Fits(Taken(owner, cell, c), Min(room), Size[i])
      BY <2>1, <2>2, MinOK
    <2>4. Fits(Taken(owner, cell, c) \ Area(cell[i], Size[i]), Min(room), Size[i])
      BY <2>3 DEF Fits
    <2>5. owner[i] \notin Char
      BY <2>1, ExchangeAssumption DEF ExchangeAssumption
    <2> QED BY <1>5, <2>1, <2>3, <2>4, <2>5
  <1>7. ASSUME NEW i \in Item, NEW n \in Cell, MoveItem(c, i, n) PROVE LaidOutMeans(owner', cell')
    <2>1. /\ owner[i] = c /\ Fits(Taken(owner, cell, c) \ Area(cell[i], Size[i]), n, Size[i])
          /\ owner' = owner /\ cell' = [cell EXCEPT ![i] = n]
      BY <1>7 DEF MoveItem
    <2>2. owner' = [owner EXCEPT ![i] = c]
      BY <1>2, <2>1
    <2> QED BY <1>5, <2>1, <2>2
  <1> QED BY <1>4, <1>6, <1>7

LEMMA ApartNext == ASSUME Apart, TypeOK, IInv, [Next]_vars PROVE Apart'
  <1>1. ASSUME UNCHANGED <<owner, cell>> PROVE Apart'
    BY <1>1 DEF Apart
  <1>2. CASE UNCHANGED vars
    BY <1>1, <1>2 DEF vars
  <1>3. ASSUME NEW i \in Item, Expire(i) PROVE Apart'
    <2>1. owner' = [owner EXCEPT ![i] = Gone] /\ cell' = [cell EXCEPT ![i] = 0]
      BY <1>3 DEF Expire
    <2>2. Gone \notin Char
      BY ExchangeAssumption DEF ExchangeAssumption
    <2>3. \A j \in Item : owner'[j] \in Char => j # i /\ owner'[j] = owner[j] /\ cell'[j] = cell[j]
      BY <2>1, <2>2 DEF TypeOK
    <2>4. LaidOutMeans(owner, cell)
      BY LaidOutIff DEF Apart
    <2>5. LaidOutMeans(owner', cell')
      BY <2>3, <2>4 DEF LaidOutMeans
    <2> QED BY <2>5, LaidOutIff DEF Apart
  <1>4. ASSUME NEW c \in Char,
               \/ \E victim \in Char : Start(c, victim)
               \/ \E i \in Item : AddItem(c, i)
               \/ \E n \in Slot : RemoveItem(c, n)
               \/ \E n \in 1..GoldMax : AddGold(c, n) \/ DropGold(c, n)
               \/ \E k \in DOMAIN floor : PickupGold(c, k)
               \/ AcceptFirst(c) \/ ReqSafeboxLoad(c) \/ SafeboxLoad(c) \/ CloseSafebox(c)
        PROVE  UNCHANGED <<owner, cell>>
    BY <1>4 DEF Start, AddItem, RemoveItem, AddGold, DropGold, PickupGold, AcceptFirst,
        ReqSafeboxLoad, SafeboxLoad, CloseSafebox, SetSafebox
  <1>5. ASSUME NEW c \in Char,
               \/ \E i \in Item : DropItem(c, i) \/ PickupItem(c, i)
               \/ \E i \in Item, n \in Cell : MoveItem(c, i, n)
        PROVE  Apart'
    BY <1>5, BesideApart
  <1>6. ASSUME NEW c \in Char, AcceptSecond(c) \/ Cancel(c) PROVE Apart'
    BY <1>6, EndApart
  <1>7. CASE Next
    BY <1>1, <1>3, <1>4, <1>5, <1>6, <1>7 DEF Next
  <1> QED BY <1>2, <1>7

(* No two items of a character ever take the same cell, and none goes over *)
(* the end of its page, wherever CheckSpace and Done have found places.    *)
THEOREM StaysApart == Spec => []Apart
  <1>1. Init => Apart
    BY FirstAssumption DEF Init, Apart
  <1> QED BY <1>1, ApartNext, TypeCorrect, Invariance, PTL DEF Spec
-----------------------------------------------------------------------------
(* Smaller needs do not fail: the search for items of one size             *)

(* What is taken when the search of c comes to slot n.                     *)
Before(c, T, n) == Search(c, T)[n - 1].taken

(* The search leaves what it has found.                                    *)
LEMMA SearchStays ==
    ASSUME NEW c, SlotsOf(c), NEW T, NEW n \in Slot, NEW i, SlotItem(c, n) = i, i \in Item
    PROVE  \A m \in n..Slots : Search(c, T)[m].put[i] = Search(c, T)[n].put[i]
  <1> DEFINE t == Search(c, T)
             S == {k \in Nat : n + k <= Slots => t[n + k].put[i] = t[n].put[i]}
  <1>1. \A m \in Slot : t[m] = IF SlotItem(c, m) = None THEN t[m - 1]
                               ELSE PutNext(t[m - 1], SlotItem(c, m))
    BY SearchSteps DEF SlotItem
  <1>2. \A m \in 0..Slots : SearchOK(c, T, m, t[m])
    BY SearchRuns
  <1>3. Slots \in Nat /\ n \in Nat /\ i # None
    BY ExchangeAssumption DEF ExchangeAssumption, Slot
  <1> HIDE DEF t
  <1>4. 0 \in S
    BY <1>3
  <1>5. ASSUME NEW k \in Nat, k \in S
        PROVE  k + 1 \in S
    <2> DEFINE m == n + (k + 1)
               j == SlotItem(c, m)
    <2>1. SUFFICES ASSUME m <= Slots PROVE t[m].put[i] = t[n].put[i]
      OBVIOUS
    <2>2. m \in Slot /\ m # n /\ m - 1 = n + k /\ m - 1 \in 0..Slots /\ n + k <= Slots
      BY <1>3, <2>1 DEF Slot
    <2>3. t[m - 1].put[i] = t[n].put[i]
      BY <1>5, <2>2
    <2>4. j # i /\ j \in Item \cup {None}
      BY <1>3, <2>2 DEF SlotsOf
    <2>5. CASE j = None
      BY <1>1, <2>2, <2>3, <2>5
    <2>6. CASE j # None
      <3>1. j \in Item /\ t[m] = PutNext(t[m - 1], j)
        BY <1>1, <2>2, <2>4, <2>6
      <3>2. t[m - 1].put \in [Item -> Cell \cup {None}]
        BY <1>2, <2>2 DEF SearchOK
      <3>3. CASE t[m - 1].put[j] # None
        <4> HIDE DEF j, m
        <4>1. SearchOK(c, T, m - 1, t[m - 1])
          BY <1>2, <2>2
        <4>a. \A q \in Item : t[m - 1].put[q] # None => \E l \in 1 .. m - 1 : SlotItem(c, l) = q
          BY <4>1 DEF SearchOK
        <4>2. PICK l \in 1 .. m - 1 : SlotItem(c, l) = j
          BY <3>1, <3>3, <4>a
        <4>3. l \in Slot /\ l # m
          BY <1>3, <2>2, <4>2 DEF Slot
        <4>4. SlotItem(c, m) = j
          BY DEF j
        <4> QED BY <2>2, <2>6, <4>2, <4>3, <4>4 DEF SlotsOf
      <3>4. CASE t[m - 1].put[j] = None
        <4> DEFINE room == Room(t[m - 1].taken, Size[j])
        <4> HIDE DEF j, m
        <4>1. t[m].put[i] = t[m - 1].put[i]
          <5>1. /\ room = {} => t[m] = t[m - 1]
                /\ room # {} => \A l \in Item \ {j} : t[m].put[l] = t[m - 1].put[l]
            BY <3>1, <3>2, <3>4, PutNextFinds
          <5> QED BY <2>4, <5>1
        <4> QED BY <2>3, <4>1
      <3> QED BY <3>3, <3>4
    <2> QED BY <2>4, <2>5, <2>6
  <1>6. Nat \subseteq S
    <2> HIDE DEF S
    <2> QED BY <1>4, <1>5, NatSet
  <1>7. ASSUME NEW m \in n..Slots
        PROVE  t[m].put[i] = t[n].put[i]
    <2>1. m - n \in Nat /\ n + (m - n) = m /\ m <= Slots
      BY <1>3
    <2> QED BY <1>6, <2>1
  <1> QED BY <1>7 DEF t

(* The item of slot n gets the first place that is left, if there is one.  *)
LEMMA SearchFirst ==
    ASSUME NEW c, SlotsOf(c), NEW T, NEW n \in Slot, NEW i, SlotItem(c, n) = i, i \in Item
    PROVE  /\ PutAll(c, T)[i] = None => Room(Before(c, T, n), Size[i]) = {}
           /\ PutAll(c, T)[i] # None => \A m \in Room(Before(c, T, n), Size[i]) : PutAll(c, T)[i] <= m
  <1> DEFINE t == Search(c, T)
             room == Room(t[n - 1].taken, Size[i])
  <1>1. Slots \in Nat /\ n \in Nat /\ i # None /\ n - 1 \in 0..Slots /\ Slots \in n..Slots
    BY ExchangeAssumption DEF ExchangeAssumption, Slot
  <1>2. t[n] = PutNext(t[n - 1], i)
    BY <1>1, SearchSteps DEF SlotItem
  <1>3. SearchOK(c, T, n - 1, t[n - 1])
    BY <1>1, SearchRuns
  <1>4. t[Slots].put[i] = t[n].put[i]
    BY <1>1, SearchStays
  <1>5. PutAll(c, T) = t[Slots].put /\ Before(c, T, n) = t[n - 1].taken
    BY DEF PutAll, Before
  <1> HIDE DEF t
  <1>6. t[n - 1].put[i] = None
    <2>1. ASSUME t[n - 1].put[i] # None PROVE FALSE
      <3>1. PICK l \in 1 .. n - 1 : SlotItem(c, l) = i
        BY <1>3, <2>1 DEF SearchOK
      <3>2. l \in Slot /\ l # n
        BY <1>1 DEF Slot
      <3> QED BY <1>1, <3>1, <3>2 DEF SlotsOf
    <2> QED BY <2>1
  <1>7. t[n - 1].put \in [Item -> Cell \cup {None}]
    BY <1>3 DEF SearchOK
  <1>8. /\ room = {} => t[n] = t[n - 1]
        /\ room # {} => t[n].put[i] # None /\ \A m \in room : t[n].put[i] <= m
    BY <1>2, <1>6, <1>7, PutNextFinds
  <1> HIDE DEF room
  <1>9. /\ t[Slots].put[i] = None => room = {}
        /\ t[Slots].put[i] # None => \A m \in room : t[Slots].put[i] <= m
    BY <1>4, <1>6, <1>8
  <1> QED BY <1>5, <1>9 DEF room

(* What is taken then: what was at first, and the places found before.     *)
LEMMA BeforeIs ==
    ASSUME NEW c, SlotsOf(c), NEW T, NEW n \in Slot, NEW x \in Before(c, T, n), x \notin T
    PROVE  \E k \in 1 .. n - 1 :
             LET j == SlotItem(c, k)
             IN  j \in Item /\ PutAll(c, T)[j] # None /\ x \in Area(PutAll(c, T)[j], Size[j])
  <1> DEFINE t == Search(c, T)
  <1>1. Slots \in Nat /\ n - 1 \in 0..Slots /\ \A k \in 1 .. n - 1 : k \in Slot /\ n - 1 \in k..Slots /\ Slots \in k..Slots
    BY ExchangeAssumption DEF ExchangeAssumption, Slot
  <1>2. SearchOK(c, T, n - 1, t[n - 1])
    BY <1>1, SearchRuns
  <1>3. x \in t[n - 1].taken
    BY DEF Before
  <1> HIDE DEF t
  <1>4. PICK j \in Item : t[n - 1].put[j] # None /\ x \in Area(t[n - 1].put[j], Size[j])
    BY <1>2, <1>3 DEF SearchOK
  <1>5. PICK k \in 1 .. n - 1 : SlotItem(c, k) = j
    BY <1>2, <1>4 DEF SearchOK
  <1>6. t[n - 1].put[j] = t[k].put[j] /\ t[Slots].put[j] = t[k].put[j]
    BY <1>1, <1>5, SearchStays DEF t
  <1>7. PutAll(c, T)[j] = t[n - 1].put[j]
    BY <1>6 DEF PutAll, t
  <1> QED BY <1>4, <1>5, <1>7

(* Of two columns of cells of one size that overlap, the lower begins in   *)
(* the upper.                                                              *)
LEMMA Overlap ==
    ASSUME NEW a \in Nat, NEW b \in Nat, NEW s \in Nat, a <= b, Area(a, s) \cap Area(b, s) # {}
    PROVE  b \in Area(a, s)
  <1>1. Cols \in Nat \ {0}
    BY ExchangeAssumption DEF ExchangeAssumption
  <1>2. PICK u \in 0 .. s - 1, v \in 0 .. s - 1 : a + Cols * u = b + Cols * v
    BY DEF Area
  <1>3. u \in Nat /\ v \in Nat /\ u < s
    OBVIOUS
  <1>4. v <= u
    <2>1. ASSUME u < v PROVE FALSE
      <3>1. PICK d \in Nat \ {0} : v = u + d
        <4>1. v - u \in Nat \ {0} /\ v = u + (v - u)
          BY <1>3, <2>1
        <4> QED BY <4>1
      <3>2. Cols * v = Cols * u + Cols * d /\ Cols * d \in Nat \ {0} /\ Cols * u \in Nat
        BY <1>1, <1>3, <3>1
      <3> QED BY <1>2, <3>2
    <2> QED BY <1>3, <2>1
  <1>5. PICK d \in Nat : u = v + d
    <2>1. u - v \in Nat /\ u = v + (u - v)
      BY <1>3, <1>4
    <2> QED BY <2>1
  <1>6. Cols * u = Cols * v + Cols * d /\ Cols * v \in Nat /\ Cols * d \in Nat
    BY <1>1, <1>3, <1>5
  <1>7. b = a + Cols * d
    BY <1>2, <1>6
  <1>8. d \in 0 .. s - 1
    BY <1>3, <1>5
  <1> QED BY <1>7, <1>8 DEF Area

(* Two columns that begin in a third overlap.                              *)
LEMMA BothIn ==
    ASSUME NEW g \in Nat, NEW a \in Nat, NEW b \in Nat, NEW s \in Nat \ {0},
           a \in Area(g, s), b \in Area(g, s)
    PROVE  Area(a, s) \cap Area(b, s) # {}
  <1>1. Cols \in Nat \ {0}
    BY ExchangeAssumption DEF ExchangeAssumption
  <1>2. ASSUME NEW x \in Nat, NEW y \in Nat, NEW u \in 0 .. s - 1, NEW v \in 0 .. s - 1,
               x = g + Cols * u, y = g + Cols * v, u <= v
        PROVE  y \in Area(x, s) /\ y \in Area(y, s)
    <2>1. v - u \in 0 .. s - 1 /\ v - u \in Nat /\ v = u + (v - u)
      BY <1>2
    <2>2. Cols * v = Cols * u + Cols * (v - u)
      BY <1>1, <2>1
    <2>3. Cols * u \in Nat /\ Cols * (v - u) \in Nat
      BY <1>1, <2>1
    <2>4. y = x + Cols * (v - u)
      BY <1>2, <2>2, <2>3
    <2>5. y = y + Cols * 0 /\ 0 \in 0 .. s - 1
      BY <1>1, <1>2
    <2> QED BY <2>1, <2>4, <2>5 DEF Area
  <1>3. PICK u \in 0 .. s - 1, v \in 0 .. s - 1 : a = g + Cols * u /\ b = g + Cols * v
    BY DEF Area
  <1>4. u <= v \/ v <= u
    OBVIOUS
  <1> QED BY <1>2, <1>3, <1>4

(* When all items of c have one size and find a place in T, they find one  *)
(* in a part of T: who gets none there has its old place blocked by one    *)
(* that came before; so has each before it; and none blocks two.           *)
LEMMA OneSizeFits ==
    ASSUME NEW c, SlotsOf(c), NEW T, NEW U, U \subseteq T, NEW s \in Nat \ {0},
           \A n \in Slot : SlotItem(c, n) \in Item =>
                Size[SlotItem(c, n)] = s /\ PutAll(c, T)[SlotItem(c, n)] # None
    PROVE  \A n \in Slot : SlotItem(c, n) \in Item => PutAll(c, U)[SlotItem(c, n)] # None
  <1> DEFINE f(n) == PutAll(c, T)[SlotItem(c, n)]
             g(n) == PutAll(c, U)[SlotItem(c, n)]
             B == {n \in Slot : SlotItem(c, n) \in Item /\ g(n) = None}
             before(n) == Before(c, U, n)
  <1>1. SUFFICES ASSUME B # {} PROVE FALSE
    OBVIOUS
  <1>2. Slot \subseteq Nat \ {0} /\ Cell \subseteq Nat /\ Slots \in Nat /\ None \notin Item
    BY ExchangeAssumption DEF ExchangeAssumption, Slot, Cell
  <1>3. PICK m \in B : \A n \in B : m <= n
    <2>1. B \in SUBSET Nat
      BY <1>2
    <2> HIDE DEF B
    <2> QED BY <1>1, <2>1, LeastNat
  <1>4. m \in Slot /\ SlotItem(c, m) \in Item /\ g(m) = None
    OBVIOUS
  <1>5. \A n \in Slot : n < m /\ SlotItem(c, n) \in Item => g(n) # None
    BY <1>2, <1>3
  <1> HIDE DEF B
  <1> DEFINE S == {n \in 1..m : SlotItem(c, n) \in Item}
  <1>6. \A n \in S : n \in Slot /\ n <= m /\ n \in Nat \ {0} /\ SlotItem(c, n) \in Item
    BY <1>2, <1>4 DEF Slot
  <1>7. SearchOK(c, T, Slots, Search(c, T)[Slots]) /\ SearchOK(c, U, Slots, Search(c, U)[Slots])
    BY <1>2, SearchRuns
  <1>8. PutAll(c, T) = Search(c, T)[Slots].put /\ PutAll(c, U) = Search(c, U)[Slots].put
    BY DEF PutAll
  <1>9. ASSUME NEW n \in S
        PROVE  f(n) \in Cell /\ Fits(T, f(n), s) /\ Size[SlotItem(c, n)] = s
    <2>1. SlotItem(c, n) \in Item /\ f(n) # None /\ Size[SlotItem(c, n)] = s
      BY <1>6
    <2> QED BY <1>7, <1>8, <2>1 DEF SearchOK
  <1>10. ASSUME NEW n \in S, NEW k \in S, n # k
         PROVE  Area(f(n), s) \cap Area(f(k), s) = {}
    <2>1. /\ SlotItem(c, n) \in Item /\ f(n) # None /\ Size[SlotItem(c, n)] = s
          /\ SlotItem(c, k) \in Item /\ f(k) # None /\ Size[SlotItem(c, k)] = s
      BY <1>6
    <2>2. SlotItem(c, n) # SlotItem(c, k)
      BY <1>2, <1>6, <1>10, <2>1 DEF SlotsOf
    <2> QED BY <1>7, <1>8, <2>1, <2>2 DEF SearchOK
  <1>11. ASSUME NEW n \in S, n # m
         PROVE  g(n) \in Cell
    <2>a. n \in Slot /\ n <= m /\ n \in Nat /\ m \in Nat /\ SlotItem(c, n) \in Item
      BY <1>2, <1>4, <1>6
    <2>b. n < m
      BY <1>11, <2>a
    <2>1. SlotItem(c, n) \in Item /\ g(n) # None
      BY <1>5, <2>a, <2>b
    <2> QED BY <1>7, <1>8, <2>1 DEF SearchOK
  <1>12. ASSUME NEW n \in Slot, NEW x \in before(n), x \notin U, n <= m
         PROVE  \E k \in S : k < n /\ x \in Area(g(k), s)
    <2>1. PICK k \in 1 .. n - 1 : SlotItem(c, k) \in Item /\ x \in Area(g(k), Size[SlotItem(c, k)])
      BY <1>12, BeforeIs
    <2>2. k \in S /\ k < n
      BY <1>2, <1>4, <1>12, <2>1
    <2> QED BY <1>9, <2>1, <2>2
  <1>13. ASSUME NEW n \in S
         PROVE  /\ n = m => Room(before(n), s) = {}
                /\ n # m => \A x \in Room(before(n), s) : g(n) <= x
    <2>1. n \in Slot /\ SlotItem(c, n) \in Item /\ Size[SlotItem(c, n)] = s
      BY <1>6, <1>9
    <2>2. /\ g(n) = None => Room(before(n), s) = {}
          /\ g(n) # None => \A x \in Room(before(n), s) : g(n) <= x
      BY <2>1, SearchFirst
    <2> QED BY <1>2, <1>4, <1>5, <1>6, <2>1, <2>2
  <1> HIDE DEF f, g, before, S
  <1>14. ASSUME NEW n \in S
         PROVE  \E k \in S \ {m} : f(n) \in Area(g(k), s)
    <2> DEFINE K == {k \in S \ {m} : Area(f(n), s) \cap Area(g(k), s) # {}}
    <2>1. ASSUME NEW k \in Slot, k <= m, f(n) \notin Room(before(k), s)
          PROVE  \E l \in K : l < k
      <3>1. Area(f(n), s) \cap before(k) # {}
        BY <1>9, <2>1 DEF Room, Fits
      <3>2. PICK x \in Area(f(n), s) : x \in before(k)
        BY <3>1
      <3>3. x \notin U
        BY <1>9, <3>2 DEF Fits
      <3>4. PICK l \in S : l < k /\ x \in Area(g(l), s)
        BY <1>12, <2>1, <3>2, <3>3
      <3>5. l # m
        BY <1>2, <1>4, <2>1, <3>4
      <3> QED BY <3>2, <3>4, <3>5
    <2>2. m \in S
      <3>1. m \in Nat \ {0}
        BY <1>2, <1>4
      <3>2. m \in 1..m
        BY <3>1
      <3> QED BY <1>4, <3>2 DEF S
    <2>3. f(n) \notin Room(before(m), s)
      BY <1>13, <2>2
    <2>4. K # {}
      BY <1>2, <1>4, <2>1, <2>3
    <2>5. PICK k \in K : \A l \in K : k <= l
      <3>1. K \in SUBSET Nat
        BY <1>6
      <3> HIDE DEF K
      <3> QED BY <2>4, <3>1, LeastNat
    <2>6. k \in S /\ k # m /\ Area(f(n), s) \cap Area(g(k), s) # {} /\ k \in Nat
      BY <1>6, <2>5
    <2>7. f(n) \in Room(before(k), s)
      <3>1. ASSUME f(n) \notin Room(before(k), s) PROVE FALSE
        <4>1. PICK l \in K : l < k
          BY <1>6, <2>1, <2>6, <3>1
        <4>2. l \in Nat /\ k <= l
          BY <1>6, <2>5
        <4> QED BY <2>6, <4>1, <4>2
      <3> QED BY <3>1
    <2> HIDE DEF K
    <2>8. g(k) <= f(n) /\ g(k) \in Nat /\ f(n) \in Nat
      BY <1>2, <1>9, <1>11, <1>13, <2>6, <2>7
    <2>9. f(n) \in Area(g(k), s)
      BY <2>6, <2>8, Overlap
    <2> QED BY <2>6, <2>9
  <1> DEFINE block == [n \in S |-> CHOOSE k \in S \ {m} : f(n) \in Area(g(k), s)]
  <1>15. \A n \in S : block[n] \in S \ {m} /\ f(n) \in Area(g(block[n]), s)
    BY <1>14
  <1>16. block \in [S -> S \ {m}]
    BY <1>15
  <1> HIDE DEF block
  <1>17. m \in S /\ IsFiniteSet(S)
    <2>a. m \in Nat \ {0}
      BY <1>2, <1>4
    <2>b. m \in 1..m
      BY <2>a
    <2>1. IsFiniteSet(1..m)
      <3>1. 1 \in Int /\ m \in Int
        BY <2>a
      <3> QED BY <3>1, FS_Interval
    <2>2. S \in SUBSET (1..m)
      BY DEF S
    <2>3. IsFiniteSet(S)
      BY <2>1, <2>2, FS_Subset
    <2> QED BY <1>4, <2>b, <2>3 DEF S
  <1>18. IsFiniteSet(S \ {m}) /\ Cardinality(S \ {m}) < Cardinality(S)
    <2>1. IsFiniteSet(S \ {m}) /\ Cardinality(S \ {m}) = Cardinality(S) - 1
      BY <1>17, FS_RemoveElement
    <2>2. Cardinality(S) \in Nat
      BY <1>17, FS_CardinalityType
    <2> QED BY <2>1, <2>2
  <1>19. \E n, k \in S : n # k /\ block[n] = block[k]
    BY <1>16, <1>17, <1>18, FS_PigeonHole
  <1>20. PICK n \in S, k \in S : n # k /\ block[n] = block[k]
    BY <1>19
  <1>21. Area(f(n), s) \cap Area(f(k), s) # {}
    <2> DEFINE b == g(block[n])
    <2>1. b \in Nat /\ f(n) \in Area(b, s) /\ f(k) \in Area(b, s)
      BY <1>2, <1>11, <1>15, <1>20
    <2>2. f(n) \in Nat /\ f(k) \in Nat
      BY <1>2, <1>9
    <2> HIDE DEF b
    <2> QED BY <2>1, <2>2, BothIn
  <1> QED BY <1>10, <1>20, <1>21
-----------------------------------------------------------------------------
(* All or nothing                                                          *)

(* A trade: what the second accept does when every check succeeds.         *)
Trade(c) ==
    /\ c \notin accepted /\ company[c] \in accepted
    /\ Check(c) /\ CheckSpace(c) /\ Check(company[c]) /\ CheckSpace(company[c])
    /\ End(c, Done(Done(Now(c), c), company[c]))

LEMMA EqualSizes ==
    ASSUME NEW c, OfferedItems(c) \subseteq Item, OneSize(c), NEW i \in OfferedItems(c),
           NEW j \in OfferedItems(c)
    PROVE  Size[i] = Size[j]
  <1> DEFINE sizes == {Size[k] : k \in OfferedItems(c)}
  <1>1. IsFiniteSet(sizes)
    <2>1. Rows \in Int /\ 1 \in Int /\ sizes \in SUBSET (1..Rows)
      BY ExchangeAssumption DEF ExchangeAssumption
    <2>2. IsFiniteSet(1..Rows)
      BY <2>1, FS_Interval
    <2> QED BY <2>1, <2>2, FS_Subset
  <1>2. Size[i] \in sizes /\ Size[j] \in sizes /\ Cardinality(sizes) <= 1
    BY DEF OneSize
  <1> HIDE DEF sizes
  <1>3. Cardinality(sizes) \in Nat /\ (Cardinality(sizes) = 0 <=> sizes = {})
    BY <1>1, FS_CardinalityType, FS_EmptySet
  <1>4. Cardinality(sizes) = 1
    BY <1>2, <1>3
  <1>5. PICK s : sizes = {s}
    BY <1>1, <1>4, FS_Singleton
  <1> QED BY <1>2, <1>5

(* What both own, and whose the items in the slots are, before a trade.    *)
LEMMA BeforeTrade ==
    ASSUME IInv, NEW c \in Char, company[c] # None, Check(c), Check(company[c])
    PROVE  /\ company[c] \in Char /\ company[company[c]] = c /\ company[c] # c
           /\ OfferedItems(c) \subseteq Item /\ OfferedItems(company[c]) \subseteq Item
           /\ \A i \in OfferedItems(c) : owner[i] = c
           /\ \A i \in OfferedItems(company[c]) : owner[i] = company[c]
           /\ SlotsOf(c) /\ SlotsOf(company[c])
  <1>1. company[c] \in Char /\ company[company[c]] = c /\ company[c] # c
    BY DEF IInv, Paired, Types
  <1>2. ASSUME NEW x, Check(x) PROVE \A i \in OfferedItems(x) : owner[i] = x
    BY <1>2 DEF Check, OfferedItems
  <1> QED BY <1>1, <1>2, SlotsOfAll

(* Places that are free for the partner's items stay free when c's go.     *)
LEMMA LessTaken ==
    ASSUME NEW c, NEW w, company[c] # c
    PROVE  Taken(Done(w, c).owner, Done(w, c).cell, c) \subseteq Taken(w.owner, w.cell, c)
  <1>1. Done(w, c).owner = NewOwner(w, c) /\ Done(w, c).cell = NewCell(w, c)
    BY DoneIs
  <1>2. ASSUME NEW i \in Item, NewOwner(w, c)[i] = c
        PROVE  w.owner[i] = c /\ NewCell(w, c)[i] = w.cell[i]
    BY <1>2 DEF NewOwner, NewCell
  <1> QED BY <1>1, <1>2 DEF Taken, Carried

LEMMA TradeGives ==
    ASSUME IInv, TypeOK, NEW c \in Char, company[c] # None, Trade(c)
    PROVE  /\ StillHas(c) /\ StillHas(company[c])
           /\ Gives(c)
           /\ OneSize(company[c]) \/ OfferedItems(c) = {} => Gives(company[c])
  <1> DEFINE p == company[c]
             w1 == Done(Now(c), c)
             w2 == Done(w1, p)
  <1>1. /\ p \in Char /\ company[p] = c /\ p # c
        /\ OfferedItems(c) \subseteq Item /\ OfferedItems(p) \subseteq Item
        /\ \A i \in OfferedItems(c) : owner[i] = c
        /\ \A i \in OfferedItems(p) : owner[i] = p
        /\ SlotsOf(c) /\ SlotsOf(p)
    BY BeforeTrade DEF Trade
  <1>2. Now(c).owner = owner /\ Now(c).cell = cell
    BY DEF Now
  <1>3. \A i \in OfferedItems(c) : i \in Moved(Now(c), c)
    BY <1>2 DEF Trade, CheckSpace, Moved, Found
  <1>4. w1.owner = NewOwner(Now(c), c) /\ w1.cell = NewCell(Now(c), c)
    BY DoneIs
  <1>5. owner' = NewOwner(w1, p)
    <2>1. owner' = w2.owner
      BY DEF Trade, End
    <2>2. w2.owner = NewOwner(w1, p)
      BY DoneIs
    <2> QED BY <2>1, <2>2
  <1>6. Gives(c)
    <2>1. ASSUME NEW i \in OfferedItems(c) PROVE owner'[i] = p
      <3>1. w1.owner[i] = p
        BY <1>1, <1>3, <1>4, <2>1 DEF NewOwner
      <3>2. i \notin Moved(w1, p) /\ i \in Item
        BY <1>1, <2>1 DEF Moved
      <3> QED BY <1>5, <3>1, <3>2 DEF NewOwner
    <2> QED BY <2>1 DEF Gives
  <1>7. ASSUME OneSize(p) \/ OfferedItems(c) = {}, NEW i \in OfferedItems(p)
        PROVE  Found(w1, p)[i] # None
    <2> DEFINE T == Taken(owner, cell, c)
               U == Taken(w1.owner, w1.cell, c)
    <2>1. Found(w1, p) = PutAll(p, U)
      BY <1>1 DEF Found
    <2>2. \A j \in OfferedItems(p) : PutAll(p, T)[j] # None
      BY <1>1 DEF Trade, CheckSpace
    <2>3. CASE OfferedItems(c) = {}
      <3>1. Moved(Now(c), c) = {}
        BY <2>3 DEF Moved
      <3>2. w1.owner = owner /\ w1.cell = cell
        <4>1. \A j \in Item : w1.owner[j] = owner[j] /\ w1.cell[j] = cell[j]
          BY <1>2, <1>4, <3>1 DEF NewOwner, NewCell
        <4>2. owner = [j \in Item |-> owner[j]] /\ cell = [j \in Item |-> cell[j]]
          BY DEF TypeOK
        <4>3. w1.owner = [j \in Item |-> w1.owner[j]] /\ w1.cell = [j \in Item |-> w1.cell[j]]
          BY <1>4 DEF NewOwner, NewCell
        <4> QED BY <4>1, <4>2, <4>3
      <3>3. U = T
        BY <3>2
      <3> QED BY <1>7, <2>1, <2>2, <3>3
    <2>4. CASE OneSize(p)
      <3> DEFINE s == Size[i]
      <3>1. s \in Nat \ {0}
        BY <1>1, <1>7, ExchangeAssumption DEF ExchangeAssumption
      <3>2. \A j \in OfferedItems(p) : Size[j] = s
        BY <1>1, <1>7, <2>4, EqualSizes
      <3>3. U \subseteq T
        BY <1>1, <1>2, LessTaken
      <3>4. \A j : j \in OfferedItems(p) <=> j # None /\ \E n \in Slot : SlotItem(p, n) = j
        BY DEF OfferedItems, SlotItem
      <3>5. \A n \in Slot : SlotItem(p, n) \in Item => SlotItem(p, n) \in OfferedItems(p)
        BY <3>4, ExchangeAssumption DEF ExchangeAssumption
      <3>6. \A n \in Slot : SlotItem(p, n) \in Item =>
                Size[SlotItem(p, n)] = s /\ PutAll(p, T)[SlotItem(p, n)] # None
        BY <2>2, <3>2, <3>5
      <3>7. SlotsOf(p)
        BY <1>1
      <3> HIDE DEF s, T, U, p
      <3>8. \A n \in Slot : SlotItem(p, n) \in Item => PutAll(p, U)[SlotItem(p, n)] # None
        BY <3>1, <3>3, <3>6, <3>7, OneSizeFits
      <3>9. PICK n \in Slot : SlotItem(p, n) = i
        BY <1>7, <3>4
      <3>10. PutAll(p, U)[i] # None
        BY <1>1, <1>7, <3>8, <3>9
      <3> QED BY <2>1, <3>10
    <2> QED BY <1>7, <2>3, <2>4
  <1>8. ASSUME OneSize(p) \/ OfferedItems(c) = {} PROVE Gives(p)
    <2>1. ASSUME NEW i \in OfferedItems(p) PROVE owner'[i] = c
      <3>1. i \in Moved(w1, p) /\ i \in Item
        BY <1>1, <1>7, <1>8, <2>1 DEF Moved
      <3> QED BY <1>1, <1>5, <3>1 DEF NewOwner
    <2> QED BY <1>1, <2>1 DEF Gives
  <1>9. StillHas(c) /\ StillHas(p)
    BY <1>1 DEF StillHas
  <1> QED BY <1>6, <1>8, <1>9

LEMMA TradePays ==
    ASSUME IInv, TypeOK, NEW c \in Char, company[c] # None, Trade(c),
           HoldsGold(c), HoldsGold(company[c])
    PROVE  GoldRight(c) /\ GoldRight(company[c])
  <1> DEFINE p == company[c]
             w1 == Done(Now(c), c)
             w2 == Done(w1, p)
  <1>1. p \in Char /\ company[p] = c /\ p # c
    BY BeforeTrade DEF Trade
  <1>2. lGold[c] <= gold[c] /\ lGold[p] <= gold[p]
    BY DEF Trade, Check
  <1>3. gold[c] + lGold[p] <= GoldMax /\ gold[p] + lGold[c] <= GoldMax
    BY <1>1 DEF HoldsGold
  <1>4. gold \in [Char -> 0..GoldMax] /\ lGold \in [Char -> 0..GoldMax]
    BY DEF TypeOK
  <1>5. GoldMax \in Nat /\ IntMax \in Nat /\ GoldMax <= IntMax
    BY ExchangeAssumption DEF ExchangeAssumption
  <1>6. w1.gold = [gold EXCEPT ![c] = Paid(gold[c], lGold[c]), ![p] = Earned(gold[p], lGold[c])]
    <2>1. Now(c).gold = gold
      BY DEF Now
    <2>2. w1.gold = [Now(c).gold EXCEPT ![c] = Paid(@, lGold[c]), ![p] = Earned(@, lGold[c])]
      BY DoneIs
    <2> QED BY <1>1, <1>4, <2>1, <2>2
  <1>7. w2.gold = [w1.gold EXCEPT ![p] = Paid(@, lGold[p]), ![c] = Earned(@, lGold[p])]
    <2> HIDE DEF w1, p
    <2> QED BY <1>1, DoneIs
  <1>8. gold' = w2.gold
    BY DEF Trade, End
  <1> HIDE DEF w2
  <1>9. w1.gold[c] = Paid(gold[c], lGold[c]) /\ w1.gold[p] = Earned(gold[p], lGold[c]) /\ DOMAIN w1.gold = Char
    BY <1>1, <1>4, <1>6
  <1> HIDE DEF w1
  <1>10. /\ gold'[c] = Earned(Paid(gold[c], lGold[c]), lGold[p])
         /\ gold'[p] = Paid(Earned(gold[p], lGold[c]), lGold[p])
    BY <1>1, <1>7, <1>8, <1>9
  <1>11. gold[c] \in Nat /\ gold[p] \in Nat /\ lGold[c] \in Nat /\ lGold[p] \in Nat
    BY <1>1, <1>4, <1>5
  <1>12. Paid(gold[c], lGold[c]) = gold[c] - lGold[c] /\ gold[c] - lGold[c] \in Nat
    BY <1>2, <1>11 DEF Paid
  <1>13. gold'[c] = gold[c] - lGold[c] + lGold[p]
    BY <1>2, <1>3, <1>5, <1>10, <1>11, <1>12 DEF Earned
  <1>14. gold'[p] = gold[p] + lGold[c] - lGold[p]
    BY <1>2, <1>3, <1>5, <1>10, <1>11 DEF Earned, Paid
  <1> QED BY <1>1, <1>11, <1>13, <1>14 DEF GoldRight

(* A step that ends an exchange is a trade, or leaves all as it was.       *)
LEMMA EndsHow ==
    ASSUME IInv, TypeOK, [Next]_vars, NEW x \in Char \ accepted, company[x] # None, company'[x] = None
    PROVE  \/ owner' = owner /\ cell' = cell /\ gold' = gold
           \/ Trade(x)
  <1>1. company \in [Char -> Char \cup {None}] /\ None \notin Char
    BY ExchangeAssumption DEF TypeOK, ExchangeAssumption
  <1>2. company' # company
    OBVIOUS
  <1>3. ASSUME NEW c \in Char, End(c, Now(c))
        PROVE  owner' = owner /\ cell' = cell /\ gold' = gold
    BY <1>3 DEF End, Now
  <1>4. ASSUME NEW c \in Char, Cancel(c)
        PROVE  owner' = owner /\ cell' = cell /\ gold' = gold
    BY <1>3, <1>4 DEF Cancel
  <1>5. ASSUME NEW c \in Char, NEW victim \in Char, Start(c, victim) PROVE FALSE
    BY <1>1, <1>5 DEF Start, MayExchange
  <1>6. ASSUME NEW c \in Char, AcceptSecond(c)
        PROVE  \/ owner' = owner /\ cell' = cell /\ gold' = gold
               \/ Trade(x)
    <2>1. End(c, Now(c)) \/ Trade(c)
      BY <1>6 DEF AcceptSecond, Trade
    <2>2. CASE Trade(c)
      <3>1. company' = [y \in Char |-> IF y \in {c, company[c]} THEN None ELSE company[y]]
        BY <2>2 DEF Trade, End
      <3>2. x \in {c, company[c]}
        BY <3>1
      <3>3. x = c
        BY <2>2, <3>2 DEF Trade
      <3> QED BY <2>2, <3>3
    <2> QED BY <1>3, <2>1, <2>2
  <1>7. CASE UNCHANGED vars
    BY <1>2, <1>7 DEF vars, exchange
  <1>8. ASSUME NEW c \in Char,
               \/ \E i \in Item : AddItem(c, i) \/ DropItem(c, i) \/ PickupItem(c, i)
               \/ \E n \in Slot : RemoveItem(c, n)
               \/ \E n \in 1..GoldMax : AddGold(c, n) \/ DropGold(c, n)
               \/ AcceptFirst(c)
               \/ \E i \in Item, n \in Cell : MoveItem(c, i, n)
               \/ \E k \in DOMAIN floor : PickupGold(c, k)
               \/ ReqSafeboxLoad(c) \/ SafeboxLoad(c) \/ CloseSafebox(c)
        PROVE  company' = company
    BY <1>8 DEF AddItem, DropItem, PickupItem, RemoveItem, AddGold, DropGold, AcceptFirst, MoveItem,
        PickupGold, ReqSafeboxLoad, SafeboxLoad, CloseSafebox, SetSafebox, Meanwhile, exchange
  <1>9. ASSUME NEW i \in Item, Expire(i) PROVE company' = company
    BY <1>9 DEF Expire, Meanwhile, exchange
  <1>10. CASE Next
    BY <1>2, <1>4, <1>5, <1>6, <1>8, <1>9, <1>10 DEF Next
  <1> QED BY <1>7, <1>10

(* An exchange changes nothing at its end or does what both have accepted, *)
(* as far as AllOrNothing says (CExchange::Accept, Done and Cancel).       *)
THEOREM TradesWhole == Spec => AllOrNothing
  <1>1. ASSUME IInv, TypeOK, [Next]_vars, NEW c \in Char \ accepted,
               company[c] # None, company'[c] = None
        PROVE  LET p == company[c] IN
               \/ owner' = owner /\ cell' = cell /\ gold' = gold
               \/ /\ p \in accepted
                  /\ StillHas(c) /\ StillHas(p)
                  /\ Gives(c)
                  /\ OneSize(p) \/ OfferedItems(c) = {} => Gives(p)
                  /\ HoldsGold(c) /\ HoldsGold(p) => GoldRight(c) /\ GoldRight(p)
    <2>1. CASE owner' = owner /\ cell' = cell /\ gold' = gold
      BY <2>1
    <2>2. CASE Trade(c)
      <3>1. company[c] \in accepted
        BY <2>2 DEF Trade
      <3> QED BY <1>1, <2>2, <3>1, TradeGives, TradePays
    <2> QED BY <1>1, <2>1, <2>2, EndsHow
  <1>2. ASSUME IInv, TypeOK, [Next]_vars
        PROVE  [\A c \in Char \ accepted : company[c] # None /\ company'[c] = None =>
                    LET p == company[c] IN
                    \/ owner' = owner /\ cell' = cell /\ gold' = gold
                    \/ /\ p \in accepted
                       /\ StillHas(c) /\ StillHas(p)
                       /\ Gives(c)
                       /\ OneSize(p) \/ OfferedItems(c) = {} => Gives(p)
                       /\ HoldsGold(c) /\ HoldsGold(p) => GoldRight(c) /\ GoldRight(p)]_vars
    BY <1>1, <1>2
  <1> QED BY <1>2, Invariance, TypeCorrect, PTL DEF Spec, AllOrNothing

-----------------------------------------------------------------------------
(* Gold                                                                    *)

Holds(S, g) == \A x \in S : g[x] \in 0..GoldMax

LEMMA MaxType == GoldMax \in Nat /\ IntMax \in Nat /\ GoldMax <= IntMax /\ IsFiniteSet(Char)
  BY ExchangeAssumption DEF ExchangeAssumption

LEMMA CoinsFinite ==
    ASSUME NEW S, IsFiniteSet(S), NEW g
    PROVE  IsFiniteSet(Coins(S, g)) /\ Cardinality(Coins(S, g)) \in Nat
  <1>1. IsFiniteSet(1..GoldMax)
    BY MaxType, FS_Interval
  <1>2. IsFiniteSet(S \X (1..GoldMax))
    <2> DEFINE M == 1..GoldMax
    <2> HIDE DEF M
    <2> QED BY <1>1, FS_Product DEF M
  <1>3. Coins(S, g) \subseteq S \X (1..GoldMax)
    BY DEF Coins
  <1>4. IsFiniteSet(Coins(S, g))
    BY <1>2, <1>3, FS_Subset
  <1> QED BY <1>4, FS_CardinalityType

(* The coins of one element are as many as it has.                         *)
LEMMA OneCoins ==
    ASSUME NEW y, NEW g, g[y] \in 0..GoldMax
    PROVE  /\ Coins({y}, g) = {y} \X (1..g[y])
           /\ IsFiniteSet(Coins({y}, g)) /\ Cardinality(Coins({y}, g)) = g[y]
  <1>1. Coins({y}, g) = {y} \X (1..g[y])
    BY MaxType DEF Coins
  <1> DEFINE n == g[y]
             M == 1..n
  <1>2. n \in Nat
    BY MaxType
  <1>3. IsFiniteSet(M) /\ Cardinality(M) = n
    <2>1. \A k \in Nat : IsFiniteSet(1..k) /\ Cardinality(1..k) = k
      BY FS_Interval
    <2> QED BY <1>2, <2>1
  <1>4. IsFiniteSet({y}) /\ Cardinality({y}) = 1
    BY FS_Singleton
  <1> HIDE DEF n, M
  <1>5. IsFiniteSet({y} \X M) /\ Cardinality({y} \X M) = 1 * n
    BY <1>3, <1>4, FS_Product
  <1>6. 1 * n = n
    BY <1>2
  <1>7. Coins({y}, g) = {y} \X M
    BY <1>1 DEF n, M
  <1>8. IsFiniteSet(Coins({y}, g)) /\ Cardinality(Coins({y}, g)) = n
    BY <1>5, <1>6, <1>7
  <1> QED BY <1>1, <1>8 DEF n

(* Whoever has gold has it besides that of the others.                     *)
LEMMA CoinsApart ==
    ASSUME NEW S, IsFiniteSet(S), NEW g, NEW y \in S, g[y] \in 0..GoldMax
    PROVE  Cardinality(Coins(S, g)) = Cardinality(Coins(S \ {y}, g)) + g[y]
  <1> DEFINE A == Coins(S \ {y}, g)
             B == Coins({y}, g)
  <1>1. IsFiniteSet(S \ {y})
    BY FS_Subset
  <1>2. IsFiniteSet(A) /\ Cardinality(A) \in Nat
    BY <1>1, CoinsFinite
  <1>3. IsFiniteSet(B) /\ Cardinality(B) = g[y]
    BY OneCoins
  <1>4. Coins(S, g) = A \cup B /\ A \cap B = {}
    BY DEF Coins
  <1>5. Cardinality(Coins({}, g)) = 0 /\ Cardinality({}) = 0
    BY FS_EmptySet DEF Coins
  <1> HIDE DEF A, B
  <1>6. Cardinality(A \cup B) = Cardinality(A) + Cardinality(B) - Cardinality(A \cap B)
    BY <1>2, <1>3, FS_Union
  <1>7. g[y] \in Nat
    BY MaxType
  <1>8. Cardinality(Coins(S, g)) = Cardinality(A) + g[y] - 0
    BY <1>3, <1>4, <1>5, <1>6
  <1>9. Cardinality(Coins(S, g)) = Cardinality(A) + g[y]
    BY <1>2, <1>7, <1>8
  <1> QED BY <1>9 DEF A

LEMMA CoinsSame ==
    ASSUME NEW S, NEW g, NEW h, \A x \in S : g[x] = h[x]
    PROVE  Coins(S, g) = Coins(S, h)
  BY DEF Coins

(* One has other gold than before.                                         *)
LEMMA CoinsOf ==
    ASSUME NEW S, IsFiniteSet(S), NEW g, NEW h, NEW y \in S,
           g[y] \in 0..GoldMax, h[y] \in 0..GoldMax, \A x \in S \ {y} : g[x] = h[x]
    PROVE  Cardinality(Coins(S, h)) = Cardinality(Coins(S, g)) - g[y] + h[y]
  <1>1. Coins(S \ {y}, g) = Coins(S \ {y}, h)
    BY CoinsSame
  <1>2. IsFiniteSet(S \ {y})
    BY FS_Subset
  <1>3. Cardinality(Coins(S \ {y}, g)) \in Nat
    BY <1>2, CoinsFinite
  <1>4. Cardinality(Coins(S, g)) = Cardinality(Coins(S \ {y}, g)) + g[y]
    BY CoinsApart
  <1>5. Cardinality(Coins(S, h)) = Cardinality(Coins(S \ {y}, h)) + h[y]
    BY CoinsApart
  <1>6. g[y] \in Nat /\ h[y] \in Nat
    BY MaxType
  <1> QED BY <1>1, <1>3, <1>4, <1>5, <1>6

(* Two have no more than before.                                           *)
LEMMA CoinsOfTwo ==
    ASSUME NEW g \in [Char -> 0..GoldMax], NEW h \in [Char -> 0..GoldMax], NEW c \in Char, NEW p \in Char,
           p # c, \A x \in Char \ {c, p} : g[x] = h[x], h[c] + h[p] <= g[c] + g[p]
    PROVE  Cardinality(Coins(Char, h)) <= Cardinality(Coins(Char, g))
  <1> DEFINE m == [g EXCEPT ![c] = h[c]]
  <1>1. m \in [Char -> 0..GoldMax] /\ m[c] = h[c] /\ m[p] = g[p] /\ IsFiniteSet(Char)
    BY MaxType
  <1>2. (\A x \in Char \ {c} : g[x] = m[x]) /\ (\A x \in Char \ {p} : m[x] = h[x])
    OBVIOUS
  <1> HIDE DEF m
  <1>3. /\ g[c] \in 0..GoldMax /\ h[c] \in 0..GoldMax /\ g[p] \in 0..GoldMax /\ h[p] \in 0..GoldMax
        /\ m[c] \in 0..GoldMax /\ m[p] \in 0..GoldMax
    BY <1>1
  <1>4. Cardinality(Coins(Char, m)) = Cardinality(Coins(Char, g)) - g[c] + m[c]
    BY <1>1, <1>2, <1>3, CoinsOf
  <1>5. Cardinality(Coins(Char, h)) = Cardinality(Coins(Char, m)) - m[p] + h[p]
    BY <1>1, <1>2, <1>3, CoinsOf
  <1>6. Cardinality(Coins(Char, g)) \in Nat /\ Cardinality(Coins(Char, h)) \in Nat
    BY <1>1, CoinsFinite
  <1> QED BY <1>1, <1>3, <1>4, <1>5, <1>6, MaxType

(* A piece of gold is put on the ground.                                   *)
LEMMA CoinsAppend ==
    ASSUME NEW s \in Seq(1..GoldMax), NEW n \in 1..GoldMax
    PROVE  /\ Cardinality(Coins(DOMAIN Append(s, n), Append(s, n))) = Cardinality(Coins(DOMAIN s, s)) + n
           /\ Cardinality(Coins(DOMAIN s, s)) \in Nat
  <1> DEFINE t == Append(s, n)
             y == Len(s) + 1
  <1>1. /\ Len(s) \in Nat /\ DOMAIN s = 1..Len(s) /\ DOMAIN t = 1..y
        /\ t[y] = n /\ \A i \in 1..Len(s) : t[i] = s[i]
    BY LenProperties, AppendProperties
  <1>2. IsFiniteSet(1..y) /\ IsFiniteSet(1..Len(s))
    BY <1>1, FS_Interval
  <1>3. (1..y) \ {y} = 1..Len(s) /\ y \in 1..y
    BY <1>1
  <1> HIDE DEF t, y
  <1>4. t[y] \in 0..GoldMax
    BY <1>1, MaxType
  <1>5. Cardinality(Coins(1..y, t)) = Cardinality(Coins((1..y) \ {y}, t)) + t[y]
    BY <1>2, <1>3, <1>4, CoinsApart
  <1>6. Coins(1..Len(s), s) = Coins(1..Len(s), t)
    BY <1>1, CoinsSame
  <1>7. Cardinality(Coins(1..Len(s), s)) \in Nat
    BY <1>2, CoinsFinite
  <1> QED BY <1>1, <1>3, <1>5, <1>6, <1>7 DEF t

(* A piece is taken off the ground.                                        *)
LEMMA CoinsRemove ==
    ASSUME NEW s \in Seq(1..GoldMax), NEW k \in DOMAIN s
    PROVE  /\ s[k] \in 1..GoldMax
           /\ Cardinality(Coins(DOMAIN s, s)) \in Nat
           /\ Cardinality(Coins(DOMAIN RemoveAt(s, k), RemoveAt(s, k))) \in Nat
           /\ Cardinality(Coins(DOMAIN RemoveAt(s, k), RemoveAt(s, k))) + s[k] <= Cardinality(Coins(DOMAIN s, s))
  <1> DEFINE t == RemoveAt(s, k)
             a == SubSeq(s, 1, k - 1)
             b == SubSeq(s, k + 1, Len(s))
  <1>1. Len(s) \in Nat /\ DOMAIN s = 1..Len(s) /\ k \in 1..Len(s) /\ \A i \in 1..Len(s) : s[i] \in 1..GoldMax
    BY LenProperties, ElementOfSeq
  <1>2. a \in Seq(1..GoldMax) /\ Len(a) = k - 1 /\ \A i \in 1..k - 1 : a[i] = s[i]
    <2>1. 1 \in Int /\ k - 1 \in Int /\ \A i \in 1..k - 1 : s[i] \in 1..GoldMax
      BY <1>1
    <2> QED BY <1>1, <2>1, SubSeqProperties
  <1>3. /\ b \in Seq(1..GoldMax) /\ Len(b) = Len(s) - k
        /\ \A i \in 1..Len(s) - k : b[i] = s[k + i]
    <2>1. k + 1 \in Int /\ Len(s) \in Int /\ \A i \in k + 1..Len(s) : s[i] \in 1..GoldMax
      BY <1>1
    <2> QED BY <1>1, <2>1, SubSeqProperties
  <1>4. t = a \o b
    BY DEF RemoveAt
  <1> HIDE DEF a, b, t
  <1>5. /\ t \in Seq(1..GoldMax) /\ Len(t) = Len(s) - 1
        /\ \A i \in 1..Len(s) - 1 : t[i] = IF i < k THEN s[i] ELSE s[i + 1]
    <2>1. /\ t \in Seq(1..GoldMax) /\ Len(t) = Len(a) + Len(b)
          /\ \A i \in 1..Len(a) + Len(b) : t[i] = IF i <= Len(a) THEN a[i] ELSE b[i - Len(a)]
      BY <1>2, <1>3, <1>4, ConcatProperties
    <2>2. Len(a) + Len(b) = Len(s) - 1
      BY <1>1, <1>2, <1>3
    <2>3. \A i \in 1..Len(s) - 1 : i < k => t[i] = s[i]
      <3>1. SUFFICES ASSUME NEW i \in 1..Len(s) - 1, i < k PROVE t[i] = s[i]
        OBVIOUS
      <3>2. i \in 1..k - 1 /\ i <= Len(a)
        BY <1>1, <1>2, <3>1
      <3> QED BY <1>2, <2>1, <2>2, <3>2
    <2>4. \A i \in 1..Len(s) - 1 : ~(i < k) => t[i] = s[i + 1]
      <3>1. SUFFICES ASSUME NEW i \in 1..Len(s) - 1, ~(i < k) PROVE t[i] = s[i + 1]
        OBVIOUS
      <3> DEFINE j == i - (k - 1)
      <3>2. j \in 1..Len(s) - k /\ k + j = i + 1 /\ ~(i <= Len(a)) /\ i - Len(a) = j
        BY <1>1, <1>2, <3>1
      <3> HIDE DEF j
      <3>3. t[i] = b[j] /\ b[j] = s[k + j]
        BY <1>3, <2>1, <2>2, <3>2
      <3> QED BY <3>2, <3>3
    <2> QED BY <2>1, <2>2, <2>3, <2>4
  <1>6. DOMAIN t = 1..Len(s) - 1
    BY <1>5, LenProperties
  <1> DEFINE D == 1..Len(s)
             E == 1..Len(s) - 1
             Old(i) == IF i < k THEN i ELSE i + 1
             f == [x \in Coins(E, t) |-> <<Old(x[1]), x[2]>>]
  <1>7. IsFiniteSet(D) /\ IsFiniteSet(E) /\ IsFiniteSet(D \ {k})
    <2>1. \A n \in Nat : IsFiniteSet(1..n)
      BY FS_Interval
    <2>2. Len(s) - 1 \in Nat
      BY <1>1
    <2>3. IsFiniteSet(D) /\ IsFiniteSet(E)
      BY <1>1, <2>1, <2>2
    <2> HIDE DEF D
    <2> QED BY <2>3, FS_Subset
  <1>8. \A i \in E : Old(i) \in D \ {k} /\ t[i] = s[Old(i)]
    BY <1>1, <1>5
  <1>9. \A i, j \in E : Old(i) = Old(j) => i = j
    BY <1>1
  <1>10. f \in Injection(Coins(E, t), Coins(D \ {k}, s))
    <2>1. \A x \in Coins(E, t) : x[1] \in E /\ x[2] \in 1..GoldMax /\ x[2] <= t[x[1]] /\ x = <<x[1], x[2]>>
      BY DEF Coins
    <2> HIDE DEF E, D, Old
    <2>2. \A x \in Coins(E, t) : <<Old(x[1]), x[2]>> \in Coins(D \ {k}, s)
      BY <1>8, <2>1 DEF Coins
    <2>3. \A x, y \in Coins(E, t) : f[x] = f[y] => x = y
      BY <1>9, <2>1
    <2>4. f \in [Coins(E, t) -> Coins(D \ {k}, s)]
      BY <2>2
    <2> HIDE DEF f
    <2> QED BY <2>3, <2>4 DEF Injection, IsInjective
  <1> HIDE DEF D, E, Old, f
  <1>11. IsFiniteSet(Coins(D \ {k}, s)) /\ Cardinality(Coins(D \ {k}, s)) \in Nat
    BY <1>7, CoinsFinite
  <1>12. Cardinality(Coins(E, t)) <= Cardinality(Coins(D \ {k}, s)) /\ IsFiniteSet(Coins(E, t))
    BY <1>10, <1>11, FS_Injection
  <1>13. k \in D /\ s[k] \in 0..GoldMax /\ s[k] \in 1..GoldMax
    BY <1>1, MaxType DEF D
  <1>14. Cardinality(Coins(D, s)) = Cardinality(Coins(D \ {k}, s)) + s[k]
    BY <1>7, <1>13, CoinsApart
  <1>15. Cardinality(Coins(E, t)) \in Nat /\ Cardinality(Coins(D, s)) \in Nat
    BY <1>7, CoinsFinite
  <1>16. Cardinality(Coins(E, t)) + s[k] <= Cardinality(Coins(D, s))
    BY <1>11, <1>12, <1>13, <1>14, <1>15, MaxType
  <1> QED BY <1>1, <1>6, <1>13, <1>15, <1>16 DEF D, E, t

LEMMA WealthType ==
    ASSUME TypeOK
    PROVE  /\ Cardinality(Coins(Char, gold)) \in Nat
           /\ Cardinality(Coins(DOMAIN floor, floor)) \in Nat
  <1>1. Cardinality(Coins(Char, gold)) \in Nat
    BY MaxType, CoinsFinite
  <1>2. Len(floor) \in Nat /\ DOMAIN floor = 1..Len(floor)
    BY LenProperties DEF TypeOK
  <1>3. IsFiniteSet(DOMAIN floor)
    BY <1>2, FS_Interval
  <1> QED BY <1>1, <1>3, CoinsFinite

LEMMA SameWealth == ASSUME TypeOK, UNCHANGED <<gold, floor>> PROVE Wealth' <= Wealth
  BY WealthType DEF Wealth

(* A trade: what one side earns the other has paid, and both have the gold *)
(* that they pay (CExchange::Check).                                       *)
LEMMA TradeWealth ==
    ASSUME IInv, TypeOK, NEW c \in Char, company[c] # None, Trade(c), gold' \in [Char -> 0..GoldMax]
    PROVE  Wealth' <= Wealth
  <1> DEFINE p == company[c]
             w1 == Done(Now(c), c)
             w2 == Done(w1, p)
  <1>1. p \in Char /\ company[p] = c /\ p # c
    BY BeforeTrade DEF Trade
  <1>2. lGold[c] <= gold[c] /\ lGold[p] <= gold[p]
    BY DEF Trade, Check
  <1>3. gold \in [Char -> 0..GoldMax] /\ lGold \in [Char -> 0..GoldMax]
    BY DEF TypeOK
  <1>4. w1.gold = [gold EXCEPT ![c] = Paid(gold[c], lGold[c]), ![p] = Earned(gold[p], lGold[c])]
    <2>1. Now(c).gold = gold
      BY DEF Now
    <2>2. w1.gold = [Now(c).gold EXCEPT ![c] = Paid(@, lGold[c]), ![p] = Earned(@, lGold[c])]
      BY DoneIs
    <2> QED BY <1>1, <1>3, <2>1, <2>2
  <1>5. w2.gold = [w1.gold EXCEPT ![p] = Paid(@, lGold[p]), ![c] = Earned(@, lGold[p])]
    <2> HIDE DEF w1, p
    <2> QED BY <1>1, DoneIs
  <1>6. gold' = w2.gold /\ floor' = floor
    BY DEF Trade, End
  <1> HIDE DEF w2
  <1>7. /\ w1.gold[c] = Paid(gold[c], lGold[c]) /\ w1.gold[p] = Earned(gold[p], lGold[c])
        /\ DOMAIN w1.gold = Char /\ \A x \in Char \ {c, p} : w1.gold[x] = gold[x]
    BY <1>1, <1>3, <1>4
  <1> HIDE DEF w1
  <1>8. /\ gold'[c] = Earned(Paid(gold[c], lGold[c]), lGold[p])
        /\ gold'[p] = Paid(Earned(gold[p], lGold[c]), lGold[p])
        /\ \A x \in Char \ {c, p} : gold[x] = gold'[x]
    BY <1>1, <1>5, <1>6, <1>7
  <1>9. gold[c] \in Nat /\ gold[p] \in Nat /\ lGold[c] \in Nat /\ lGold[p] \in Nat
    BY <1>1, <1>3, MaxType
  <1>10. gold'[c] <= gold[c] - lGold[c] + lGold[p]
    <2>1. Paid(gold[c], lGold[c]) = gold[c] - lGold[c] /\ gold[c] - lGold[c] \in Nat
      BY <1>2, <1>9 DEF Paid
    <2> QED BY <1>8, <1>9, <2>1, MaxType DEF Earned
  <1>11. gold'[p] <= gold[p] + lGold[c] - lGold[p]
    BY <1>2, <1>8, <1>9, MaxType DEF Earned, Paid
  <1>12. gold'[c] + gold'[p] <= gold[c] + gold[p]
    <2>1. gold'[c] \in Nat /\ gold'[p] \in Nat
      BY <1>1, MaxType
    <2> QED BY <1>9, <1>10, <1>11, <2>1
  <1>13. Cardinality(Coins(Char, gold')) <= Cardinality(Coins(Char, gold))
    <2> DEFINE h == gold'
    <2>1. /\ h \in [Char -> 0..GoldMax] /\ h[c] + h[p] <= gold[c] + gold[p]
          /\ \A x \in Char \ {c, p} : gold[x] = h[x]
      BY <1>8, <1>12
    <2> HIDE DEF h, p
    <2>2. Cardinality(Coins(Char, h)) <= Cardinality(Coins(Char, gold))
      BY <1>1, <1>3, <2>1, CoinsOfTwo
    <2> QED BY <2>2 DEF h
  <1>14. Cardinality(Coins(Char, gold)) \in Nat /\ Cardinality(Coins(DOMAIN floor, floor)) \in Nat
    BY WealthType
  <1>15. Cardinality(Coins(Char, gold')) \in Nat
    BY MaxType, CoinsFinite
  <1>16. Wealth' = Cardinality(Coins(DOMAIN floor, floor)) + Cardinality(Coins(Char, gold'))
    BY <1>6 DEF Wealth
  <1> QED BY <1>13, <1>14, <1>15, <1>16 DEF Wealth

LEMMA DropWealth ==
    ASSUME TypeOK, NEW c \in Char, NEW n \in 1..GoldMax, DropGold(c, n)
    PROVE  Wealth' <= Wealth
  <1>1. gold \in [Char -> 0..GoldMax] /\ floor \in Seq(1..GoldMax)
    BY DEF TypeOK
  <1> DEFINE h == [gold EXCEPT ![c] = gold[c] - n]
             t == Append(floor, n)
  <1>2. n <= gold[c] /\ gold[c] \in Nat /\ n \in Nat /\ gold[c] - n \in 0..GoldMax
    BY <1>1, MaxType DEF DropGold
  <1>3. gold' = h /\ floor' = t
    <2>1. Paid(gold[c], n) = gold[c] - n
      BY <1>2 DEF Paid
    <2>2. gold' = [gold EXCEPT ![c] = Paid(gold[c], n)] /\ floor' = t
      BY <1>1 DEF DropGold
    <2> QED BY <2>1, <2>2
  <1>4. h[c] = gold[c] - n /\ \A x \in Char \ {c} : gold[x] = h[x]
    BY <1>1
  <1> HIDE DEF h, t
  <1>5. Cardinality(Coins(Char, h)) = Cardinality(Coins(Char, gold)) - gold[c] + h[c]
    <2>1. gold[c] \in 0..GoldMax /\ h[c] \in 0..GoldMax
      BY <1>1, <1>2, <1>4
    <2>2. IsFiniteSet(Char)
      BY MaxType
    <2> QED BY <1>4, <2>1, <2>2, CoinsOf
  <1>6. Cardinality(Coins(DOMAIN t, t)) = Cardinality(Coins(DOMAIN floor, floor)) + n
    BY <1>1, CoinsAppend DEF t
  <1>7. Wealth' = Cardinality(Coins(DOMAIN t, t)) + Cardinality(Coins(Char, h))
    BY <1>3 DEF Wealth
  <1> QED BY <1>2, <1>4, <1>5, <1>6, <1>7, WealthType DEF Wealth

LEMMA PickupWealth ==
    ASSUME TypeOK, NEW c \in Char, NEW k \in DOMAIN floor, PickupGold(c, k)
    PROVE  Wealth' <= Wealth
  <1>1. gold \in [Char -> 0..GoldMax] /\ floor \in Seq(1..GoldMax)
    BY DEF TypeOK
  <1> DEFINE n == floor[k]
             h == [gold EXCEPT ![c] = Earned(gold[c], n)]
             t == RemoveAt(floor, k)
  <1>2. gold' = h /\ floor' = t
    BY DEF PickupGold
  <1>3. /\ n \in 1..GoldMax /\ Cardinality(Coins(DOMAIN t, t)) \in Nat
        /\ Cardinality(Coins(DOMAIN t, t)) + n <= Cardinality(Coins(DOMAIN floor, floor))
    BY <1>1, CoinsRemove
  <1>4. /\ h[c] = Earned(gold[c], n) /\ gold[c] \in 0..GoldMax
        /\ \A x \in Char \ {c} : gold[x] = h[x]
    BY <1>1
  <1> HIDE DEF n, h, t
  <1>5. h[c] \in 0..GoldMax /\ h[c] <= gold[c] + n
    BY <1>3, <1>4, MaxType DEF Earned
  <1>6. Cardinality(Coins(Char, h)) = Cardinality(Coins(Char, gold)) - gold[c] + h[c]
    <2>1. IsFiniteSet(Char)
      BY MaxType
    <2> QED BY <1>4, <1>5, <2>1, CoinsOf
  <1>7. Wealth' = Cardinality(Coins(DOMAIN t, t)) + Cardinality(Coins(Char, h))
    BY <1>2 DEF Wealth
  <1> QED BY <1>3, <1>4, <1>5, <1>6, <1>7, WealthType, MaxType DEF Wealth

LEMMA WealthNext ==
    ASSUME IInv, TypeOK, TypeOK', [Next]_vars
    PROVE  Wealth' <= Wealth
  <1>1. gold' \in [Char -> 0..GoldMax]
    BY DEF TypeOK
  <1>2. CASE UNCHANGED <<gold, floor>>
    BY <1>2, SameWealth
  <1>3. ASSUME NEW c \in Char, NEW n \in 1..GoldMax, DropGold(c, n) PROVE Wealth' <= Wealth
    BY <1>3, DropWealth
  <1>4. ASSUME NEW c \in Char, NEW k \in DOMAIN floor, PickupGold(c, k) PROVE Wealth' <= Wealth
    BY <1>4, PickupWealth
  <1>5. ASSUME NEW c \in Char, AcceptSecond(c) PROVE Wealth' <= Wealth
    <2>1. company[c] # None /\ (End(c, Now(c)) \/ Trade(c))
      BY <1>5 DEF AcceptSecond, Trade
    <2>2. CASE End(c, Now(c))
      <3>1. UNCHANGED <<gold, floor>>
        BY <2>2 DEF End, Now
      <3> QED BY <3>1, SameWealth
    <2>3. CASE Trade(c)
      BY <1>1, <2>1, <2>3, TradeWealth
    <2> QED BY <2>1, <2>2, <2>3
  <1>6. ASSUME NEW c \in Char, Cancel(c) PROVE UNCHANGED <<gold, floor>>
    BY <1>6 DEF Cancel, End, Now
  <1>7. ASSUME NEW c \in Char,
               \/ \E victim \in Char : Start(c, victim)
               \/ \E i \in Item : AddItem(c, i) \/ DropItem(c, i) \/ PickupItem(c, i)
               \/ \E n \in Slot : RemoveItem(c, n)
               \/ \E n \in 1..GoldMax : AddGold(c, n)
               \/ AcceptFirst(c)
               \/ \E i \in Item, n \in Cell : MoveItem(c, i, n)
               \/ ReqSafeboxLoad(c) \/ SafeboxLoad(c) \/ CloseSafebox(c)
        PROVE  UNCHANGED <<gold, floor>>
    BY <1>7 DEF Start, AddItem, DropItem, PickupItem, RemoveItem, AddGold, AcceptFirst, MoveItem,
        ReqSafeboxLoad, SafeboxLoad, CloseSafebox, SetSafebox
  <1>8. ASSUME NEW i \in Item, Expire(i) PROVE UNCHANGED <<gold, floor>>
    BY <1>8 DEF Expire
  <1>9. CASE UNCHANGED vars
    BY <1>2, <1>9 DEF vars
  <1>10. CASE Next
    BY <1>2, <1>3, <1>4, <1>5, <1>6, <1>7, <1>8, <1>10 DEF Next
  <1> QED BY <1>9, <1>10

(* No step makes gold: a side that pays has what it pays, whatever it did  *)
(* with its gold since it was offered (CExchange::Check, Done, PointChange).*)
THEOREM GoldNeverMade == Spec => NoGoldMade
  <1>1. ASSUME IInv, TypeOK, TypeOK', [Next]_vars PROVE [Wealth' <= Wealth]_vars
    BY <1>1, WealthNext
  <1> QED BY <1>1, Invariance, TypeCorrect, PTL DEF Spec, NoGoldMade

=============================================================================
