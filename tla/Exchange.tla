------------------------------ MODULE Exchange ------------------------------
(***************************************************************************)
(* The exchange of two characters on a game core: what they offer, how     *)
(* they accept, and how items and gold change hands, while the rest of     *)
(* their game goes on: items are moved, dropped, picked up and expire,     *)
(* gold is dropped and picked up, and a safebox that was asked for opens.  *)
(* Left out: counts of stacked items, items that may not be given, the     *)
(* layout of the exchange window (its grid fills before its slots do), and *)
(* the waiting times between a safebox and an exchange.                    *)
(***************************************************************************)
EXTENDS Naturals, Sequences, FiniteSets, SequencesExt, FiniteSetsExt

CONSTANTS Char,          \* characters
          Item,          \* items
          Size,          \* cells of each, below each other
          Cols, Rows,    \* a page of the inventory (5 and 9)
          Pages,         \* pages of the inventory (3)
          Slots,         \* EXCHANGE_ITEM_MAX_NUM (12)
          GoldMax,       \* GOLD_MAX
          IntMax,        \* the largest int
          None,          \* mark: nobody, nothing
          Ground, Gone,  \* where an item is that nobody carries
          FirstOwner, FirstCell, FirstGold, FirstFloor, \* what there is at first
          MaxExchanges,  \* bound: exchanges that come to an end
          MaxMeanwhile   \* bound: things that happen beside them

Cell == 0 .. Cols * Rows * Pages - 1
Slot == 1..Slots

(* The cells of an item of size s whose first cell is n.                   *)
Area(n, s) == {n + Cols * k : k \in 0 .. s - 1}

PageOf(n) == n \div (Cols * Rows)

(* IsEmptyItemGrid: cells of one page that no other item takes.            *)
Fits(taken, n, s) ==
    /\ Area(n, s) \subseteq Cell
    /\ \A m \in Area(n, s) : PageOf(m) = PageOf(n)
    /\ Area(n, s) \cap taken = {}

ASSUME ExchangeAssumption ==
    /\ Cols \in Nat \ {0} /\ Rows \in Nat \ {0} /\ Pages \in Nat \ {0}
    /\ Size \in [Item -> 1..Rows]
    /\ IsFiniteSet(Char)
    /\ Slots \in Nat /\ MaxExchanges \in Nat /\ MaxMeanwhile \in Nat
    /\ GoldMax \in Nat /\ IntMax \in Nat /\ GoldMax <= IntMax
    /\ None \notin Char \cup Item \cup Cell /\ Ground \notin Char /\ Gone \notin Char
    /\ Ground # Gone
    /\ FirstOwner \in [Item -> Char \cup {Ground}]
    /\ FirstCell \in [Item -> Cell]
    /\ FirstGold \in [Char -> 0..GoldMax] /\ FirstFloor \in Seq(1..GoldMax)

Carried(own, c) == {i \in Item : own[i] = c}

Taken(own, at, c) == UNION {Area(at[i], Size[i]) : i \in Carried(own, c)}

(* Items within a page each, none on a cell of another of its owner.      *)
LaidOut(own, at) ==
    \A c \in Char : \A i \in Carried(own, c) :
        /\ Fits({}, at[i], Size[i])
        /\ \A j \in Carried(own, c) \ {i} : Area(at[i], Size[i]) \cap Area(at[j], Size[j]) = {}

ASSUME FirstAssumption == LaidOut(FirstOwner, FirstCell)

VARIABLES
    owner,      \* who carries an item, or where it is
    cell,       \* the first cell of a carried item
    exchanging, \* items with m_bExchanging
    company,    \* the partner in an exchange (m_pkExchange, m_pCompany)
    slots,      \* m_apItems and m_aItemPos
    lGold,      \* m_lGold
    accepted,   \* m_bAccept
    gold,
    floor,      \* the pieces of gold that lie on the ground
    safebox,    \* "closed", "asked" or "open"
    ended, meanwhile

exchange == <<company, slots, lGold, accepted>>
vars == <<owner, cell, exchanging, exchange, gold, floor, safebox, ended, meanwhile>>

Empty == [item |-> None, cell |-> 0]

TypeOK ==
    /\ owner \in [Item -> Char \cup {Ground, Gone}]
    /\ cell \in [Item -> Cell]
    /\ exchanging \subseteq Item
    /\ company \in [Char -> Char \cup {None}]
    /\ slots \in [Char -> [Slot -> [item : Item \cup {None}, cell : Cell]]]
    /\ lGold \in [Char -> 0..GoldMax]
    /\ accepted \subseteq Char
    /\ gold \in [Char -> 0..GoldMax]
    /\ floor \in Seq(1..GoldMax)
    /\ safebox \in [Char -> {"closed", "asked", "open"}]
    /\ ended \in Nat /\ meanwhile \in 0..MaxMeanwhile

Init ==
    /\ owner = FirstOwner /\ cell = FirstCell
    /\ exchanging = {}
    /\ company = [c \in Char |-> None]
    /\ slots = [c \in Char |-> [n \in Slot |-> Empty]]
    /\ lGold = [c \in Char |-> 0]
    /\ accepted = {}
    /\ gold = FirstGold /\ floor = FirstFloor
    /\ safebox = [c \in Char |-> "closed"]
    /\ ended = 0 /\ meanwhile = 0

Room(taken, s) == {n \in Cell : Fits(taken, n, s)}

(* m_apItems                                                               *)
OfferedItems(c) == {slots[c][n].item : n \in Slot} \ {None}

(* Mutant: no MINMAX.                                                      *)
EarnedUncapped(g, n) == g + n

(* PointChange(POINT_GOLD): an int that overflows is negative, and comes   *)
(* out as nothing.                                                         *)
Earned(g, n) == IF g + n > IntMax THEN 0 ELSE IF g + n > GoldMax THEN GoldMax ELSE g + n

Paid(g, n) == IF n > g THEN 0 ELSE g - n

-----------------------------------------------------------------------------
(* The exchange                                                            *)

MayExchange(c) == company[c] = None /\ safebox[c] # "open"

(* CInputMain::Exchange START, ExchangeStart                               *)
Start(c, victim) ==
    /\ ended < MaxExchanges
    /\ c # victim
    /\ gold[c] < GoldMax
    /\ MayExchange(c) /\ MayExchange(victim)
    /\ company' = [company EXCEPT ![c] = victim, ![victim] = c]
    /\ UNCHANGED <<owner, cell, exchanging, slots, lGold, accepted, gold, floor, safebox, ended, meanwhile>>

(* Mutant: only the other side's accept is taken back.                     *)
WithoutAcceptOfOther(c) == accepted' = accepted \ {company[c]}

(* An offer may change until the other side has accepted; nobody has       *)
(* accepted then.                                                          *)
MayOffer(c) == company[c] # None /\ company[c] \notin accepted

WithoutAccept(c) == accepted' = accepted \ {c, company[c]}

AddItem(c, i) ==
    LET free == {n \in Slot : slots[c][n].item = None} IN
    /\ MayOffer(c)
    /\ owner[i] = c
    /\ i \notin exchanging
    /\ \E n \in free :
        /\ \A m \in free : n <= m
        /\ slots' = [slots EXCEPT ![c][n] = [item |-> i, cell |-> cell[i]]]
    /\ exchanging' = exchanging \cup {i}
    /\ WithoutAccept(c)
    /\ UNCHANGED <<owner, cell, company, lGold, gold, floor, safebox, ended, meanwhile>>

RemoveItem(c, n) ==
    /\ MayOffer(c)
    /\ slots[c][n].item # None
    /\ slots' = [slots EXCEPT ![c][n] = Empty]
    /\ exchanging' = exchanging \ {slots[c][n].item}
    /\ WithoutAccept(c)
    /\ UNCHANGED <<owner, cell, company, lGold, gold, floor, safebox, ended, meanwhile>>

(* Offered once, if the owner has it and the other side can hold it.       *)
AddGold(c, n) ==
    /\ MayOffer(c)
    /\ gold[company[c]] + n < GoldMax
    /\ n > 0 /\ n <= gold[c]
    /\ lGold[c] = 0
    /\ lGold' = [lGold EXCEPT ![c] = n]
    /\ WithoutAccept(c)
    /\ UNCHANGED <<owner, cell, exchanging, company, slots, gold, floor, safebox, ended, meanwhile>>

(* Mutant: the gold is not looked at again.                                *)
CheckItems(c) ==
    \A n \in Slot : LET s == slots[c][n] IN
        s.item # None => owner[s.item] = c /\ cell[s.item] = s.cell

(* Mutant: the items are not looked at again.                              *)
CheckGold(c) == lGold[c] <= gold[c]

(* CExchange::Check: what was offered is still there.                      *)
Check(c) ==
    /\ lGold[c] <= gold[c]
    /\ \A n \in Slot : LET s == slots[c][n] IN
        s.item # None => owner[s.item] = c /\ cell[s.item] = s.cell

(* Mutant: an item does not take the place that it gets.                   *)
PutNextAtOnce(inv, i) ==
    LET room == Room(inv.taken, Size[i]) IN
    IF room = {} THEN inv ELSE [inv EXCEPT !.put[i] = Min(room)]

(* Each item to the first place that is left for it, if any (FindBlank,    *)
(* GetEmptyInventory).                                                     *)
PutNext(inv, i) ==
    LET room == Room(inv.taken, Size[i]) IN
    IF room = {} THEN inv
    ELSE [taken |-> inv.taken \cup Area(Min(room), Size[i]),
          put   |-> [inv.put EXCEPT ![i] = Min(room)]]

(* What the search makes of c's slots, one after the other.                *)
Search(c, taken) ==
    LET inv[n \in 0..Slots] ==
            IF n = 0 THEN [taken |-> taken, put |-> [i \in Item |-> None]]
            ELSE IF slots[c][n].item = None THEN inv[n - 1]
            ELSE PutNext(inv[n - 1], slots[c][n].item)
    IN  inv

(* The cells that the items get, None where no place was left.             *)
PutAll(c, taken) == Search(c, taken)[Slots].put

(* Mutant: looks into its own inventory.                                   *)
CheckSpaceOwn(c) ==
    \A i \in OfferedItems(c) : PutAll(c, Taken(owner, cell, c))[i] # None

(* CExchange::CheckSpace: in the other's inventory as it stands.           *)
CheckSpace(c) ==
    \A i \in OfferedItems(c) : PutAll(c, Taken(owner, cell, company[c]))[i] # None

(* CExchange::Done: items that find no place are passed over.              *)
Done(w, c) ==
    LET victim == company[c]
        put == PutAll(c, Taken(w.owner, w.cell, victim))
        moved == {i \in OfferedItems(c) : put[i] # None}
    IN  [owner      |-> [i \in Item |-> IF i \in moved THEN victim ELSE w.owner[i]],
         cell       |-> [i \in Item |-> IF i \in moved THEN put[i] ELSE w.cell[i]],
         exchanging |-> w.exchanging \ moved,
         offered    |-> w.offered \ moved,
         gold       |-> [w.gold EXCEPT ![c] = Paid(@, lGold[c]),
                                       ![victim] = Earned(@, lGold[c])]]

(* Mutant: the items that the other side had offered stay blocked.         *)
EndOwn(c, w) ==
    LET both == {c, company[c]} IN
    /\ owner' = w.owner /\ cell' = w.cell /\ gold' = w.gold
    /\ exchanging' = w.exchanging \ (w.offered \cap OfferedItems(c))
    /\ company' = [x \in Char |-> IF x \in both THEN None ELSE company[x]]
    /\ slots' = [x \in Char |-> IF x \in both THEN [n \in Slot |-> Empty] ELSE slots[x]]
    /\ lGold' = [x \in Char |-> IF x \in both THEN 0 ELSE lGold[x]]
    /\ accepted' = accepted \ both
    /\ ended' = ended + 1
    /\ UNCHANGED <<floor, safebox, meanwhile>>

(* CExchange::Cancel on both sides, after what w tells.                    *)
End(c, w) ==
    LET both == {c, company[c]} IN
    /\ owner' = w.owner /\ cell' = w.cell /\ gold' = w.gold
    /\ exchanging' = w.exchanging \ w.offered
    /\ company' = [x \in Char |-> IF x \in both THEN None ELSE company[x]]
    /\ slots' = [x \in Char |-> IF x \in both THEN [n \in Slot |-> Empty] ELSE slots[x]]
    /\ lGold' = [x \in Char |-> IF x \in both THEN 0 ELSE lGold[x]]
    /\ accepted' = accepted \ both
    /\ ended' = ended + 1
    /\ UNCHANGED <<floor, safebox, meanwhile>>

Now(c) == [owner |-> owner, cell |-> cell, exchanging |-> exchanging, gold |-> gold,
           offered |-> OfferedItems(c) \cup OfferedItems(company[c])]

(* CExchange::Accept, of the first and of the second who accepts.          *)
AcceptFirst(c) ==
    /\ company[c] # None
    /\ c \notin accepted /\ company[c] \notin accepted
    /\ accepted' = accepted \cup {c}
    /\ UNCHANGED <<owner, cell, exchanging, company, slots, lGold, gold, floor, safebox, ended, meanwhile>>

(* Without the connection to the DB server there is no trade.              *)
AcceptSecond(c) ==
    LET p == company[c] IN
    /\ p # None
    /\ c \notin accepted /\ p \in accepted
    /\ \E connected \in BOOLEAN :
        IF Check(c) /\ CheckSpace(c) /\ Check(p) /\ CheckSpace(p) /\ connected
        THEN End(c, Done(Done(Now(c), c), p))
        ELSE End(c, Now(c))

(* Also when they are too far apart, one dies, warps or disconnects.       *)
Cancel(c) == company[c] # None /\ End(c, Now(c))

-----------------------------------------------------------------------------
(* Meanwhile                                                               *)

Meanwhile ==
    /\ meanwhile < MaxMeanwhile
    /\ meanwhile' = meanwhile + 1
    /\ UNCHANGED <<exchange, safebox, ended>>

MoveItem(c, i, n) ==
    /\ Meanwhile
    /\ owner[i] = c
    /\ i \notin exchanging
    /\ Fits(Taken(owner, cell, c) \ Area(cell[i], Size[i]), n, Size[i])
    /\ cell' = [cell EXCEPT ![i] = n]
    /\ UNCHANGED <<owner, exchanging, gold, floor>>

DropItem(c, i) ==
    /\ Meanwhile
    /\ owner[i] = c
    /\ i \notin exchanging
    /\ owner' = [owner EXCEPT ![i] = Ground]
    /\ cell' = [cell EXCEPT ![i] = 0]
    /\ UNCHANGED <<exchanging, gold, floor>>

PickupItem(c, i) ==
    LET room == Room(Taken(owner, cell, c), Size[i]) IN
    /\ Meanwhile
    /\ owner[i] = Ground
    /\ room # {}
    /\ owner' = [owner EXCEPT ![i] = c]
    /\ cell' = [cell EXCEPT ![i] = Min(room)]
    /\ UNCHANGED <<exchanging, gold, floor>>

(* ITEM_MANAGER::RemoveItem, by a timer of the item; an exchange does not  *)
(* hear of it.                                                             *)
Expire(i) ==
    /\ Meanwhile
    /\ owner[i] \in Char
    /\ owner' = [owner EXCEPT ![i] = Gone]
    /\ cell' = [cell EXCEPT ![i] = 0]
    /\ exchanging' = exchanging \ {i}
    /\ UNCHANGED <<gold, floor>>

DropGold(c, n) ==
    /\ Meanwhile
    /\ n > 0 /\ n <= gold[c]
    /\ gold' = [gold EXCEPT ![c] = Paid(@, n)]
    /\ floor' = Append(floor, n)
    /\ UNCHANGED <<owner, cell, exchanging>>

(* PickupItem of a piece of gold, GiveGold                                 *)
PickupGold(c, k) ==
    /\ Meanwhile
    /\ gold' = [gold EXCEPT ![c] = Earned(@, floor[k])]
    /\ floor' = RemoveAt(floor, k)
    /\ UNCHANGED <<owner, cell, exchanging>>

-----------------------------------------------------------------------------
(* The safebox, whose content comes from the DB server                     *)

ReqSafeboxLoad(c) ==
    /\ meanwhile < MaxMeanwhile
    /\ meanwhile' = meanwhile + 1
    /\ safebox[c] = "closed"
    /\ safebox' = [safebox EXCEPT ![c] = "asked"]
    /\ UNCHANGED <<owner, cell, exchanging, exchange, gold, floor, ended>>

SetSafebox(c, from, to) ==
    /\ safebox[c] = from
    /\ safebox' = [safebox EXCEPT ![c] = to]
    /\ UNCHANGED <<owner, cell, exchanging, exchange, gold, floor, ended, meanwhile>>

(* Mutant: opens whatever has begun since it was asked for.                *)
SafeboxLoadAnyway(c) == SetSafebox(c, "asked", "open")

(* CInputDB::SafeboxLoad: refused in an exchange.                          *)
SafeboxLoad(c) == SetSafebox(c, "asked", IF company[c] = None THEN "open" ELSE "closed")

CloseSafebox(c) == SetSafebox(c, "open", "closed")

-----------------------------------------------------------------------------

Next ==
    \/ \E c \in Char :
        \/ \E victim \in Char : Start(c, victim)
        \/ \E i \in Item : AddItem(c, i) \/ DropItem(c, i) \/ PickupItem(c, i)
        \/ \E n \in Slot : RemoveItem(c, n)
        \/ \E n \in 1..GoldMax : AddGold(c, n) \/ DropGold(c, n)
        \/ AcceptFirst(c) \/ AcceptSecond(c) \/ Cancel(c)
        \/ \E i \in Item, n \in Cell : MoveItem(c, i, n)
        \/ \E k \in DOMAIN floor : PickupGold(c, k)
        \/ ReqSafeboxLoad(c) \/ SafeboxLoad(c) \/ CloseSafebox(c)
    \/ \E i \in Item : Expire(i)

Spec == Init /\ [][Next]_vars

-----------------------------------------------------------------------------
(* Properties                                                              *)

(* No two items of a character take the same cell, however the places were *)
(* found, and none goes over the end of its page.                          *)
Apart == LaidOut(owner, cell)

(* Exactly the items in the slots of running exchanges, as far as they     *)
(* still exist, cannot be used otherwise: none stays blocked after the     *)
(* end, and none is offered twice or taken away under an offer.            *)
Blocked ==
    /\ exchanging = (UNION {OfferedItems(c) : c \in Char}) \ {i \in Item : owner[i] = Gone}
    /\ \A c \in Char : OfferedItems(c) \subseteq Carried(owner, c) \cup {i \in Item : owner[i] = Gone}

(* Whoever is in an exchange is so with one other, who is in it with him,  *)
(* and has no safebox open, even one that was asked for before.            *)
Paired ==
    \A c \in Char : company[c] # None =>
        company[c] # c /\ company[company[c]] = c /\ safebox[c] # "open"

(* What one has accepted stays as it is as long as the accept counts.      *)
AcceptedStands ==
    [][\A c \in accepted \cap accepted' : \A x \in {c, company[c]} :
        slots'[x] = slots[x] /\ lGold'[x] = lGold[x]]_vars

(* What c offers c still has: nothing that expired since.                  *)
StillHas(c) == \A i \in OfferedItems(c) : owner[i] = c

(* When an exchange ends, what c offers becomes the partner's.             *)
Gives(c) == \A i \in OfferedItems(c) : owner'[i] = company[c]

(* ... and both have the gold that they should have.                       *)
GoldRight(c) == gold'[c] + lGold[c] = gold[c] + lGold[company[c]]

(* Can c hold the gold that is offered to it, on top of its own.           *)
HoldsGold(c) == gold[c] + lGold[company[c]] <= GoldMax

OneSize(c) == Cardinality({Size[i] : i \in OfferedItems(c)}) <= 1

(* An exchange changes nothing at its end or does what both have accepted, *)
(* and then with items that still exist. Except: gold beyond GOLD_MAX is   *)
(* lost; and who accepted first may keep some of its items when they       *)
(* differ in size and the other gives some, because the places that become *)
(* free mislead the search for blanks.                                     *)
AllOrNothing ==
    [][\A c \in Char \ accepted : company[c] # None /\ company'[c] = None =>
        LET p == company[c] IN
        \/ owner' = owner /\ cell' = cell /\ gold' = gold
        \/ /\ p \in accepted
           /\ StillHas(c) /\ StillHas(p)
           /\ Gives(c)
           /\ OneSize(p) \/ OfferedItems(c) = {} => Gives(p)
           /\ HoldsGold(c) /\ HoldsGold(p) => GoldRight(c) /\ GoldRight(p)]_vars

(* The gold that the elements of S have, coin by coin.                     *)
Coins(S, g) == {x \in S \X (1..GoldMax) : x[2] <= g[x[1]]}

Wealth == Cardinality(Coins(DOMAIN floor, floor)) + Cardinality(Coins(Char, gold))

(* No step makes gold.                                                     *)
NoGoldMade == [][Wealth' <= Wealth]_vars
=============================================================================
