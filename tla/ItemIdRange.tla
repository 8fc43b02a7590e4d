----------------------------- MODULE ItemIdRange -----------------------------
(***************************************************************************)
(* How item ids are leased.  The DB cache server cuts the 32-bit id space  *)
(* into slots of cs_dwMinimumRange ids (ItemIDRangeManager.cpp), keeps the *)
(* unleased ones in m_listData and gives every game core that boots two of *)
(* them, the current range and a spare (QUERY_BOOT, Peer.cpp).  A game     *)
(* core numbers its new items from its current range, switches to the      *)
(* spare when the range is full and asks for another spare                 *)
(* (item_manager_idrange.cpp).  One further interval belongs to the DB     *)
(* server itself, for the items it awards (InitializeNowItemID).           *)
(*                                                                         *)
(* A CPeer is the DB server's end of a connection; it outlives the game    *)
(* core at the other end until the server sees the end of file.  Messages  *)
(* of one connection are delivered in order, and are lost with it.         *)
(*                                                                         *)
(* Operators named after a fault (GetRangeBack, IsUsedUpLate, ...) are the *)
(* mutants that show which fault each property would catch; no action uses *)
(* them.                                                                   *)
(***************************************************************************)
EXTENDS Integers, Sequences, FiniteSets

CONSTANTS
    Core,                   \* game core processes
    Peer,                   \* CPeer objects of the DB server
    NoPeer,                 \* m_sock == INVALID_SOCKET
    cs_dwMinimumRange,      \* ids in a slot (10,000,000 in the code)
    cs_dwMinimumRemainCount,\* free ids a slot needs to be leased (10,000)
    SlotCount,              \* slots below cs_dwMaxItemID (427)
    AwardMin, AwardMax,     \* the DB server's own interval (2.0e9 .. 2.1e9)
    MaxSaved                \* bound of the model: rows of table item

ASSUME RangeAssumption ==
    /\ cs_dwMinimumRange \in Nat /\ cs_dwMinimumRemainCount \in Nat
    /\ 0 < cs_dwMinimumRemainCount
    /\ cs_dwMinimumRemainCount < cs_dwMinimumRange
    /\ SlotCount \in Nat /\ MaxSaved \in Nat

ASSUME AwardAssumption ==
    /\ AwardMin \in Nat /\ AwardMax \in Nat
    /\ 0 < AwardMin /\ AwardMin < AwardMax

\* The interval is cut where slots are: 200 * 10,000,000 .. 210 * 10,000,000.
ASSUME AwardAligned ==
    /\ AwardMin % cs_dwMinimumRange = 0
    /\ AwardMax % cs_dwMinimumRange = 0

ASSUME PeerAssumption == NoPeer \notin Peer

VARIABLES
    db,         \* the DB server process: "down", "building", "serving"
    buildPos,   \* the index i of the loop of CItemIDRangeManager::Build
    m_listData, \* CItemIDRangeManager::m_listData
    award,      \* CClientManager::m_itemRange
    peer,       \* the two ranges of each CPeer, and whether it is in m_peerList
    toDb,       \* packets from a game core, by connection
    toCore,     \* packets to a game core, by connection
    core,       \* ITEM_MANAGER of each game core, and its process
    sock,       \* the connection db_clientdesc of each game core
    cached,     \* ids of items the DB server holds and has not yet written
    item        \* ids of the rows of the SQL table item

dbVars == <<db, buildPos, m_listData, award, peer>>
netVars == <<toDb, toCore>>
coreVars == <<core, sock>>
itemVars == <<cached, item>>
vars == <<db, buildPos, m_listData, award, peer, toDb, toCore, core, sock,
          cached, item>>

-----------------------------------------------------------------------------
(* TItemIDRangeTable.  A range with a zero field is "no range".            *)

Range == [dwMin : Nat, dwMax : Nat, dwUsableItemIDMin : Nat]

NoRange == [dwMin |-> 0, dwMax |-> 0, dwUsableItemIDMin |-> 0]

IsSet(r) == r.dwMin # 0 /\ r.dwMax # 0 /\ r.dwUsableItemIDMin # 0

SlotMin(i) == cs_dwMinimumRange * (i + 1) + 1
SlotMax(i) == cs_dwMinimumRange * (i + 2)

\* The range BuildRange fills in, as a set: empty when it returns false.  The
\* usable part starts after SELECT MAX(id), which sees the SQL table only.
BuildRange(dwMin, dwMax) ==
    { [dwMin |-> dwMin, dwMax |-> dwMax, dwUsableItemIDMin |-> u] :
        u \in { v \in dwMin .. dwMax :
                  /\ v = dwMin \/ v - 1 \in item
                  /\ (v .. dwMax) \cap item = {}
                  /\ dwMax - v >= cs_dwMinimumRemainCount } }

\* push_back what BuildRange built, as UpdateRange and the body of Build do.
PushBuilt(list, built) ==
    IF built = {} THEN m_listData' = list
    ELSE \E r \in built : m_listData' = Append(list, r)

\* GetRange: the front of the list, or NoRange.  Its collision check never
\* rejects one: for_each_peer takes the functor by value, so the copy it
\* returns, not f, would carry hasCollision.
GetRangeBack(list) == IF list = <<>> THEN NoRange ELSE list[Len(list)]
GetRange(list) == IF list = <<>> THEN NoRange ELSE Head(list)
PopRangeKept(list) == list
PopRange(list) == IF list = <<>> THEN <<>> ELSE Tail(list)

\* SetItemIDRange, SetSpareItemIDRange: keep the old range if the new is unset.
Assign(old, new) == IF IsSet(new) THEN new ELSE old

BootRequest == [type |-> "BOOT"]
SpareRequest == [type |-> "REQ_SPARE"]
BootReplySwapped(r, s) == [type |-> "BOOT", range |-> s, spare |-> r]
BootReply(r, s) == [type |-> "BOOT", range |-> r, spare |-> s]
SpareReply(s) == [type |-> "ACK_SPARE", spare |-> s]

Request == {BootRequest, SpareRequest}
Reply == [type : {"BOOT"}, range : Range, spare : Range]
             \cup [type : {"ACK_SPARE"}, spare : Range]

-----------------------------------------------------------------------------
PeerState == [open : BOOLEAN, m_itemRange : Range, m_itemSpareRange : Range]

ClosedPeer == [open |-> FALSE, m_itemRange |-> NoRange,
               m_itemSpareRange |-> NoRange]
NewPeer == [ClosedPeer EXCEPT !.open = TRUE]

CoreState == [on : BOOLEAN, bSentBoot : BOOLEAN, m_ItemIDRange : Range,
              m_ItemIDSpareRange : Range, m_dwCurrentID : Nat]

OffCore == [on |-> FALSE, bSentBoot |-> FALSE, m_ItemIDRange |-> NoRange,
            m_ItemIDSpareRange |-> NoRange, m_dwCurrentID |-> 0]

Init ==
    /\ db = "down" /\ buildPos = 0 /\ m_listData = <<>> /\ award = NoRange
    /\ peer = [p \in Peer |-> ClosedPeer]
    /\ toDb = [p \in Peer |-> <<>>] /\ toCore = [p \in Peer |-> <<>>]
    /\ core = [c \in Core |-> OffCore] /\ sock = [c \in Core |-> NoPeer]
    /\ cached = {} /\ item = {}

-----------------------------------------------------------------------------
(* The DB server starts, and builds m_listData slot by slot.               *)

DbStart ==
    /\ db = "down"
    /\ db' = "building" /\ buildPos' = 0 /\ m_listData' = <<>>
    /\ award' \in BuildRange(AwardMin, AwardMax)
    /\ UNCHANGED <<peer, netVars, coreVars, itemVars>>

InAwardRange(i) == award.dwMin <= SlotMin(i) /\ award.dwMax >= SlotMax(i)

MoreSlotsOffByOne == buildPos <= SlotCount
MoreSlots == buildPos < SlotCount

BuildSlot ==
    /\ db = "building" /\ MoreSlots
    /\ IF InAwardRange(buildPos)
         THEN UNCHANGED m_listData
         ELSE PushBuilt(m_listData,
                        BuildRange(SlotMin(buildPos), SlotMax(buildPos)))
    /\ buildPos' = buildPos + 1
    /\ UNCHANGED <<db, award, peer, netVars, coreVars, itemVars>>

Serve ==
    /\ db = "building" /\ ~MoreSlots
    /\ db' = "serving"
    /\ UNCHANGED <<buildPos, m_listData, award, peer, netVars, coreVars,
                   itemVars>>

\* The packets of connection p, after its first one is read.
ReadRequest(p) == toDb' = [toDb EXCEPT ![p] = Tail(@)]

Pending(p, req) == peer[p].open /\ toDb[p] # <<>> /\ Head(toDb[p]) = req

QUERY_BOOT(p) ==
    LET r == GetRange(m_listData)
        s == GetRange(PopRange(m_listData))
    IN  /\ db = "serving" /\ Pending(p, BootRequest)
        /\ ReadRequest(p)
        /\ m_listData' = PopRange(PopRange(m_listData))
        /\ peer' = [peer EXCEPT ![p] =
               [open |-> TRUE,
                m_itemRange |-> Assign(peer[p].m_itemRange, r),
                m_itemSpareRange |-> Assign(peer[p].m_itemSpareRange, s)]]
        /\ toCore' = [toCore EXCEPT ![p] = Append(@, BootReply(r, s))]
        /\ UNCHANGED <<db, buildPos, award, coreVars, itemVars>>

\* The spare the game core has switched to becomes the current range, and the
\* list gives a new spare.  A list that is empty leaves the peer without one.
SendSpareItemIDRange(p) ==
    LET spare == peer[p].m_itemSpareRange
        sent == Assign(NoRange, IF IsSet(spare) THEN GetRange(m_listData)
                                ELSE spare)
    IN  /\ db = "serving" /\ Pending(p, SpareRequest)
        /\ ReadRequest(p)
        /\ m_listData' = IF IsSet(spare) THEN PopRange(m_listData)
                         ELSE m_listData
        /\ peer' = [peer EXCEPT ![p] =
               [open |-> TRUE,
                m_itemRange |-> Assign(peer[p].m_itemRange, spare),
                m_itemSpareRange |-> sent]]
        /\ toCore' = [toCore EXCEPT ![p] = Append(@, SpareReply(sent))]
        /\ UNCHANGED <<db, buildPos, award, coreVars, itemVars>>

\* The end of file of a connection: no game core is at its other end.
DisconnectedAlways(p) == peer[p].open
Disconnected(p) == peer[p].open /\ \A c \in Core : sock[c] # p

\* RemovePeer, once the other end is gone: ~CPeer calls OnClose, which returns
\* the current range, rebuilt from the SQL table, and forgets the spare.
RemovePeer(p) ==
    /\ db = "serving" /\ Disconnected(p)
    /\ PushBuilt(m_listData, BuildRange(peer[p].m_itemRange.dwMin,
                                        peer[p].m_itemRange.dwMax))
    /\ peer' = [peer EXCEPT ![p] = ClosedPeer]
    /\ toDb' = [toDb EXCEPT ![p] = <<>>]
    /\ toCore' = [toCore EXCEPT ![p] = <<>>]
    /\ UNCHANGED <<db, buildPos, award, coreVars, itemVars>>

\* RESULT_SAFEBOX_LOAD numbers an awarded item from the server's own interval
\* and inserts its row at once (DirectQuery).
GainItemID ==
    /\ db = "serving" /\ Cardinality(item \cup cached) < MaxSaved
    /\ award.dwUsableItemIDMin <= award.dwMax
    /\ item' = item \cup {award.dwUsableItemIDMin}
    /\ award' = [award EXCEPT !.dwUsableItemIDMin = @ + 1]
    /\ UNCHANGED <<db, buildPos, m_listData, peer, netVars, coreVars, cached>>

\* The write-behind cache writes an item when its flush time has come.
FlushItem(id) ==
    /\ db = "serving" /\ id \in cached
    /\ cached' = cached \ {id} /\ item' = item \cup {id}
    /\ UNCHANGED <<dbVars, netVars, coreVars>>

-----------------------------------------------------------------------------
(* The game cores.                                                         *)

CoreStart(c) ==
    /\ ~core[c].on
    /\ core' = [core EXCEPT ![c].on = TRUE]
    /\ UNCHANGED <<dbVars, netVars, sock, itemVars>>

\* Connect, with AddPeer at the other end.  A process asks for its ranges once:
\* bSentBoot is static, so a connection made again sends no BOOT.
Connect(c, p) ==
    /\ db = "serving" /\ core[c].on /\ sock[c] = NoPeer /\ ~peer[p].open
    /\ sock' = [sock EXCEPT ![c] = p]
    /\ peer' = [peer EXCEPT ![p] = NewPeer]
    /\ toDb' = [toDb EXCEPT ![p] = IF core[c].bSentBoot THEN <<>>
                                   ELSE <<BootRequest>>]
    /\ toCore' = [toCore EXCEPT ![p] = <<>>]
    /\ core' = [core EXCEPT ![c].bSentBoot = TRUE]
    /\ UNCHANGED <<db, buildPos, m_listData, award, itemVars>>

\* The process ends: a crash, or thecore_shutdown.
Exit(c) ==
    /\ core' = [core EXCEPT ![c] = OffCore]
    /\ sock' = [sock EXCEPT ![c] = NoPeer]

Answered(c, type) ==
    /\ core[c].on /\ sock[c] # NoPeer /\ toCore[sock[c]] # <<>>
    /\ Head(toCore[sock[c]]).type = type

\* CInputDB::Boot: SetMaxItemID, SetMaxSpareItemID; either one unset shuts the
\* game core down.
Boot(c) ==
    LET p == sock[c]
        m == Head(toCore[p])
    IN  /\ Answered(c, "BOOT")
        /\ toCore' = [toCore EXCEPT ![p] = Tail(@)]
        /\ IF IsSet(m.range) /\ IsSet(m.spare)
             THEN /\ core' = [core EXCEPT ![c] = [@ EXCEPT
                        !.m_ItemIDRange = m.range,
                        !.m_dwCurrentID = m.range.dwUsableItemIDMin,
                        !.m_ItemIDSpareRange = m.spare]]
                  /\ UNCHANGED sock
             ELSE Exit(c)
        /\ UNCHANGED <<dbVars, toDb, itemVars>>

SetMaxSpareItemID(c) ==
    LET p == sock[c]
        m == Head(toCore[p])
    IN  /\ Answered(c, "ACK_SPARE")
        /\ toCore' = [toCore EXCEPT ![p] = Tail(@)]
        /\ core' = [core EXCEPT ![c].m_ItemIDSpareRange = Assign(@, m.spare)]
        /\ UNCHANGED <<dbVars, toDb, sock, itemVars>>

Booted(c) == core[c].on /\ core[c].m_dwCurrentID # 0

\* GetNewID gives out no id from dwMax on.
IsUsedUpLate(r, id) == id > r.dwMax
IsUsedUp(r, id) == id >= r.dwMax

IsFull(c) == IsUsedUp(core[c].m_ItemIDRange, core[c].m_dwCurrentID)

\* The new item reaches the DB server's cache, or is destroyed before it does.
NewItem(id) ==
    /\ UNCHANGED item
    /\ \/ UNCHANGED cached
       \/ /\ db = "serving" /\ Cardinality(item \cup cached) < MaxSaved
          /\ cached' = cached \cup {id}

\* GetNewID: the next id of the current range.
GetNewID(c) ==
    /\ Booted(c) /\ ~IsFull(c)
    /\ NewItem(core[c].m_dwCurrentID)
    /\ core' = [core EXCEPT ![c].m_dwCurrentID = @ + 1]
    /\ UNCHANGED <<dbVars, netVars, sock>>

\* GetNewID when the range is full: switch to the spare and ask for another.
\* DBPacket drops the request when the game core is not connected.
SwitchToSpare(c) ==
    LET spare == core[c].m_ItemIDSpareRange
    IN  /\ Booted(c) /\ IsFull(c) /\ IsSet(spare)
        /\ NewItem(spare.dwUsableItemIDMin)
        /\ core' = [core EXCEPT ![c] = [@ EXCEPT
                        !.m_ItemIDRange = spare,
                        !.m_dwCurrentID = spare.dwUsableItemIDMin + 1,
                        !.m_ItemIDSpareRange = NoRange]]
        /\ IF sock[c] = NoPeer THEN UNCHANGED toDb
           ELSE toDb' = [toDb EXCEPT ![sock[c]] = Append(@, SpareRequest)]
        /\ UNCHANGED <<dbVars, toCore, sock>>

\* GetNewID when the range is full and there is no spare: shut down.
NoMoreItemID(c) ==
    /\ Booted(c) /\ IsFull(c) /\ ~IsSet(core[c].m_ItemIDSpareRange)
    /\ Exit(c)
    /\ UNCHANGED <<dbVars, netVars, itemVars>>

CoreCrash(c) ==
    /\ core[c].on /\ Exit(c)
    /\ UNCHANGED <<dbVars, netVars, itemVars>>

-----------------------------------------------------------------------------
(* Faults that part a running game core from the DB server.                *)

\* The game core loses its connection (PHASE_CLOSE) and will Connect again.
LoseConnection(c) ==
    /\ core[c].on /\ sock[c] # NoPeer
    /\ sock' = [sock EXCEPT ![c] = NoPeer]
    /\ UNCHANGED <<dbVars, netVars, core, itemVars>>

\* The DB server ends; MainLoop flushes the caches only when it was asked to.
DbEnd(flushed) ==
    /\ db # "down"
    /\ db' = "down" /\ buildPos' = 0 /\ m_listData' = <<>> /\ award' = NoRange
    /\ peer' = [p \in Peer |-> ClosedPeer]
    /\ toDb' = [p \in Peer |-> <<>>] /\ toCore' = [p \in Peer |-> <<>>]
    /\ sock' = [c \in Core |-> NoPeer]
    /\ cached' = {} /\ item' = item \cup flushed
    /\ UNCHANGED core

DbShutdown == db = "serving" /\ DbEnd(cached)

DbCrash == DbEnd({})

-----------------------------------------------------------------------------
PeerStep(p) ==
    QUERY_BOOT(p) \/ SendSpareItemIDRange(p) \/ RemovePeer(p)

CoreStep(c) ==
    \/ CoreStart(c) \/ Boot(c) \/ SetMaxSpareItemID(c) \/ GetNewID(c)
    \/ SwitchToSpare(c) \/ NoMoreItemID(c) \/ CoreCrash(c)
    \/ \E p \in Peer : Connect(c, p)

Attached ==
    \/ DbStart \/ BuildSlot \/ Serve \/ GainItemID
    \/ \E id \in cached : FlushItem(id)
    \/ \E p \in Peer : PeerStep(p)
    \/ \E c \in Core : CoreStep(c)

Parted == DbShutdown \/ DbCrash \/ \E c \in Core : LoseConnection(c)

Next == Attached \/ Parted

Spec == Init /\ [][Next]_vars

\* No running game core is ever parted from the DB server.
AttachedSpec == Init /\ [][Attached]_vars

-----------------------------------------------------------------------------
(* Type correctness.                                                       *)

TypeOK ==
    /\ db \in {"down", "building", "serving"}
    /\ buildPos \in 0 .. SlotCount
    /\ m_listData \in Seq(Range)
    /\ award \in Range
    /\ peer \in [Peer -> PeerState]
    /\ toDb \in [Peer -> Seq(Request)]
    /\ toCore \in [Peer -> Seq(Reply)]
    /\ core \in [Core -> CoreState]
    /\ sock \in [Core -> Peer \cup {NoPeer}]
    /\ cached \subseteq Nat /\ item \subseteq Nat

-----------------------------------------------------------------------------
(* The books of the DB server.  A slot is named by its dwMin.              *)

\* The slots a peer has been given and not returned.
Held(p) == {peer[p].m_itemRange.dwMin, peer[p].m_itemSpareRange.dwMin} \ {0}

\* No slot is in the list twice.
ListDistinct ==
    \A i, j \in 1 .. Len(m_listData) :
        m_listData[i].dwMin = m_listData[j].dwMin => i = j

\* No slot is in the list and with a peer.
ListUnheld ==
    \A i \in 1 .. Len(m_listData), p \in Peer : m_listData[i].dwMin \notin Held(p)

\* No slot is with two peers, nor the current and the spare of one.
HeldOnce ==
    /\ \A p, q \in Peer : p # q => Held(p) \cap Held(q) = {}
    /\ \A p \in Peer : peer[p].m_itemRange.dwMin # 0 =>
           peer[p].m_itemRange.dwMin # peer[p].m_itemSpareRange.dwMin

\* Whatever game cores, connections and the DB server itself do, its books
\* never show one slot in two places: Build, GetRange, SendSpareItemIDRange and
\* OnClose each move a slot, none copies one.
LedgerExclusive == ListDistinct /\ ListUnheld /\ HeldOnce

-----------------------------------------------------------------------------
(* What the game cores will number their items with.                       *)

IdsFrom(r, first) == { id \in first .. r.dwMax : ~IsUsedUp(r, id) }

Usable(r) == IdsFrom(r, r.dwUsableItemIDMin)

Mintable(c) == IdsFrom(core[c].m_ItemIDRange, core[c].m_dwCurrentID)
                   \cup Usable(core[c].m_ItemIDSpareRange)

\* Two game cores never number items from the same ids, as long as none is
\* parted from the DB server: their two ranges follow the books of their peers
\* through boots, spares in flight and crashes.
ExclusiveMint ==
    \A c, d \in Core : c # d => Mintable(c) \cap Mintable(d) = {}

\* The ids of awarded items are never those of a game core, even one that
\* kept its ranges over a restart of the DB server: Build skips the slots of
\* the award interval, and the slot before it shares with it only its dwMax,
\* which GetNewID never gives out (IsUsedUp).
AwardApart ==
    \A c \in Core : Mintable(c) \cap (award.dwMin .. award.dwMax) = {}

\* The state of the two-message exchange on the connection of a game core:
\* what the game core holds is what the books of its peer say it holds.
Agrees(c, p) ==
    \/ /\ toDb[p] = <<BootRequest>> /\ toCore[p] = <<>>
       /\ ~Booted(c) /\ Held(p) = {}
    \/ /\ toDb[p] = <<>> /\ ~Booted(c)
       /\ toCore[p] = <<BootReply(peer[p].m_itemRange,
                                  peer[p].m_itemSpareRange)>>
    \/ /\ toDb[p] = <<>> /\ toCore[p] = <<>> /\ Booted(c)
       /\ core[c].m_ItemIDRange = peer[p].m_itemRange
       /\ core[c].m_ItemIDSpareRange = peer[p].m_itemSpareRange
    \/ /\ toDb[p] = <<SpareRequest>> /\ toCore[p] = <<>> /\ Booted(c)
       /\ core[c].m_ItemIDRange = peer[p].m_itemSpareRange
       /\ core[c].m_ItemIDSpareRange = NoRange
    \/ /\ toDb[p] = <<>> /\ Booted(c)
       /\ toCore[p] = <<SpareReply(peer[p].m_itemSpareRange)>>
       /\ core[c].m_ItemIDRange = peer[p].m_itemRange
       /\ core[c].m_ItemIDSpareRange = NoRange

\* Every connected game core agrees with its peer, as long as none was parted
\* from the DB server: at most one packet about ranges is under way, and the
\* ranges on both sides are those the packet leads from or to.
LeaseAgreement ==
    \A c \in Core : sock[c] # NoPeer => Agrees(c, sock[c])

-----------------------------------------------------------------------------
(* What the code asserts of the ranges it leases.                          *)

\* FCheckCollision and CheckItemIDRangeCollision ("ItemIDRange: Collision!!"):
\* a range that is leased overlaps no range a game core is using.
NoCollision ==
    \A i \in 1 .. Len(m_listData), c \in Core :
        Usable(m_listData[i]) \cap Mintable(c) = {}

\* BuildRange ("have a item"): no row of the table has an id of the usable
\* part of a range that waits to be leased.
LeasesUnusedIds ==
    \A i \in 1 .. Len(m_listData) : Usable(m_listData[i]) \cap item = {}
=============================================================================
