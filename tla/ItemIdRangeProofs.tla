-------------------------- MODULE ItemIdRangeProofs --------------------------
(***************************************************************************)
(* Proofs about ItemIdRange, for any number of game cores, connections and *)
(* slots and for every width of a slot.                                    *)
(***************************************************************************)
EXTENDS ItemIdRange, TLAPS

-----------------------------------------------------------------------------
(* Lemmas about ranges and the list of ranges.                             *)

\* NoRange is a TItemIDRangeTable.
LEMMA NoRangeType == NoRange \in Range
BY DEF NoRange, Range

\* The bounds of a slot are ids.
LEMMA SlotType == ASSUME NEW i \in Nat
                  PROVE  SlotMin(i) \in Nat /\ SlotMax(i) \in Nat
BY RangeAssumption DEF SlotMin, SlotMax

\* What BuildRange fills in: the bounds it was given, and a usable part inside
\* them that leaves at least cs_dwMinimumRemainCount ids.
LEMMA BuildRangeType ==
    ASSUME NEW a \in Nat, NEW b \in Nat, NEW r \in BuildRange(a, b)
    PROVE  /\ r \in Range /\ r.dwMin = a /\ r.dwMax = b
           /\ a <= r.dwUsableItemIDMin /\ r.dwUsableItemIDMin < b
BY RangeAssumption DEF BuildRange, Range

\* Taking the front of a list of ranges leaves ranges.
LEMMA GetRangeType ==
    ASSUME NEW list \in Seq(Range)
    PROVE  GetRange(list) \in Range /\ PopRange(list) \in Seq(Range)
BY NoRangeType DEF GetRange, PopRange

\* Assign keeps the type of what it assigns.
LEMMA AssignType ==
    ASSUME NEW old \in Range, NEW new \in Range
    PROVE  Assign(old, new) \in Range
BY DEF Assign

\* PushBuilt keeps the list, or appends the range that was built.
LEMMA PushBuiltType ==
    ASSUME m_listData \in Seq(Range), NEW a \in Nat, NEW b \in Nat,
           PushBuilt(m_listData, BuildRange(a, b))
    PROVE  /\ m_listData' \in Seq(Range)
           /\ \/ m_listData' = m_listData
              \/ \E r \in BuildRange(a, b) : m_listData' = Append(m_listData, r)
<1>1. CASE BuildRange(a, b) = {}
  BY <1>1 DEF PushBuilt
<1>2. CASE BuildRange(a, b) # {}
  <2>1. PICK r \in BuildRange(a, b) : m_listData' = Append(m_listData, r)
    BY <1>2 DEF PushBuilt
  <2>2. r \in Range
    BY BuildRangeType
  <2> QED BY <2>1, <2>2
<1> QED BY <1>1, <1>2

-----------------------------------------------------------------------------
(* Type correctness.                                                       *)

\* A packet queue whose head was read, or that took one more packet.
LEMMA ToCoreType ==
    ASSUME TypeOK, NEW p \in Peer, NEW m \in Reply,
           toCore' = [toCore EXCEPT ![p] = Append(@, m)]
    PROVE  toCore' \in [Peer -> Seq(Reply)]
BY DEF TypeOK

\* The replies the DB server makes are replies.
LEMMA ReplyType ==
    ASSUME NEW r \in Range, NEW s \in Range
    PROVE  BootReply(r, s) \in Reply /\ SpareReply(s) \in Reply
BY DEF Reply, BootReply, SpareReply

\* The queue of a new connection, and a queue that took one more request.
LEMMA RequestType ==
    /\ <<>> \in Seq(Request) /\ <<BootRequest>> \in Seq(Request)
    /\ \A s \in Seq(Request) : Append(s, SpareRequest) \in Seq(Request)
<1>1. BootRequest \in Request /\ SpareRequest \in Request
  BY DEF Request
<1> QED BY <1>1

\* The number GainItemID leaves behind.
LEMMA GainType ==
    ASSUME NEW r \in Range
    PROVE  [r EXCEPT !.dwUsableItemIDMin = @ + 1] \in Range
BY DEF Range

\* The ids a new item can add to the cache.
LEMMA NewItemType ==
    ASSUME cached \subseteq Nat, item \subseteq Nat, NEW id \in Nat, NewItem(id)
    PROVE  cached' \subseteq Nat /\ item' \subseteq Nat
<1>1. cached' = cached \/ cached' = cached \cup {id}
  BY DEF NewItem
<1> QED BY <1>1 DEF NewItem

\* The head of a non-empty queue of replies, by its type.
LEMMA AnsweredType ==
    ASSUME TypeOK, NEW c \in Core
    PROVE  /\ Answered(c, "BOOT") =>
                /\ Head(toCore[sock[c]]).range \in Range
                /\ Head(toCore[sock[c]]).spare \in Range
           /\ Answered(c, "ACK_SPARE") =>
                Head(toCore[sock[c]]).spare \in Range
<1>1. SUFFICES ASSUME sock[c] # NoPeer, toCore[sock[c]] # <<>>
               PROVE  Head(toCore[sock[c]]) \in Reply
  BY DEF Answered, Reply
<1>2. sock[c] \in Peer
  BY <1>1 DEF TypeOK
<1> QED BY <1>1, <1>2 DEF TypeOK

\* OffCore and ClosedPeer are states of a game core and of a peer.
LEMMA OffType ==
    /\ OffCore \in CoreState
    /\ ClosedPeer \in PeerState
BY NoRangeType DEF OffCore, ClosedPeer, CoreState, PeerState

\* What a game core may set leaves it in a state of a game core.
LEMMA CoreFieldType ==
    ASSUME NEW s \in CoreState, NEW r \in Range, NEW t \in Range, NEW n \in Nat
    PROVE  /\ [s EXCEPT !.m_ItemIDRange = r, !.m_dwCurrentID = n,
                        !.m_ItemIDSpareRange = t] \in CoreState
           /\ [s EXCEPT !.m_ItemIDSpareRange = t] \in CoreState
           /\ [s EXCEPT !.m_dwCurrentID = n] \in CoreState
           /\ [s EXCEPT !.on = TRUE] \in CoreState
           /\ [s EXCEPT !.bSentBoot = TRUE] \in CoreState
BY DEF CoreState

\* The fields of a peer and of a game core.
LEMMA FieldType ==
    ASSUME TypeOK
    PROVE  /\ \A p \in Peer : /\ peer[p] \in PeerState
                             /\ peer[p].m_itemRange \in Range
                             /\ peer[p].m_itemSpareRange \in Range
           /\ \A c \in Core : /\ core[c] \in CoreState
                             /\ core[c].m_ItemIDRange \in Range
                             /\ core[c].m_ItemIDSpareRange \in Range
                             /\ core[c].m_ItemIDSpareRange.dwUsableItemIDMin \in Nat
                             /\ core[c].m_dwCurrentID \in Nat
<1>1. peer \in [Peer -> PeerState] /\ core \in [Core -> CoreState]
  BY DEF TypeOK
<1> QED BY <1>1 DEF PeerState, CoreState, Range

\* The initial states are of the right types.
LEMMA InitType == Init => TypeOK
BY OffType, NoRangeType, RangeAssumption DEF Init, TypeOK

\* Every step of the DB server's own life keeps the types.
LEMMA ServerType ==
    ASSUME TypeOK,
           \/ DbStart \/ BuildSlot \/ Serve \/ GainItemID \/ DbShutdown \/ DbCrash
           \/ \E id \in cached : FlushItem(id)
    PROVE  TypeOK'
<1> USE DEF TypeOK
<1>1. CASE DbStart
  BY <1>1, BuildRangeType, AwardAssumption, RangeAssumption
  DEF DbStart, netVars, coreVars, itemVars
<1>2. CASE BuildSlot
  <2>1. buildPos \in Nat /\ buildPos + 1 \in 0 .. SlotCount
    BY <1>2, RangeAssumption DEF BuildSlot, MoreSlots
  <2>2. m_listData' \in Seq(Range)
    BY <1>2, <2>1, SlotType, PushBuiltType DEF BuildSlot
  <2> QED BY <1>2, <2>1, <2>2 DEF BuildSlot, netVars, coreVars, itemVars
<1>3. CASE Serve
  BY <1>3, RangeAssumption DEF Serve, netVars, coreVars, itemVars
<1>4. CASE GainItemID
  <2>1. award.dwUsableItemIDMin \in Nat
    BY DEF Range
  <2>2. award' \in Range
    BY <1>4, GainType DEF GainItemID
  <2>3. item' \subseteq Nat
    BY <1>4, <2>1 DEF GainItemID
  <2> QED BY <1>4, <2>2, <2>3 DEF GainItemID, netVars, coreVars
<1>5. CASE DbShutdown \/ DbCrash
  <2>1. PICK flushed \in SUBSET Nat : DbEnd(flushed)
    BY <1>5 DEF DbShutdown, DbCrash
  <2> QED BY <2>1, OffType, NoRangeType, RangeAssumption DEF DbEnd
<1>6. CASE \E id \in cached : FlushItem(id)
  BY <1>6 DEF FlushItem, dbVars, netVars, coreVars
<1> QED BY <1>1, <1>2, <1>3, <1>4, <1>5, <1>6

\* Every handler of a peer keeps the types.
LEMMA PeerType ==
    ASSUME TypeOK, NEW p \in Peer, PeerStep(p)
    PROVE  TypeOK'
<1> USE DEF TypeOK
<1>0. /\ peer[p] \in PeerState
      /\ peer[p].m_itemRange \in Range /\ peer[p].m_itemSpareRange \in Range
  BY FieldType
<1>1. CASE QUERY_BOOT(p)
  <2> DEFINE r == GetRange(m_listData)
             s == GetRange(PopRange(m_listData))
  <2>1. /\ r \in Range /\ s \in Range
        /\ PopRange(PopRange(m_listData)) \in Seq(Range)
    BY GetRangeType
  <2> HIDE DEF r, s
  <2>2. toCore' \in [Peer -> Seq(Reply)]
    BY <1>1, <2>1, ToCoreType, ReplyType DEF QUERY_BOOT, r, s
  <2>3. toDb' \in [Peer -> Seq(Request)]
    BY <1>1 DEF QUERY_BOOT, ReadRequest, Pending
  <2>4. peer' \in [Peer -> PeerState]
    <3>1. /\ Assign(peer[p].m_itemRange, r) \in Range
          /\ Assign(peer[p].m_itemSpareRange, s) \in Range
      BY <1>0, <2>1, AssignType
    <3> QED BY <1>1, <3>1 DEF QUERY_BOOT, r, s, PeerState
  <2> QED BY <1>1, <2>1, <2>2, <2>3, <2>4
          DEF QUERY_BOOT, coreVars, itemVars
<1>2. CASE SendSpareItemIDRange(p)
  <2> DEFINE spare == peer[p].m_itemSpareRange
             sent == Assign(NoRange, IF IsSet(spare) THEN GetRange(m_listData)
                                     ELSE spare)
  <2>1. sent \in Range /\ PopRange(m_listData) \in Seq(Range)
    BY <1>0, GetRangeType, AssignType, NoRangeType
  <2>2. Assign(peer[p].m_itemRange, spare) \in Range
    BY <1>0, AssignType
  <2> HIDE DEF sent
  <2>3. toCore' \in [Peer -> Seq(Reply)]
    BY <1>2, <2>1, ToCoreType, ReplyType DEF SendSpareItemIDRange, sent
  <2>4. toDb' \in [Peer -> Seq(Request)]
    BY <1>2 DEF SendSpareItemIDRange, ReadRequest, Pending
  <2>5. peer' \in [Peer -> PeerState]
    BY <1>2, <2>1, <2>2 DEF SendSpareItemIDRange, sent, PeerState
  <2>6. m_listData' \in Seq(Range)
    BY <1>2, <2>1 DEF SendSpareItemIDRange
  <2> QED BY <1>2, <2>3, <2>4, <2>5, <2>6
          DEF SendSpareItemIDRange, coreVars, itemVars
<1>3. CASE RemovePeer(p)
  <2>1. m_listData' \in Seq(Range)
    BY <1>0, <1>3, PushBuiltType DEF RemovePeer, Disconnected, Range
  <2> QED BY <1>3, <2>1, OffType DEF RemovePeer, Disconnected, coreVars, itemVars
<1> QED BY <1>1, <1>2, <1>3 DEF PeerStep

\* A game core's process ends: its state is that of a core that is off.
LEMMA ExitType ==
    ASSUME TypeOK, NEW c \in Core, Exit(c)
    PROVE  /\ core' \in [Core -> CoreState]
           /\ sock' \in [Core -> Peer \cup {NoPeer}]
BY OffType DEF TypeOK, Exit

\* Every step of a game core keeps the types.
LEMMA CoreType ==
    ASSUME TypeOK, NEW c \in Core, CoreStep(c) \/ LoseConnection(c)
    PROVE  TypeOK'
<1> USE DEF TypeOK
<1>0. /\ core[c] \in CoreState
      /\ core[c].m_ItemIDRange \in Range
      /\ core[c].m_ItemIDSpareRange \in Range
      /\ core[c].m_ItemIDSpareRange.dwUsableItemIDMin \in Nat
      /\ core[c].m_dwCurrentID \in Nat
  BY FieldType
<1>1. CASE CoreStart(c) \/ LoseConnection(c)
  BY <1>0, <1>1, CoreFieldType DEF CoreStart, LoseConnection, dbVars, netVars, itemVars
<1>2. CASE \E p \in Peer : Connect(c, p)
  <2>1. PICK p \in Peer : Connect(c, p)
    BY <1>2
  <2>2. toDb' \in [Peer -> Seq(Request)] /\ toCore' \in [Peer -> Seq(Reply)]
    BY <2>1, RequestType DEF Connect
  <2>3. NewPeer \in PeerState
    BY NoRangeType DEF NewPeer, ClosedPeer, PeerState
  <2>4. core' \in [Core -> CoreState]
    BY <1>0, <2>1, CoreFieldType, NoRangeType DEF Connect
  <2> QED BY <2>1, <2>2, <2>3, <2>4 DEF Connect, itemVars
<1>3. CASE Boot(c)
  <2> DEFINE m == Head(toCore[sock[c]])
  <2>1. m.range \in Range /\ m.spare \in Range
    BY <1>3, AnsweredType DEF Boot
  <2>2. m.range.dwUsableItemIDMin \in Nat
    BY <2>1 DEF Range
  <2>3. sock[c] \in Peer /\ toCore' \in [Peer -> Seq(Reply)]
    BY <1>3 DEF Boot, Answered
  <2> HIDE DEF m
  <2>4. CASE Exit(c)
    BY <1>3, <2>3, <2>4, ExitType DEF Boot, dbVars, itemVars
  <2>5. CASE ~Exit(c)
    <3>1. /\ core' = [core EXCEPT ![c] = [@ EXCEPT
                        !.m_ItemIDRange = m.range,
                        !.m_dwCurrentID = m.range.dwUsableItemIDMin,
                        !.m_ItemIDSpareRange = m.spare]]
          /\ UNCHANGED sock
      BY <1>3, <2>5 DEF Boot, m
    <3>2. core' \in [Core -> CoreState]
      BY <1>0, <2>1, <2>2, <3>1, CoreFieldType
    <3> QED BY <1>3, <2>3, <3>1, <3>2 DEF Boot, dbVars, itemVars
  <2> QED BY <2>4, <2>5
<1>4. CASE SetMaxSpareItemID(c)
  <2> DEFINE m == Head(toCore[sock[c]])
  <2>1. m.spare \in Range
    BY <1>4, AnsweredType DEF SetMaxSpareItemID
  <2>2. Assign(core[c].m_ItemIDSpareRange, m.spare) \in Range
    BY <1>0, <2>1, AssignType
  <2>3. toCore' \in [Peer -> Seq(Reply)]
    BY <1>4 DEF SetMaxSpareItemID, Answered
  <2> HIDE DEF m
  <2>4. core' \in [Core -> CoreState]
    BY <1>0, <1>4, <2>2, CoreFieldType DEF SetMaxSpareItemID, m
  <2> QED BY <1>4, <2>3, <2>4 DEF SetMaxSpareItemID, dbVars, itemVars
<1>5. CASE GetNewID(c)
  <2>1. cached' \subseteq Nat /\ item' \subseteq Nat
    BY <1>0, <1>5, NewItemType DEF GetNewID
  <2>2. core' \in [Core -> CoreState]
    <3>1. core[c].m_dwCurrentID + 1 \in Nat
      BY <1>0
    <3> QED BY <1>0, <1>5, <3>1, CoreFieldType DEF GetNewID
  <2> QED BY <1>5, <2>1, <2>2 DEF GetNewID, dbVars, netVars
<1>6. CASE SwitchToSpare(c)
  <2>1. toDb' \in [Peer -> Seq(Request)]
    <3>1. CASE sock[c] = NoPeer
      BY <1>6, <3>1 DEF SwitchToSpare
    <3>2. CASE sock[c] # NoPeer
      <4>1. Append(toDb[sock[c]], SpareRequest) \in Seq(Request)
        BY <3>2, RequestType
      <4> QED BY <1>6, <3>2, <4>1 DEF SwitchToSpare
    <3> QED BY <3>1, <3>2
  <2>2. cached' \subseteq Nat /\ item' \subseteq Nat
    BY <1>0, <1>6, NewItemType DEF SwitchToSpare
  <2>3. core' \in [Core -> CoreState]
    <3>1. core[c].m_ItemIDSpareRange.dwUsableItemIDMin + 1 \in Nat
      BY <1>0
    <3> QED BY <1>0, <1>6, <3>1, CoreFieldType, NoRangeType DEF SwitchToSpare
  <2> QED BY <1>6, <2>1, <2>2, <2>3 DEF SwitchToSpare, dbVars
<1>7. CASE NoMoreItemID(c) \/ CoreCrash(c)
  BY <1>7, ExitType DEF NoMoreItemID, CoreCrash, dbVars, netVars, itemVars
<1> QED BY <1>1, <1>2, <1>3, <1>4, <1>5, <1>6, <1>7 DEF CoreStep

\* Every step keeps the types.
LEMMA NextType == TypeOK /\ [Next]_vars => TypeOK'
<1> SUFFICES ASSUME TypeOK, [Next]_vars PROVE TypeOK'
  OBVIOUS
<1>1. CASE UNCHANGED vars
  BY <1>1 DEF vars, TypeOK
<1>2. CASE \E p \in Peer : PeerStep(p)
  BY <1>2, PeerType
<1>3. CASE \E c \in Core : CoreStep(c) \/ LoseConnection(c)
  BY <1>3, CoreType
<1>4. CASE \/ DbStart \/ BuildSlot \/ Serve \/ GainItemID \/ DbShutdown
           \/ DbCrash \/ \E id \in cached : FlushItem(id)
  BY <1>4, ServerType
<1> QED BY <1>1, <1>2, <1>3, <1>4 DEF Next, Attached, Parted

\* The DB server, the game cores and their packets always have the values
\* their declarations in Peer.h, ItemIDRangeManager.h and item_manager.h allow.
THEOREM TypeCorrect == Spec => []TypeOK
BY InitType, NextType, PTL DEF Spec

-----------------------------------------------------------------------------
(* The books of the DB server.                                             *)

\* Ranges in the list are set, and a range of a peer is set or NoRange.
RangesSet ==
    /\ \A i \in 1 .. Len(m_listData) : m_listData[i].dwMin # 0
    /\ \A p \in Peer : peer[p].m_itemRange.dwMin = 0 =>
                           peer[p].m_itemRange.dwMax = 0

\* While Build runs, the list holds earlier slots only and there is no peer.
Building ==
    /\ db = "building" => \A i \in 1 .. Len(m_listData) :
                              m_listData[i].dwMin < SlotMin(buildPos)
    /\ db # "serving" => \A p \in Peer : Held(p) = {}

LedgerInv == TypeOK /\ LedgerExclusive /\ RangesSet /\ Building

\* The types of what LedgerInv speaks of.
LEMMA LedgerTypes ==
    ASSUME TypeOK
    PROVE  /\ m_listData \in Seq(Range) /\ Len(m_listData) \in Nat
           /\ \A i \in 1 .. Len(m_listData) : /\ m_listData[i] \in Range
                                              /\ m_listData[i].dwMin \in Nat
           /\ \A p \in Peer : /\ peer[p].m_itemRange.dwMin \in Nat
                              /\ peer[p].m_itemRange.dwMax \in Nat
                              /\ peer[p].m_itemSpareRange.dwMin \in Nat
<1>1. /\ m_listData \in Seq(Range) /\ Len(m_listData) \in Nat
      /\ \A i \in 1 .. Len(m_listData) : m_listData[i] \in Range
  BY DEF TypeOK
<1>2. \A r \in Range : r.dwMin \in Nat /\ r.dwMax \in Nat
  BY DEF Range
<1> QED BY <1>1, <1>2, FieldType

\* A step that takes the first k ranges off the list and gives none but those
\* to one peer, keeps the books exclusive.
LEMMA LeaseStep ==
    ASSUME TypeOK, LedgerExclusive, NEW p \in Peer, NEW k \in Nat,
           k <= Len(m_listData),
           Len(m_listData') = Len(m_listData) - k,
           \A i \in 1 .. Len(m_listData') : m_listData'[i] = m_listData[i + k],
           \A q \in Peer \ {p} : peer'[q] = peer[q],
           Held(p)' \subseteq Held(p)
                                \cup {m_listData[i].dwMin : i \in 1 .. k},
           peer'[p].m_itemRange.dwMin # 0 =>
               peer'[p].m_itemRange.dwMin # peer'[p].m_itemSpareRange.dwMin
    PROVE  LedgerExclusive'
<1> USE LedgerTypes
<1>1. ListDistinct'
  <2>1. SUFFICES ASSUME NEW i \in 1 .. Len(m_listData'),
                        NEW j \in 1 .. Len(m_listData'),
                        m_listData'[i].dwMin = m_listData'[j].dwMin
                 PROVE  i = j
    BY DEF ListDistinct
  <2>2. i + k \in 1 .. Len(m_listData) /\ j + k \in 1 .. Len(m_listData)
    OBVIOUS
  <2>3. m_listData[i + k].dwMin = m_listData[j + k].dwMin
    BY <2>1
  <2>4. i + k = j + k
    BY <2>2, <2>3 DEF LedgerExclusive, ListDistinct
  <2> QED BY <2>4
<1>2. \A q \in Peer \ {p} : Held(q)' = Held(q)
  BY DEF Held
<1>3. ListUnheld'
  <2>1. SUFFICES ASSUME NEW i \in 1 .. Len(m_listData'), NEW q \in Peer,
                        m_listData'[i].dwMin \in Held(q)'
                 PROVE  FALSE
    BY DEF ListUnheld
  <2>2. /\ i + k \in 1 .. Len(m_listData)
        /\ m_listData'[i].dwMin = m_listData[i + k].dwMin
    OBVIOUS
  <2>3. m_listData[i + k].dwMin \notin Held(q)
    BY <2>2 DEF LedgerExclusive, ListUnheld
  <2>4. PICK j \in 1 .. k : m_listData[i + k].dwMin = m_listData[j].dwMin
    BY <1>2, <2>1, <2>2, <2>3
  <2>5. j \in 1 .. Len(m_listData) /\ j # i + k
    OBVIOUS
  <2> QED BY <2>2, <2>4, <2>5 DEF LedgerExclusive, ListDistinct
<1>4. HeldOnce'
  <2>1. ASSUME NEW q \in Peer, NEW r \in Peer, q # r
        PROVE  Held(q)' \cap Held(r)' = {}
    <3>1. \A x \in Peer \ {p} : Held(x) \cap Held(p)' = {}
      <4>1. SUFFICES ASSUME NEW x \in Peer \ {p}, NEW n \in Held(x),
                            n \in Held(p)'
                     PROVE  FALSE
        OBVIOUS
      <4>2. n \notin Held(p)
        BY DEF LedgerExclusive, HeldOnce
      <4>3. PICK i \in 1 .. k : n = m_listData[i].dwMin
        BY <4>1, <4>2
      <4>4. i \in 1 .. Len(m_listData)
        OBVIOUS
      <4> QED BY <4>1, <4>3, <4>4 DEF LedgerExclusive, ListUnheld
    <3> QED BY <1>2, <2>1, <3>1 DEF LedgerExclusive, HeldOnce
  <2>2. \A q \in Peer : peer'[q].m_itemRange.dwMin # 0 =>
            peer'[q].m_itemRange.dwMin # peer'[q].m_itemSpareRange.dwMin
    BY DEF LedgerExclusive, HeldOnce
  <2> QED BY <2>1, <2>2 DEF HeldOnce
<1> QED BY <1>1, <1>3, <1>4 DEF LedgerExclusive

\* A step that appends a range whose slot neither the list nor a peer has
\* afterwards keeps the books exclusive.
LEMMA ReturnStep ==
    ASSUME TypeOK, LedgerExclusive, NEW r \in Range,
           m_listData' = m_listData \/ m_listData' = Append(m_listData, r),
           \A i \in 1 .. Len(m_listData) : m_listData[i].dwMin # r.dwMin,
           \A q \in Peer : Held(q)' \subseteq Held(q) \ {r.dwMin},
           \A q \in Peer : peer'[q].m_itemRange.dwMin # 0 =>
                               peer'[q].m_itemRange = peer[q].m_itemRange,
           \A q \in Peer : peer'[q].m_itemRange.dwMin # 0 =>
                               peer'[q].m_itemSpareRange = peer[q].m_itemSpareRange
    PROVE  LedgerExclusive'
<1> USE LedgerTypes
<1>1. HeldOnce'
  BY DEF LedgerExclusive, HeldOnce
<1>2. CASE m_listData' = m_listData
  BY <1>1, <1>2 DEF LedgerExclusive, ListDistinct, ListUnheld
<1>3. CASE m_listData' = Append(m_listData, r)
  <2>1. /\ Len(m_listData') = Len(m_listData) + 1
        /\ \A i \in 1 .. Len(m_listData) : m_listData'[i] = m_listData[i]
        /\ m_listData'[Len(m_listData) + 1] = r
    BY <1>3
  <2>2. ListDistinct'
    BY <2>1 DEF LedgerExclusive, ListDistinct
  <2>3. ListUnheld'
    BY <2>1 DEF LedgerExclusive, ListUnheld
  <2> QED BY <1>1, <2>2, <2>3 DEF LedgerExclusive
<1> QED BY <1>2, <1>3

\* GetRange and PopRange, by the ranges of the list.
LEMMA PopRangeLemma ==
    ASSUME NEW list \in Seq(Range)
    PROVE  /\ list = <<>> => GetRange(list) = NoRange /\ PopRange(list) = <<>>
           /\ list # <<>> => /\ GetRange(list) = list[1]
                             /\ Len(PopRange(list)) = Len(list) - 1
                             /\ \A i \in 1 .. Len(PopRange(list)) :
                                    PopRange(list)[i] = list[i + 1]
           /\ PopRange(list) \in Seq(Range)
BY NoRangeType DEF GetRange, PopRange

\* The part of the list after k ranges were taken off it holds set ranges.
LEMMA RestSet ==
    ASSUME TypeOK, RangesSet, NEW k \in Nat,
           Len(m_listData') = Len(m_listData) - k, k <= Len(m_listData),
           \A i \in 1 .. Len(m_listData') : m_listData'[i] = m_listData[i + k]
    PROVE  \A i \in 1 .. Len(m_listData') : m_listData'[i].dwMin # 0
<1>1. \A i \in 1 .. Len(m_listData') : i + k \in 1 .. Len(m_listData)
  BY LedgerTypes
<1> QED BY <1>1 DEF RangesSet

\* QUERY_BOOT takes two slots off the list and books them to one peer.
LEMMA BootLedger ==
    ASSUME LedgerInv, NEW p \in Peer, QUERY_BOOT(p)
    PROVE  LedgerExclusive' /\ RangesSet' /\ Building'
<1> USE DEF LedgerInv
<1> DEFINE L == m_listData
           r == GetRange(L)
           s == GetRange(PopRange(L))
           k == IF L = <<>> THEN 0 ELSE IF PopRange(L) = <<>> THEN 1 ELSE 2
<1>1. /\ L \in Seq(Range) /\ PopRange(L) \in Seq(Range)
      /\ m_listData' = PopRange(PopRange(L))
      /\ peer' = [peer EXCEPT ![p] =
             [open |-> TRUE,
              m_itemRange |-> Assign(peer[p].m_itemRange, r),
              m_itemSpareRange |-> Assign(peer[p].m_itemSpareRange, s)]]
      /\ db = "serving" /\ db' = db
  BY LedgerTypes, PopRangeLemma DEF QUERY_BOOT
<1>2. /\ k \in Nat /\ k <= Len(L) /\ Len(m_listData') = Len(L) - k
      /\ \A i \in 1 .. Len(m_listData') : m_listData'[i] = L[i + k]
      /\ IsSet(r) => L # <<>> /\ k >= 1 /\ r = L[1]
      /\ IsSet(s) => Len(L) >= 2 /\ k = 2 /\ s = L[2]
  <2>0. GetRange(<<>>) = NoRange /\ PopRange(<<>>) = <<>> /\ ~IsSet(NoRange)
    BY DEF GetRange, PopRange, NoRange, IsSet
  <2>1. CASE L = <<>>
    <3>1. r = NoRange /\ s = NoRange /\ m_listData' = <<>> /\ k = 0
      BY <1>1, <2>0, <2>1
    <3> QED BY <2>0, <2>1, <3>1
  <2>2. CASE L # <<>> /\ PopRange(L) = <<>>
    <3>1. Len(L) = 1 /\ r = L[1]
      <4>1. r = L[1] /\ Len(<<>>) = Len(L) - 1
        BY <1>1, <2>2, PopRangeLemma
      <4>2. Len(L) \in Nat /\ Len(<<>>) = 0
        BY <1>1
      <4> HIDE DEF L, r
      <4> QED BY <4>1, <4>2
    <3>2. m_listData' = <<>> /\ s = NoRange /\ k = 1
      BY <1>1, <2>0, <2>2
    <3> QED BY <2>0, <2>2, <3>1, <3>2
  <2>3. CASE L # <<>> /\ PopRange(L) # <<>>
    <3> DEFINE T == PopRange(L)
    <3>1. /\ r = L[1] /\ s = T[1] /\ k = 2
          /\ Len(T) = Len(L) - 1 /\ Len(PopRange(T)) = Len(T) - 1
          /\ \A i \in 1 .. Len(T) : T[i] = L[i + 1]
          /\ \A i \in 1 .. Len(PopRange(T)) : PopRange(T)[i] = T[i + 1]
      BY <1>1, <2>3, PopRangeLemma
    <3>2. Len(T) \in Nat /\ Len(T) # 0 /\ Len(L) \in Nat
      BY <1>1, <2>3
    <3> HIDE DEF T
    <3>3. s = L[2] /\ Len(m_listData') = Len(L) - 2
      BY <1>1, <3>1, <3>2 DEF T
    <3>4. \A i \in 1 .. Len(m_listData') : m_listData'[i] = L[i + 2]
      <4>1. SUFFICES ASSUME NEW i \in 1 .. Len(PopRange(T))
                     PROVE  PopRange(T)[i] = L[i + 2]
        BY <1>1 DEF T
      <4>2. PopRange(T)[i] = T[i + 1] /\ i + 1 \in 1 .. Len(T)
        BY <3>1, <3>2
      <4>3. T[i + 1] = L[(i + 1) + 1]
        BY <3>1, <4>2
      <4> QED BY <4>2, <4>3, <3>1, <3>2
    <3> QED BY <2>3, <3>1, <3>2, <3>3, <3>4
  <2> QED BY <2>1, <2>2, <2>3
<1> HIDE DEF k, r, s
<1>3. /\ peer'[p].m_itemRange = Assign(peer[p].m_itemRange, r)
      /\ peer'[p].m_itemSpareRange = Assign(peer[p].m_itemSpareRange, s)
      /\ \A q \in Peer \ {p} : peer'[q] = peer[q]
  BY <1>1 DEF TypeOK
<1>4. \/ peer'[p].m_itemRange = peer[p].m_itemRange
      \/ /\ peer'[p].m_itemRange = L[1] /\ 1 \in 1 .. k
         /\ peer'[p].m_itemRange.dwMin # 0
  BY <1>2, <1>3 DEF Assign, IsSet
<1>5. \/ peer'[p].m_itemSpareRange = peer[p].m_itemSpareRange
      \/ /\ peer'[p].m_itemSpareRange = L[2] /\ 2 \in 1 .. k
  BY <1>2, <1>3 DEF Assign
<1>6. Held(p)' \subseteq Held(p) \cup {L[i].dwMin : i \in 1 .. k}
  BY <1>4, <1>5 DEF Held
<1>7. \A i \in 1 .. k : i \in 1 .. Len(L) /\ L[i].dwMin \notin Held(p)
  BY <1>2, LedgerTypes DEF LedgerExclusive, ListUnheld
<1>8. peer'[p].m_itemRange.dwMin # 0 =>
          peer'[p].m_itemRange.dwMin # peer'[p].m_itemSpareRange.dwMin
  <2>1. CASE peer'[p].m_itemSpareRange = peer[p].m_itemSpareRange
    BY <1>4, <1>7, <2>1 DEF LedgerExclusive, HeldOnce, Held
  <2>2. CASE peer'[p].m_itemSpareRange = L[2] /\ 2 \in 1 .. k
    <3>1. 1 \in 1 .. k /\ 1 \in 1 .. Len(L) /\ 2 \in 1 .. Len(L)
      BY <1>2, <1>7, <2>2
    <3>2. L[1].dwMin # L[2].dwMin
      BY <3>1 DEF LedgerExclusive, ListDistinct
    <3> QED BY <1>4, <1>7, <2>2, <3>2 DEF Held
  <2> QED BY <1>5, <2>1, <2>2
<1>9. LedgerExclusive'
  BY <1>2, <1>3, <1>6, <1>8, LeaseStep
<1>10. RangesSet'
  BY <1>2, <1>3, <1>4, RestSet DEF RangesSet
<1> QED BY <1>1, <1>9, <1>10 DEF Building

\* SendSpareItemIDRange makes the spare the current slot and books another.
LEMMA SpareLedger ==
    ASSUME LedgerInv, NEW p \in Peer, SendSpareItemIDRange(p)
    PROVE  LedgerExclusive' /\ RangesSet' /\ Building'
<1> USE DEF LedgerInv
<1> DEFINE L == m_listData
           spare == peer[p].m_itemSpareRange
           sent == Assign(NoRange, IF IsSet(spare) THEN GetRange(L) ELSE spare)
           k == IF L # <<>> /\ IsSet(spare) THEN 1 ELSE 0
<1>1. /\ m_listData' = IF IsSet(spare) THEN PopRange(L) ELSE L
      /\ peer' = [peer EXCEPT ![p] =
             [open |-> TRUE,
              m_itemRange |-> Assign(peer[p].m_itemRange, spare),
              m_itemSpareRange |-> sent]]
      /\ db = "serving" /\ db' = db
  BY DEF SendSpareItemIDRange
<1>2. /\ k \in Nat /\ k <= Len(L) /\ Len(m_listData') = Len(L) - k
      /\ \A i \in 1 .. Len(m_listData') : m_listData'[i] = L[i + k]
  <2>1. L \in Seq(Range) /\ Len(L) \in Nat
    BY LedgerTypes
  <2>2. CASE L # <<>> /\ IsSet(spare)
    <3>1. /\ k = 1 /\ Len(L) # 0 /\ Len(m_listData') = Len(L) - 1
          /\ \A i \in 1 .. Len(m_listData') : m_listData'[i] = L[i + 1]
      BY <1>1, <2>1, <2>2, PopRangeLemma
    <3> QED BY <2>1, <3>1
  <2>3. CASE L = <<>> \/ ~IsSet(spare)
    <3>1. k = 0 /\ m_listData' = L
      BY <1>1, <2>1, <2>3, PopRangeLemma
    <3> HIDE DEF k
    <3> QED BY <2>1, <3>1
  <2> QED BY <2>2, <2>3
<1>3. \/ sent.dwMin = 0
      \/ sent = L[1] /\ 1 \in 1 .. k /\ IsSet(spare) /\ 1 \in 1 .. Len(L)
  BY LedgerTypes, PopRangeLemma DEF Assign, IsSet, NoRange
<1> HIDE DEF k, sent
<1>4. /\ peer'[p].m_itemRange = Assign(peer[p].m_itemRange, spare)
      /\ peer'[p].m_itemSpareRange = sent
      /\ \A q \in Peer \ {p} : peer'[q] = peer[q]
  BY <1>1 DEF TypeOK
<1>5. /\ IsSet(spare) => peer'[p].m_itemRange = spare /\ spare.dwMin # 0
      /\ ~IsSet(spare) => peer'[p].m_itemRange = peer[p].m_itemRange
  BY <1>4 DEF Assign, IsSet
<1>6. Held(p)' \subseteq Held(p) \cup {L[i].dwMin : i \in 1 .. k}
  BY <1>3, <1>4, <1>5 DEF Held
<1>7. peer'[p].m_itemRange.dwMin # 0 =>
          peer'[p].m_itemRange.dwMin # peer'[p].m_itemSpareRange.dwMin
  BY <1>3, <1>4, <1>5 DEF LedgerExclusive, ListUnheld, Held
<1>8. LedgerExclusive'
  BY <1>2, <1>4, <1>6, <1>7, LeaseStep
<1>9. RangesSet'
  BY <1>2, <1>4, <1>5, RestSet DEF RangesSet
<1> QED BY <1>1, <1>8, <1>9 DEF Building

\* OnClose returns at most the current slot of the peer it closes.
LEMMA RemoveLedger ==
    ASSUME LedgerInv, NEW p \in Peer, RemovePeer(p)
    PROVE  LedgerExclusive' /\ RangesSet' /\ Building'
<1> USE DEF LedgerInv
<1> DEFINE a == peer[p].m_itemRange.dwMin
           b == peer[p].m_itemRange.dwMax
<1>1. /\ a \in Nat /\ b \in Nat
      /\ \/ m_listData' = m_listData
         \/ \E r \in BuildRange(a, b) : m_listData' = Append(m_listData, r)
      /\ peer' = [peer EXCEPT ![p] = ClosedPeer]
      /\ db = "serving" /\ db' = db
  BY LedgerTypes, PushBuiltType DEF RemovePeer, Disconnected
<1>2. /\ \A q \in Peer \ {p} : peer'[q] = peer[q] /\ Held(q)' = Held(q)
      /\ peer'[p].m_itemRange.dwMin = 0 /\ peer'[p].m_itemRange.dwMax = 0
      /\ Held(p)' = {}
  BY <1>1 DEF TypeOK, ClosedPeer, NoRange, Held
<1>3. CASE m_listData' = m_listData
  <2>1. ListDistinct' /\ ListUnheld'
    BY <1>2, <1>3 DEF LedgerExclusive, ListDistinct, ListUnheld
  <2>2. HeldOnce'
    BY <1>2 DEF LedgerExclusive, HeldOnce
  <2>3. RangesSet'
    BY <1>2, <1>3 DEF RangesSet
  <2> QED BY <1>1, <2>1, <2>2, <2>3 DEF LedgerExclusive, Building
<1>4. CASE \E r \in BuildRange(a, b) : m_listData' = Append(m_listData, r)
  <2>1. PICK r \in BuildRange(a, b) : m_listData' = Append(m_listData, r)
    BY <1>4
  <2>2. r \in Range /\ r.dwMin = a /\ r.dwUsableItemIDMin \in Nat
        /\ a <= r.dwUsableItemIDMin /\ r.dwUsableItemIDMin < b
    BY <1>1, BuildRangeType DEF Range
  <2>3. a # 0
    BY <1>1, <2>2 DEF RangesSet
  <2>4. a \in Held(p)
    BY <2>3 DEF Held
  <2>5. \A q \in Peer : Held(q)' \subseteq Held(q) \ {a}
    BY <1>2, <2>4 DEF LedgerExclusive, HeldOnce
  <2>6. \A i \in 1 .. Len(m_listData) : m_listData[i].dwMin # a
    BY <2>4 DEF LedgerExclusive, ListUnheld
  <2>7. LedgerExclusive'
    BY <1>2, <2>1, <2>2, <2>5, <2>6, ReturnStep
  <2>8. RangesSet'
    BY <1>2, <2>1, <2>2, <2>3, LedgerTypes DEF RangesSet
  <2> QED BY <1>1, <2>7, <2>8 DEF Building
<1> QED BY <1>1, <1>3, <1>4

\* The slots of Build grow with its index.
LEMMA SlotGrows ==
    ASSUME NEW i \in Nat
    PROVE  SlotMin(i) \in Nat /\ 0 < SlotMin(i) /\ SlotMin(i) < SlotMin(i + 1)
<1>1. cs_dwMinimumRange * (i + 1) \in Nat
  BY RangeAssumption
<1>2. cs_dwMinimumRange * ((i + 1) + 1)
          = cs_dwMinimumRange * (i + 1) + cs_dwMinimumRange
  BY RangeAssumption
<1> QED BY <1>1, <1>2, RangeAssumption DEF SlotMin

\* Build appends a slot that no earlier turn of its loop has appended.
LEMMA BuildLedger ==
    ASSUME LedgerInv, BuildSlot
    PROVE  LedgerExclusive' /\ RangesSet' /\ Building'
<1> USE DEF LedgerInv
<1> DEFINE a == SlotMin(buildPos)
           b == SlotMax(buildPos)
<1>1. /\ a \in Nat /\ b \in Nat /\ 0 < a /\ a < SlotMin(buildPos')
      /\ buildPos \in Nat
      /\ \/ m_listData' = m_listData
         \/ \E r \in BuildRange(a, b) : m_listData' = Append(m_listData, r)
      /\ peer' = peer /\ db = "building" /\ db' = db
  <2>1. buildPos \in Nat
    BY RangeAssumption DEF TypeOK
  <2> QED BY <2>1, SlotType, SlotGrows, LedgerTypes, PushBuiltType DEF BuildSlot, MoreSlots
<1>2. \A q \in Peer : Held(q)' = Held(q) /\ Held(q) = {}
  BY <1>1 DEF Building, Held
<1>3. \A i \in 1 .. Len(m_listData) : m_listData[i].dwMin < a
  BY <1>1 DEF Building
<1>4. CASE m_listData' = m_listData
  <2>1. LedgerExclusive' /\ RangesSet'
    BY <1>1, <1>4 DEF LedgerExclusive, ListDistinct, ListUnheld, HeldOnce,
                      Held, RangesSet
  <2>2. \A i \in 1 .. Len(m_listData') :
            m_listData'[i].dwMin < SlotMin(buildPos')
    <3>1. SlotMin(buildPos') \in Nat
      BY <1>1, SlotGrows DEF BuildSlot, MoreSlots
    <3> QED BY <1>1, <1>3, <1>4, <3>1, LedgerTypes
  <2> QED BY <1>1, <1>2, <2>1, <2>2 DEF Building
<1>5. CASE \E r \in BuildRange(a, b) : m_listData' = Append(m_listData, r)
  <2>1. PICK r \in BuildRange(a, b) : m_listData' = Append(m_listData, r)
    BY <1>5
  <2>2. r \in Range /\ r.dwMin = a
    BY <1>1, BuildRangeType
  <2>3. /\ Len(m_listData') = Len(m_listData) + 1
        /\ \A i \in 1 .. Len(m_listData) : m_listData'[i] = m_listData[i]
        /\ m_listData'[Len(m_listData) + 1] = r
    BY <2>1, <2>2, LedgerTypes
  <2>4. \A i \in 1 .. Len(m_listData) : m_listData[i].dwMin # r.dwMin
    BY <1>1, <1>3, <2>2, LedgerTypes
  <2>5. LedgerExclusive'
    BY <1>1, <1>2, <2>1, <2>2, <2>4, ReturnStep
  <2>6. RangesSet'
    BY <1>1, <2>2, <2>3, LedgerTypes DEF RangesSet
  <2>7. \A i \in 1 .. Len(m_listData') :
            m_listData'[i].dwMin < SlotMin(buildPos')
    <3>1. SlotMin(buildPos') \in Nat
      BY <1>1, SlotGrows DEF BuildSlot, MoreSlots
    <3> QED BY <1>1, <1>3, <2>2, <2>3, <3>1, LedgerTypes
  <2> QED BY <1>1, <1>2, <2>5, <2>6, <2>7 DEF Building
<1> QED BY <1>1, <1>4, <1>5

\* A new connection holds no slot.
LEMMA ConnectLedger ==
    ASSUME LedgerInv, NEW c \in Core, NEW p \in Peer, Connect(c, p)
    PROVE  LedgerExclusive' /\ RangesSet' /\ Building'
<1> USE DEF LedgerInv
<1>1. /\ peer'[p].m_itemRange = NoRange /\ peer'[p].m_itemSpareRange = NoRange
      /\ \A q \in Peer \ {p} : peer'[q] = peer[q]
      /\ m_listData' = m_listData /\ db = "serving" /\ db' = db
  BY DEF Connect, NewPeer, ClosedPeer, TypeOK
<1>2. Held(p)' = {} /\ peer'[p].m_itemRange.dwMin = 0
      /\ peer'[p].m_itemRange.dwMax = 0
  BY <1>1 DEF Held, NoRange
<1>3. LedgerExclusive'
  BY <1>1, <1>2 DEF LedgerExclusive, ListDistinct, ListUnheld, HeldOnce, Held
<1>4. RangesSet'
  BY <1>1, <1>2 DEF RangesSet
<1> QED BY <1>1, <1>3, <1>4 DEF Building

\* A step that changes neither the list nor a peer.
LEMMA StillLedger ==
    ASSUME LedgerInv, UNCHANGED <<m_listData, peer>>,
           \/ UNCHANGED <<db, buildPos>>
           \/ db' = "serving"
    PROVE  LedgerExclusive' /\ RangesSet' /\ Building'
BY DEF LedgerInv, LedgerExclusive, ListDistinct, ListUnheld, HeldOnce, Held,
       RangesSet, Building

\* A step after which the list is empty and no peer holds anything.
LEMMA EmptyLedger ==
    ASSUME m_listData' = <<>>,
           \A p \in Peer : /\ peer'[p].m_itemRange.dwMin = 0
                           /\ peer'[p].m_itemRange.dwMax = 0
                           /\ peer'[p].m_itemSpareRange.dwMin = 0
    PROVE  LedgerExclusive' /\ RangesSet' /\ Building'
<1>1. Len(m_listData') = 0 /\ \A p \in Peer : Held(p)' = {}
  BY DEF Held
<1> QED BY <1>1 DEF LedgerExclusive, ListDistinct, ListUnheld, HeldOnce,
                    RangesSet, Building

\* The inductive invariant holds at first.
LEMMA InitLedger == Init => LedgerInv
<1> SUFFICES ASSUME Init PROVE LedgerInv
  OBVIOUS
<1>1. Len(m_listData) = 0 /\ \A p \in Peer : Held(p) = {}
  BY DEF Init, Held, ClosedPeer, NoRange
<1>2. \A p \in Peer : /\ peer[p].m_itemRange.dwMin = 0
                      /\ peer[p].m_itemRange.dwMax = 0
  BY DEF Init, ClosedPeer, NoRange
<1> QED BY <1>1, <1>2, InitType DEF LedgerInv, LedgerExclusive, ListDistinct,
           ListUnheld, HeldOnce, RangesSet, Building

\* Every step keeps the inductive invariant.
LEMMA NextLedger == LedgerInv /\ [Next]_vars => LedgerInv'
<1> SUFFICES ASSUME LedgerInv, [Next]_vars
             PROVE  LedgerExclusive' /\ RangesSet' /\ Building'
  BY NextType DEF LedgerInv
<1>1. CASE UNCHANGED vars
  BY <1>1, StillLedger DEF vars
<1>2. CASE \E p \in Peer : PeerStep(p)
  BY <1>2, BootLedger, SpareLedger, RemoveLedger DEF PeerStep
<1>3. CASE \E c \in Core : CoreStep(c) \/ LoseConnection(c)
  <2>1. PICK c \in Core : CoreStep(c) \/ LoseConnection(c)
    BY <1>3
  <2>2. CASE \E p \in Peer : Connect(c, p)
    BY <2>2, ConnectLedger
  <2>3. CASE UNCHANGED dbVars
    BY <2>3, StillLedger DEF dbVars
  <2> QED BY <2>1, <2>2, <2>3 DEF CoreStep, CoreStart, Boot, SetMaxSpareItemID,
             GetNewID, SwitchToSpare, NoMoreItemID, CoreCrash, LoseConnection
<1>4. CASE DbStart
  <2>1. \A p \in Peer : Held(p) = {}
    BY <1>4 DEF LedgerInv, Building, DbStart
  <2>2. m_listData' = <<>> /\ peer' = peer /\ Len(m_listData') = 0
    BY <1>4 DEF DbStart
  <2>3. \A p \in Peer : Held(p)' = {}
    BY <2>1, <2>2 DEF Held
  <2> QED BY <2>2, <2>3 DEF LedgerInv, LedgerExclusive, ListDistinct,
             ListUnheld, HeldOnce, RangesSet, Building
<1>5. CASE BuildSlot
  BY <1>5, BuildLedger
<1>6. CASE Serve \/ GainItemID \/ \E id \in cached : FlushItem(id)
  BY <1>6, StillLedger DEF Serve, GainItemID, FlushItem, dbVars
<1>7. CASE DbShutdown \/ DbCrash
  <2>1. m_listData' = <<>> /\ peer' = [p \in Peer |-> ClosedPeer]
    BY <1>7 DEF DbShutdown, DbCrash, DbEnd
  <2> QED BY <2>1, EmptyLedger DEF ClosedPeer, NoRange
<1> QED BY <1>1, <1>2, <1>3, <1>4, <1>5, <1>6, <1>7 DEF Next, Attached, Parted

\* Whatever crashes, disconnects or restarts, the books of the DB server never
\* show a slot of item ids in two places (CItemIDRangeManager, CPeer).
THEOREM LedgerSafe == Spec => []LedgerExclusive
<1>1. LedgerInv => LedgerExclusive
  BY DEF LedgerInv
<1> QED BY <1>1, InitLedger, NextLedger, PTL DEF Spec

-----------------------------------------------------------------------------
(* The ids the game cores number their items with.  What follows up to      *)
(* AwardSafe holds whatever crashes or disconnects: every range outside the *)
(* DB server's own is a whole slot of Build, outside the award interval.    *)
(* The rest is about AttachedSpec: the packets between a game core and its  *)
(* peer keep the two in agreement, so the exclusive books of the DB server  *)
(* (LedgerInv) become exclusive ids.                                        *)

-----------------------------------------------------------------------------
(* Slots.                                                                  *)

\* Build leaves out the slots the award interval covers (InAwardRange).
Covered(i) == AwardMin <= SlotMin(i) /\ AwardMax >= SlotMax(i)

\* The ranges Build and OnClose put in the list, and any place a range can be.
SlotRange ==
    { r \in Range : \E i \in 0 .. SlotCount - 1 :
          /\ r.dwMin = SlotMin(i) /\ r.dwMax = SlotMax(i)
          /\ r.dwMin <= r.dwUsableItemIDMin /\ ~Covered(i) }
Leasable == SlotRange \cup {NoRange}
LeaseReply == [type : {"BOOT"}, range : Leasable, spare : Leasable]
                  \cup [type : {"ACK_SPARE"}, spare : Leasable]

\* The bounds of slot i are the multiples i + 1 and i + 2 of the width.
LEMMA SlotBounds ==
    ASSUME NEW i \in Nat
    PROVE  /\ SlotMin(i) \in Nat /\ SlotMax(i) \in Nat
           /\ 0 < SlotMin(i) /\ SlotMin(i) <= SlotMax(i)
           /\ SlotMax(i) = SlotMin(i) + cs_dwMinimumRange - 1
<1>1. /\ cs_dwMinimumRange * (i + 1) \in Nat
      /\ cs_dwMinimumRange * (i + 2)
             = cs_dwMinimumRange * (i + 1) + cs_dwMinimumRange
  BY RangeAssumption
<1> QED BY <1>1, RangeAssumption DEF SlotMin, SlotMax

\* A multiple of the width is at most another one, or above it by a slot.
LEMMA Multiples ==
    ASSUME NEW i \in Nat, NEW j \in Nat, i < j
    PROVE  cs_dwMinimumRange * i + cs_dwMinimumRange <= cs_dwMinimumRange * j
<1>1. PICK k \in Nat : j = i + 1 + k
  <2>1. j - i - 1 \in Nat /\ j = i + 1 + (j - i - 1)
    OBVIOUS
  <2> QED BY <2>1
<1>2. /\ cs_dwMinimumRange * j = cs_dwMinimumRange * i + cs_dwMinimumRange
                                     + cs_dwMinimumRange * k
      /\ cs_dwMinimumRange * k \in Nat /\ cs_dwMinimumRange * i \in Nat
  BY <1>1, RangeAssumption
<1> QED BY <1>2, RangeAssumption

\* No id lies in two slots.
LEMMA SlotsApart ==
    ASSUME NEW i \in Nat, NEW j \in Nat, NEW id \in Nat,
           SlotMin(i) <= id, id <= SlotMax(i), SlotMin(j) <= id, id <= SlotMax(j)
    PROVE  i = j
<1>1. ASSUME NEW a \in Nat, NEW b \in Nat, a < b
      PROVE  SlotMax(a) < SlotMin(b)
  <2>1. cs_dwMinimumRange * (a + 1) + cs_dwMinimumRange
            <= cs_dwMinimumRange * (b + 1)
    BY <1>1, Multiples
  <2>2. cs_dwMinimumRange * (a + 2) = cs_dwMinimumRange * (a + 1) + cs_dwMinimumRange
    BY RangeAssumption
  <2>3. /\ cs_dwMinimumRange * (a + 1) \in Nat
        /\ cs_dwMinimumRange * (b + 1) \in Nat
    BY RangeAssumption
  <2> QED BY <2>1, <2>2, <2>3, RangeAssumption DEF SlotMin, SlotMax
<1>2. /\ SlotMin(i) \in Nat /\ SlotMax(i) \in Nat
      /\ SlotMin(j) \in Nat /\ SlotMax(j) \in Nat
  BY SlotBounds
<1>3. ~(i < j)
  <2>1. i < j => SlotMax(i) < SlotMin(j)
    BY <1>1
  <2> QED BY <1>2, <2>1
<1>4. ~(j < i)
  <2>1. j < i => SlotMax(j) < SlotMin(i)
    BY <1>1
  <2> QED BY <1>2, <2>1
<1> QED BY <1>3, <1>4

\* The award interval, in slots.
LEMMA AwardInSlots ==
    \E a, b \in Nat : /\ AwardMin = cs_dwMinimumRange * a
                      /\ AwardMax = cs_dwMinimumRange * b
<1>1. ASSUME NEW x \in Nat, x % cs_dwMinimumRange = 0
      PROVE  \E q \in Nat : x = cs_dwMinimumRange * q
  <2> DEFINE q == x \div cs_dwMinimumRange
  <2>1. q \in Nat /\ x = cs_dwMinimumRange * q
    BY <1>1, RangeAssumption
  <2> QED BY <2>1
<1> QED BY <1>1, AwardAssumption, AwardAligned

\* A slot that the award interval does not cover shares with it no id but,
\* perhaps, its last.
LEMMA AwardSlotApart ==
    ASSUME NEW i \in Nat, ~Covered(i), NEW id \in Nat,
           SlotMin(i) <= id, id < SlotMax(i)
    PROVE  id \notin AwardMin .. AwardMax
<1> DEFINE w == cs_dwMinimumRange
<1>1. PICK a \in Nat, b \in Nat : AwardMin = w * a /\ AwardMax = w * b
  BY AwardInSlots
<1>2. w * (i + 1) \in Nat /\ w * (i + 2) = w * (i + 1) + w /\ w \in Nat
  BY RangeAssumption
<1>3. SlotMin(i) = w * (i + 1) + 1 /\ SlotMax(i) = w * (i + 2)
  BY DEF SlotMin, SlotMax
<1>4. CASE AwardMin > SlotMin(i)
  <2>1. i + 1 < a
    <3>1. SUFFICES ASSUME a <= i + 1 PROVE FALSE
      OBVIOUS
    <3>2. CASE a = i + 1
      BY <1>1, <1>2, <1>3, <1>4, <3>2
    <3>3. CASE a < i + 1
      <4>1. w * a + w <= w * (i + 1)
        BY <3>3, Multiples
      <4> QED BY <1>1, <1>2, <1>3, <1>4, <4>1, AwardAssumption
    <3> QED BY <3>1, <3>2, <3>3
  <2>2. w * (i + 1) + w <= w * a
    BY <2>1, Multiples
  <2> QED BY <1>1, <1>2, <1>3, <2>2, AwardAssumption
<1>5. CASE AwardMin <= SlotMin(i)
  <2>1. AwardMax < SlotMax(i)
    BY <1>5, AwardAssumption, SlotBounds DEF Covered
  <2>2. b < i + 2
    <3>1. SUFFICES ASSUME i + 2 <= b PROVE FALSE
      OBVIOUS
    <3>2. CASE b = i + 2
      BY <1>1, <1>2, <1>3, <2>1, <3>2
    <3>3. CASE i + 2 < b
      <4>1. w * (i + 2) + w <= w * b
        BY <3>3, Multiples
      <4> QED BY <1>1, <1>2, <1>3, <2>1, <4>1, AwardAssumption
    <3> QED BY <3>1, <3>2, <3>3
  <2>3. w * b + w <= w * (i + 2)
    BY <2>2, Multiples
  <2> QED BY <1>1, <1>2, <1>3, <2>3, AwardAssumption
<1> QED BY <1>4, <1>5, AwardAssumption, SlotBounds

\* A range of the list is set; any other is a slot's, or NoRange.
LEMMA LeasableRange ==
    /\ SlotRange \subseteq Range /\ Leasable \subseteq Range
    /\ NoRange \in Leasable /\ SlotRange \subseteq Leasable
    /\ \A r \in SlotRange : IsSet(r) /\ r.dwMin # 0
    /\ \A r \in Leasable : IsSet(r) \/ r = NoRange
    /\ \A r \in Leasable : IsSet(r) => r \in SlotRange
    /\ ~IsSet(NoRange) /\ NoRange.dwMin = 0 /\ NoRange.dwMax = 0
    /\ \A r \in Leasable : /\ r.dwMin \in Nat /\ r.dwMax \in Nat
                           /\ r.dwUsableItemIDMin \in Nat
                           /\ r.dwMin <= r.dwUsableItemIDMin
<1>1. ASSUME NEW r \in SlotRange
      PROVE  /\ r \in Range /\ IsSet(r) /\ r.dwMin # 0
             /\ r.dwMin \in Nat /\ r.dwMax \in Nat /\ r.dwUsableItemIDMin \in Nat
             /\ r.dwMin <= r.dwUsableItemIDMin
  <2>1. PICK i \in 0 .. SlotCount - 1 :
            /\ r.dwMin = SlotMin(i) /\ r.dwMax = SlotMax(i)
            /\ r.dwMin <= r.dwUsableItemIDMin
    BY DEF SlotRange
  <2>2. i \in Nat
    BY RangeAssumption
  <2>3. r \in Range /\ r.dwUsableItemIDMin \in Nat
    BY DEF SlotRange, Range
  <2> QED BY <2>1, <2>2, <2>3, SlotBounds DEF IsSet
<1> QED BY <1>1, NoRangeType DEF Leasable, NoRange, IsSet

-----------------------------------------------------------------------------
(* Every range of the system is a whole slot that Build may have leased.   *)

\* The DB server keeps the award interval it started with.
AwardSet ==
    /\ db = "down" => award.dwMin = 0 /\ award.dwMax = 0
    /\ db # "down" => award.dwMin = AwardMin /\ award.dwMax = AwardMax

\* The ranges of a game core, which numbers its items from dwMin on.
CoreSlots(c) ==
    /\ core[c].m_ItemIDRange \in Leasable
    /\ core[c].m_ItemIDSpareRange \in Leasable
    /\ core[c].m_ItemIDRange.dwMin <= core[c].m_dwCurrentID

PeerSlots(p) ==
    peer[p].m_itemRange \in Leasable /\ peer[p].m_itemSpareRange \in Leasable

WholeSlots ==
    /\ AwardSet
    /\ m_listData \in Seq(SlotRange)
    /\ \A p \in Peer : PeerSlots(p)
    /\ toCore \in [Peer -> Seq(LeaseReply)]
    /\ \A c \in Core : CoreSlots(c)

SlotInv == TypeOK /\ WholeSlots

\* Taking the front of the list gives a slot, and leaves slots.
LEMMA GetSlot ==
    ASSUME NEW list \in Seq(SlotRange)
    PROVE  /\ GetRange(list) \in Leasable
           /\ PopRange(list) \in Seq(SlotRange)
BY LeasableRange DEF GetRange, PopRange, Leasable

\* Assign chooses between two slots.
LEMMA AssignSlot ==
    ASSUME NEW old \in Leasable, NEW new \in Leasable
    PROVE  Assign(old, new) \in Leasable
BY DEF Assign

\* Rebuilding a slot appends that slot or nothing.
LEMMA BuildWhole ==
    ASSUME m_listData \in Seq(SlotRange), NEW i \in 0 .. SlotCount - 1,
           ~Covered(i), PushBuilt(m_listData, BuildRange(SlotMin(i), SlotMax(i)))
    PROVE  m_listData' \in Seq(SlotRange)
<1>1. i \in Nat
  BY RangeAssumption
<1>2. SlotMin(i) \in Nat /\ SlotMax(i) \in Nat
  BY <1>1, SlotBounds
<1>3. BuildRange(SlotMin(i), SlotMax(i)) \subseteq SlotRange
  BY <1>1, <1>2, BuildRangeType DEF SlotRange
<1> QED BY <1>3 DEF PushBuilt

\* OnClose appends the slot of the peer, or nothing.
LEMMA ReturnWhole ==
    ASSUME m_listData \in Seq(SlotRange), NEW r \in Leasable,
           PushBuilt(m_listData, BuildRange(r.dwMin, r.dwMax))
    PROVE  m_listData' \in Seq(SlotRange)
<1>1. CASE r = NoRange
  <2>1. BuildRange(0, 0) = {}
    <3>1. SUFFICES ASSUME NEW x \in BuildRange(0, 0) PROVE FALSE
      OBVIOUS
    <3>2. x \in Range /\ 0 <= x.dwUsableItemIDMin /\ x.dwUsableItemIDMin < 0
      BY BuildRangeType
    <3> QED BY <3>2 DEF Range
  <2> QED BY <1>1, <2>1, LeasableRange DEF PushBuilt
<1>2. CASE r \in SlotRange
  <2>1. PICK i \in 0 .. SlotCount - 1 :
            r.dwMin = SlotMin(i) /\ r.dwMax = SlotMax(i) /\ ~Covered(i)
    BY <1>2 DEF SlotRange
  <2> QED BY <2>1, BuildWhole
<1> QED BY <1>1, <1>2 DEF Leasable

\* What a game core is told is a slot.
LEMMA ToldSlot ==
    ASSUME toCore \in [Peer -> Seq(LeaseReply)], NEW p \in Peer,
           toCore[p] # <<>>
    PROVE  /\ Head(toCore[p]) \in LeaseReply
           /\ Head(toCore[p]).spare \in Leasable
           /\ Head(toCore[p]).type = "BOOT" => Head(toCore[p]).range \in Leasable
           /\ Tail(toCore[p]) \in Seq(LeaseReply)
<1>1. toCore[p] \in Seq(LeaseReply)
  OBVIOUS
<1>2. Head(toCore[p]) \in LeaseReply /\ Tail(toCore[p]) \in Seq(LeaseReply)
  BY <1>1
<1> QED BY <1>2 DEF LeaseReply

\* A game core that is off, or only just on, has no range.
LEMMA OffSlots ==
    /\ OffCore.m_ItemIDRange \in Leasable /\ OffCore.m_ItemIDSpareRange \in Leasable
    /\ OffCore.m_ItemIDRange.dwMin <= OffCore.m_dwCurrentID
BY LeasableRange DEF OffCore

\* At first there is no range but NoRange.
LEMMA InitSlots == Init => SlotInv
<1> SUFFICES ASSUME Init PROVE WholeSlots
  BY InitType DEF SlotInv
<1>1. AwardSet
  BY DEF Init, AwardSet, NoRange
<1>2. \A p \in Peer : PeerSlots(p)
  BY LeasableRange DEF Init, PeerSlots, ClosedPeer
<1>3. \A c \in Core : CoreSlots(c)
  BY OffSlots DEF Init, CoreSlots
<1> QED BY <1>1, <1>2, <1>3 DEF Init, WholeSlots

\* The DB server's own life moves no slot but into the list.
LEMMA ServerSlots ==
    ASSUME SlotInv,
           \/ DbStart \/ BuildSlot \/ Serve \/ GainItemID \/ DbShutdown \/ DbCrash
           \/ \E id \in cached : FlushItem(id)
    PROVE  WholeSlots'
<1> USE DEF SlotInv, WholeSlots
<1>1. CASE DbStart
  <2>1. db' = "building" /\ m_listData' = <<>> /\ UNCHANGED <<peer, toCore, core>>
    BY <1>1 DEF DbStart, netVars, coreVars
  <2>2. award'.dwMin = AwardMin /\ award'.dwMax = AwardMax
    BY <1>1, AwardAssumption, BuildRangeType DEF DbStart
  <2> QED BY <2>1, <2>2 DEF AwardSet, PeerSlots, CoreSlots
<1>2. CASE BuildSlot
  <2>1. /\ db = "building" /\ UNCHANGED <<db, award, peer, toCore, core>>
        /\ buildPos \in 0 .. SlotCount - 1
    BY <1>2, RangeAssumption DEF BuildSlot, MoreSlots, netVars, coreVars, TypeOK
  <2>2. InAwardRange(buildPos) <=> Covered(buildPos)
    BY <2>1 DEF AwardSet, InAwardRange, Covered
  <2>3. m_listData' \in Seq(SlotRange)
    BY <1>2, <2>1, <2>2, BuildWhole DEF BuildSlot
  <2> QED BY <2>1, <2>3 DEF AwardSet, PeerSlots, CoreSlots
<1>3. CASE Serve \/ \E id \in cached : FlushItem(id)
  <2>1. /\ UNCHANGED <<m_listData, award, peer, toCore, core>>
        /\ db # "down" /\ db' # "down"
    BY <1>3 DEF Serve, FlushItem, dbVars, netVars, coreVars
  <2> QED BY <2>1 DEF AwardSet, PeerSlots, CoreSlots
<1>4. CASE GainItemID
  <2>1. /\ UNCHANGED <<db, m_listData, peer, toCore, core>>
        /\ award' = [award EXCEPT !.dwUsableItemIDMin = @ + 1]
        /\ award \in Range
    BY <1>4 DEF GainItemID, netVars, coreVars, TypeOK
  <2>2. award'.dwMin = award.dwMin /\ award'.dwMax = award.dwMax
    BY <2>1 DEF Range
  <2> QED BY <2>1, <2>2 DEF AwardSet, PeerSlots, CoreSlots
<1>5. CASE DbShutdown \/ DbCrash
  <2>1. /\ db' = "down" /\ m_listData' = <<>> /\ award' = NoRange
        /\ peer' = [p \in Peer |-> ClosedPeer]
        /\ toCore' = [p \in Peer |-> <<>>] /\ core' = core
    BY <1>5 DEF DbShutdown, DbCrash, DbEnd
  <2>2. \A p \in Peer : PeerSlots(p)'
    BY <2>1, LeasableRange DEF PeerSlots, ClosedPeer
  <2> QED BY <2>1, <2>2, LeasableRange DEF AwardSet, CoreSlots
<1> QED BY <1>1, <1>2, <1>3, <1>4, <1>5

\* Every handler of a peer moves whole slots.
LEMMA PeerWhole ==
    ASSUME SlotInv, NEW p \in Peer, PeerStep(p)
    PROVE  WholeSlots'
<1> USE DEF SlotInv, WholeSlots
<1>0. /\ peer[p].m_itemRange \in Leasable /\ peer[p].m_itemSpareRange \in Leasable
      /\ toCore \in [Peer -> Seq(LeaseReply)] /\ m_listData \in Seq(SlotRange)
      /\ peer = [q \in Peer |-> peer[q]]
  BY DEF PeerSlots, TypeOK
<1>1. UNCHANGED <<db, award, core>>
  BY DEF PeerStep, QUERY_BOOT, SendSpareItemIDRange, RemovePeer, coreVars
<1>2. AwardSet' /\ \A c \in Core : CoreSlots(c)'
  BY <1>1 DEF AwardSet, CoreSlots
<1>3. CASE QUERY_BOOT(p)
  <2> DEFINE r == GetRange(m_listData)
             s == GetRange(PopRange(m_listData))
  <2>1. /\ r \in Leasable /\ s \in Leasable
        /\ m_listData' \in Seq(SlotRange)
    BY <1>0, <1>3, GetSlot DEF QUERY_BOOT
  <2>2. /\ peer' = [peer EXCEPT ![p] =
               [open |-> TRUE,
                m_itemRange |-> Assign(peer[p].m_itemRange, r),
                m_itemSpareRange |-> Assign(peer[p].m_itemSpareRange, s)]]
        /\ toCore' = [toCore EXCEPT ![p] = Append(@, BootReply(r, s))]
    BY <1>3 DEF QUERY_BOOT
  <2> HIDE DEF r, s
  <2>3. \A q \in Peer : PeerSlots(q)'
    BY <1>0, <2>1, <2>2, AssignSlot DEF PeerSlots
  <2>4. BootReply(r, s) \in LeaseReply
    BY <2>1 DEF BootReply, LeaseReply
  <2>5. toCore' \in [Peer -> Seq(LeaseReply)]
    BY <1>0, <2>2, <2>4
  <2> QED BY <1>2, <2>1, <2>3, <2>5
<1>4. CASE SendSpareItemIDRange(p)
  <2> DEFINE spare == peer[p].m_itemSpareRange
             sent == Assign(NoRange, IF IsSet(spare) THEN GetRange(m_listData)
                                     ELSE spare)
  <2>1. sent \in Leasable /\ m_listData' \in Seq(SlotRange)
    BY <1>0, <1>4, GetSlot, AssignSlot, LeasableRange DEF SendSpareItemIDRange
  <2>2. /\ peer' = [peer EXCEPT ![p] =
               [open |-> TRUE,
                m_itemRange |-> Assign(peer[p].m_itemRange, spare),
                m_itemSpareRange |-> sent]]
        /\ toCore' = [toCore EXCEPT ![p] = Append(@, SpareReply(sent))]
    BY <1>4 DEF SendSpareItemIDRange
  <2> HIDE DEF sent
  <2>3. \A q \in Peer : PeerSlots(q)'
    BY <1>0, <2>1, <2>2, AssignSlot DEF PeerSlots
  <2>4. SpareReply(sent) \in LeaseReply
    BY <2>1 DEF SpareReply, LeaseReply
  <2>5. toCore' \in [Peer -> Seq(LeaseReply)]
    BY <1>0, <2>2, <2>4
  <2> QED BY <1>2, <2>1, <2>3, <2>5
<1>5. CASE RemovePeer(p)
  <2>1. m_listData' \in Seq(SlotRange)
    BY <1>0, <1>5, ReturnWhole DEF RemovePeer
  <2>2. \A q \in Peer : PeerSlots(q)'
    BY <1>0, <1>5, LeasableRange DEF RemovePeer, PeerSlots, ClosedPeer
  <2>3. toCore' \in [Peer -> Seq(LeaseReply)]
    BY <1>0, <1>5 DEF RemovePeer
  <2> QED BY <1>2, <2>1, <2>2, <2>3
<1> QED BY <1>3, <1>4, <1>5 DEF PeerStep

\* Every step of a game core moves whole slots.
LEMMA CoreWhole ==
    ASSUME SlotInv, NEW c \in Core, CoreStep(c) \/ LoseConnection(c)
    PROVE  WholeSlots'
<1> USE DEF SlotInv, WholeSlots
<1>0. /\ CoreSlots(c) /\ toCore \in [Peer -> Seq(LeaseReply)]
      /\ core = [d \in Core |-> core[d]] /\ peer = [q \in Peer |-> peer[q]]
      /\ core[c] \in CoreState /\ core[c].m_dwCurrentID \in Nat
      /\ sock[c] # NoPeer => sock[c] \in Peer
  BY FieldType DEF TypeOK
<1>1. UNCHANGED <<db, award, m_listData>>
  BY DEF CoreStep, LoseConnection, CoreStart, Boot, SetMaxSpareItemID, GetNewID,
         SwitchToSpare, NoMoreItemID, CoreCrash, Connect, dbVars
<1>2. AwardSet' /\ m_listData' \in Seq(SlotRange)
  BY <1>1 DEF AwardSet
<1>3. (\A d \in Core \ {c} : core'[d] = core[d])
          /\ (Exit(c) => core'[c] = OffCore)
  <2>1. Exit(c) => core' = [core EXCEPT ![c] = OffCore]
    BY DEF Exit
  <2> QED BY <1>0, <2>1 DEF CoreStep, LoseConnection, CoreStart, Boot, SetMaxSpareItemID,
             GetNewID, SwitchToSpare, NoMoreItemID, CoreCrash, Connect
<1>4. Exit(c) => \A d \in Core : CoreSlots(d)'
  BY <1>3, OffSlots DEF CoreSlots
<1>5. CASE CoreStart(c) \/ LoseConnection(c) \/ GetNewID(c)
  <2>1. /\ UNCHANGED <<peer, toCore>>
        /\ core'[c].m_ItemIDRange = core[c].m_ItemIDRange
        /\ core'[c].m_ItemIDSpareRange = core[c].m_ItemIDSpareRange
        /\ core'[c].m_dwCurrentID \in {core[c].m_dwCurrentID, core[c].m_dwCurrentID + 1}
    BY <1>0, <1>5 DEF CoreStart, LoseConnection, GetNewID, dbVars, netVars, CoreState
  <2>2. CoreSlots(c)'
    BY <1>0, <2>1, LeasableRange DEF CoreSlots
  <2> QED BY <1>2, <1>3, <2>1, <2>2 DEF PeerSlots, CoreSlots
<1>6. CASE \E p \in Peer : Connect(c, p)
  <2>1. PICK p \in Peer : Connect(c, p)
    BY <1>6
  <2>2. \A q \in Peer : PeerSlots(q)'
    BY <1>0, <2>1, LeasableRange DEF Connect, PeerSlots, NewPeer, ClosedPeer
  <2>3. toCore' \in [Peer -> Seq(LeaseReply)]
    BY <1>0, <2>1 DEF Connect
  <2>4. CoreSlots(c)'
    BY <1>0, <2>1 DEF Connect, CoreSlots, CoreState
  <2> QED BY <1>2, <1>3, <2>2, <2>3, <2>4 DEF CoreSlots
<1>7. CASE Boot(c)
  <2> DEFINE m == Head(toCore[sock[c]])
  <2>1. sock[c] \in Peer /\ toCore[sock[c]] # <<>> /\ m.type = "BOOT"
    BY <1>0, <1>7 DEF Boot, Answered
  <2>2. /\ m.range \in Leasable /\ m.spare \in Leasable
        /\ Tail(toCore[sock[c]]) \in Seq(LeaseReply)
    BY <1>0, <2>1, ToldSlot
  <2>3. toCore' \in [Peer -> Seq(LeaseReply)] /\ peer' = peer
    BY <1>0, <1>7, <2>2 DEF Boot, dbVars
  <2> HIDE DEF m
  <2>4. CASE ~Exit(c)
    <3>1. core' = [core EXCEPT ![c] = [@ EXCEPT
                        !.m_ItemIDRange = m.range,
                        !.m_dwCurrentID = m.range.dwUsableItemIDMin,
                        !.m_ItemIDSpareRange = m.spare]]
      BY <1>7, <2>4 DEF Boot, m
    <3>2. /\ core'[c].m_ItemIDRange = m.range
          /\ core'[c].m_dwCurrentID = m.range.dwUsableItemIDMin
          /\ core'[c].m_ItemIDSpareRange = m.spare
      BY <1>0, <3>1 DEF CoreState
    <3>3. CoreSlots(c)'
      BY <2>2, <3>2, LeasableRange DEF CoreSlots
    <3> QED BY <1>2, <1>3, <2>3, <3>3 DEF PeerSlots, CoreSlots
  <2> QED BY <1>2, <1>4, <2>3, <2>4 DEF PeerSlots
<1>8. CASE SetMaxSpareItemID(c)
  <2> DEFINE m == Head(toCore[sock[c]])
  <2>1. sock[c] \in Peer /\ toCore[sock[c]] # <<>>
    BY <1>0, <1>8 DEF SetMaxSpareItemID, Answered
  <2>2. m.spare \in Leasable /\ Tail(toCore[sock[c]]) \in Seq(LeaseReply)
    BY <1>0, <2>1, ToldSlot
  <2>3. toCore' \in [Peer -> Seq(LeaseReply)] /\ peer' = peer
    BY <1>0, <1>8, <2>2 DEF SetMaxSpareItemID, dbVars
  <2> HIDE DEF m
  <2>4. /\ core'[c].m_ItemIDRange = core[c].m_ItemIDRange
        /\ core'[c].m_dwCurrentID = core[c].m_dwCurrentID
        /\ core'[c].m_ItemIDSpareRange = Assign(core[c].m_ItemIDSpareRange, m.spare)
    BY <1>0, <1>8 DEF SetMaxSpareItemID, m, CoreState
  <2>5. CoreSlots(c)'
    BY <1>0, <2>2, <2>4, AssignSlot DEF CoreSlots
  <2> QED BY <1>2, <1>3, <2>3, <2>5 DEF PeerSlots, CoreSlots
<1>9. CASE SwitchToSpare(c)
  <2> DEFINE spare == core[c].m_ItemIDSpareRange
  <2>1. /\ core'[c].m_ItemIDRange = spare
        /\ core'[c].m_dwCurrentID = spare.dwUsableItemIDMin + 1
        /\ core'[c].m_ItemIDSpareRange = NoRange
        /\ UNCHANGED <<peer, toCore>>
    BY <1>0, <1>9 DEF SwitchToSpare, dbVars, CoreState
  <2>2. CoreSlots(c)'
    BY <1>0, <2>1, LeasableRange DEF CoreSlots
  <2> QED BY <1>2, <1>3, <2>1, <2>2 DEF PeerSlots, CoreSlots
<1>10. CASE NoMoreItemID(c) \/ CoreCrash(c)
  <2>1. Exit(c) /\ UNCHANGED <<peer, toCore>>
    BY <1>10 DEF NoMoreItemID, CoreCrash, dbVars, netVars
  <2> QED BY <1>2, <1>4, <2>1 DEF PeerSlots
<1> QED BY <1>5, <1>6, <1>7, <1>8, <1>9, <1>10 DEF CoreStep

\* Every step moves whole slots.
LEMMA NextSlots == SlotInv /\ [Next]_vars => SlotInv'
<1> SUFFICES ASSUME SlotInv, [Next]_vars PROVE WholeSlots'
  BY NextType DEF SlotInv
<1>1. CASE UNCHANGED vars
  BY <1>1 DEF vars, SlotInv, WholeSlots, AwardSet, PeerSlots, CoreSlots
<1>2. CASE \E p \in Peer : PeerStep(p)
  BY <1>2, PeerWhole
<1>3. CASE \E c \in Core : CoreStep(c) \/ LoseConnection(c)
  BY <1>3, CoreWhole
<1>4. CASE \/ DbStart \/ BuildSlot \/ Serve \/ GainItemID \/ DbShutdown
           \/ DbCrash \/ \E id \in cached : FlushItem(id)
  BY <1>4, ServerSlots
<1> QED BY <1>1, <1>2, <1>3, <1>4 DEF Next, Attached, Parted

-----------------------------------------------------------------------------
(* What a game core may number its items with lies in its own slots.       *)

\* An id a game core may give out lies below dwMax in a slot it has.
LEMMA MintSlot ==
    ASSUME SlotInv, NEW c \in Core, NEW id \in Mintable(c)
    PROVE  /\ id \in Nat
           /\ \E r \in {core[c].m_ItemIDRange, core[c].m_ItemIDSpareRange} :
                  r \in SlotRange /\ r.dwMin <= id /\ id < r.dwMax
<1>1. /\ CoreSlots(c) /\ core[c].m_dwCurrentID \in Nat
  BY FieldType DEF SlotInv, WholeSlots
<1>2. ASSUME NEW r \in Leasable, NEW first \in Nat, r.dwMin <= first,
             id \in IdsFrom(r, first)
      PROVE  id \in Nat /\ r \in SlotRange /\ r.dwMin <= id /\ id < r.dwMax
  <2>1. r.dwMin \in Nat /\ r.dwMax \in Nat
    BY LeasableRange
  <2>2. id \in Nat /\ r.dwMin <= id /\ id < r.dwMax
    BY <1>2, <2>1 DEF IdsFrom, IsUsedUp
  <2> QED BY <2>2, LeasableRange DEF Leasable
<1>3. CASE id \in IdsFrom(core[c].m_ItemIDRange, core[c].m_dwCurrentID)
  BY <1>1, <1>2, <1>3 DEF CoreSlots
<1>4. CASE id \in Usable(core[c].m_ItemIDSpareRange)
  BY <1>1, <1>2, <1>4, LeasableRange DEF CoreSlots, Usable
<1> QED BY <1>3, <1>4 DEF Mintable

\* Two slots that share an id are one, named by its dwMin.
LEMMA SharedSlot ==
    ASSUME NEW r \in SlotRange, NEW s \in SlotRange, NEW id \in Nat,
           r.dwMin <= id, id <= r.dwMax, s.dwMin <= id, id <= s.dwMax
    PROVE  r.dwMin = s.dwMin
<1>1. PICK i \in 0 .. SlotCount - 1 : r.dwMin = SlotMin(i) /\ r.dwMax = SlotMax(i)
  BY DEF SlotRange
<1>2. PICK j \in 0 .. SlotCount - 1 : s.dwMin = SlotMin(j) /\ s.dwMax = SlotMax(j)
  BY DEF SlotRange
<1>3. i \in Nat /\ j \in Nat
  BY RangeAssumption
<1>4. i = j
  BY <1>1, <1>2, <1>3, SlotsApart
<1> QED BY <1>1, <1>2, <1>4

\* In every state with whole slots the awarded ids are those of no game core.
LEMMA SlotsAwardApart == SlotInv => AwardApart
<1> SUFFICES ASSUME SlotInv, NEW c \in Core, NEW id \in Mintable(c),
                    id \in award.dwMin .. award.dwMax
             PROVE  FALSE
  BY DEF AwardApart
<1>1. PICK r \in SlotRange : r.dwMin <= id /\ id < r.dwMax
  BY MintSlot
<1>2. PICK i \in 0 .. SlotCount - 1 :
          r.dwMin = SlotMin(i) /\ r.dwMax = SlotMax(i) /\ ~Covered(i)
  BY DEF SlotRange
<1>3. i \in Nat /\ id \in Nat
  BY MintSlot, RangeAssumption
<1>4. id \notin AwardMin .. AwardMax /\ 0 < id
  BY <1>1, <1>2, <1>3, AwardSlotApart, SlotBounds
<1> QED BY <1>3, <1>4 DEF SlotInv, WholeSlots, AwardSet

\* No game core ever numbers an item from the DB server's own interval, over
\* any crash, lost connection or restart (InitializeNowItemID, Build).
THEOREM AwardSafe == Spec => []AwardApart
BY InitSlots, NextSlots, SlotsAwardApart, PTL DEF Spec

-----------------------------------------------------------------------------
(* A game core and its peer agree, as long as none is parted.              *)

HoldsNothing(c) ==
    /\ core[c].m_ItemIDRange = NoRange /\ core[c].m_ItemIDSpareRange = NoRange
    /\ core[c].m_dwCurrentID = 0

\* A game core that is not connected never was: it has no range to give out.
Link(c) ==
    /\ IF Booted(c) THEN IsSet(core[c].m_ItemIDRange) ELSE HoldsNothing(c)
    /\ IF sock[c] = NoPeer THEN ~core[c].bSentBoot /\ ~Booted(c)
       ELSE core[c].on /\ peer[sock[c]].open /\ Agrees(c, sock[c])

\* A connection has one game core at its end.
OneCoreEach == \A c, d \in Core : sock[c] = sock[d] /\ sock[c] # NoPeer => c = d

Links == OneCoreEach /\ \A c \in Core : Link(c)

MintInv == LedgerInv /\ SlotInv /\ Links

\* A game core keeps its link in a step that touches neither it nor its peer.
LEMMA LinkFrame ==
    ASSUME NEW d \in Core, Link(d), core'[d] = core[d], sock'[d] = sock[d],
           sock[d] # NoPeer => /\ peer'[sock[d]] = peer[sock[d]]
                               /\ toDb'[sock[d]] = toDb[sock[d]]
                               /\ toCore'[sock[d]] = toCore[sock[d]]
    PROVE  Link(d)'
<1>1. CASE sock[d] = NoPeer
  BY <1>1 DEF Link, Booted, HoldsNothing
<1>2. CASE sock[d] # NoPeer
  <2>1. Agrees(d, sock[d])
    BY <1>2 DEF Link
  <2>2. Agrees(d, sock[d])'
    BY <1>2, <2>1 DEF Agrees, Booted, Held
  <2> QED BY <1>2, <2>2 DEF Link, Booted, HoldsNothing
<1> QED BY <1>1, <1>2

\* The packets a connection carries about ranges are told apart.
LEMMA PacketKinds ==
    /\ BootRequest # SpareRequest
    /\ \A r, s : /\ BootReply(r, s).type = "BOOT"
                 /\ BootReply(r, s).range = r /\ BootReply(r, s).spare = s
    /\ \A s : /\ SpareReply(s).type = "ACK_SPARE" /\ SpareReply(s).spare = s
    /\ \A x : /\ <<x>> # <<>> /\ Head(<<x>>) = x /\ Tail(<<x>>) = <<>>
              /\ Append(<<>>, x) = <<x>>
    /\ <<BootRequest>> # <<SpareRequest>>
<1>1. \A x : /\ <<x>> # <<>> /\ Head(<<x>>) = x /\ Tail(<<x>>) = <<>>
             /\ Append(<<>>, x) = <<x>>
  OBVIOUS
<1>2. BootRequest # SpareRequest
  <2>1. BootRequest.type # SpareRequest.type
    BY DEF BootRequest, SpareRequest
  <2> QED BY <2>1
<1>3. <<BootRequest>>[1] # <<SpareRequest>>[1]
  BY <1>2
<1> QED BY <1>1, <1>2, <1>3 DEF BootReply, SpareReply

\* At first no game core runs.
LEMMA InitLinks == Init => Links
BY DEF Init, Links, OneCoreEach, Link, Booted, HoldsNothing, OffCore

\* A handler of peer p keeps the link of the game core at its end.
LEMMA PeerLinks ==
    ASSUME MintInv, NEW p \in Peer, PeerStep(p)
    PROVE  Links'
<1> USE DEF MintInv, Links
<1>1. UNCHANGED <<core, sock>>
  BY DEF PeerStep, QUERY_BOOT, SendSpareItemIDRange, RemovePeer, coreVars
<1>2. /\ peer = [q \in Peer |-> peer[q]] /\ toDb = [q \in Peer |-> toDb[q]]
      /\ toCore = [q \in Peer |-> toCore[q]]
      /\ PeerSlots(p) /\ m_listData \in Seq(SlotRange)
      /\ \A c \in Core : sock[c] # NoPeer => sock[c] \in Peer
  BY DEF SlotInv, WholeSlots, TypeOK
<1>3. \A q \in Peer \ {p} : /\ peer'[q] = peer[q] /\ toDb'[q] = toDb[q]
                            /\ toCore'[q] = toCore[q]
  BY <1>2 DEF PeerStep, QUERY_BOOT, SendSpareItemIDRange, RemovePeer, ReadRequest
<1>4. OneCoreEach'
  BY <1>1 DEF OneCoreEach
<1>5. \A c \in Core : sock[c] # p => Link(c)'
  BY <1>1, <1>2, <1>3, LinkFrame
<1>6. ASSUME NEW c \in Core, sock[c] = p
      PROVE  Link(c)'
  <2>0. /\ p # NoPeer /\ core[c].on /\ Agrees(c, p) /\ Link(c)
    BY <1>6, PeerAssumption DEF Link
  <2>1. CASE QUERY_BOOT(p)
    <3> DEFINE r == GetRange(m_listData)
               s == GetRange(PopRange(m_listData))
    <3>1. /\ toDb[p] # <<>> /\ Head(toDb[p]) = BootRequest
      BY <2>1 DEF QUERY_BOOT, Pending
    <3>2. /\ toDb[p] = <<BootRequest>> /\ toCore[p] = <<>>
          /\ ~Booted(c) /\ Held(p) = {}
      BY <2>0, <3>1, PacketKinds DEF Agrees
    <3>3. peer[p].m_itemRange = NoRange /\ peer[p].m_itemSpareRange = NoRange
      BY <1>2, <3>2, LeasableRange DEF PeerSlots, Held, Leasable
    <3>4. r \in Leasable /\ s \in Leasable
      BY <1>2, GetSlot
    <3>5. Assign(NoRange, r) = r /\ Assign(NoRange, s) = s
      BY <3>4, LeasableRange DEF Assign
    <3>6. /\ peer'[p].open /\ peer'[p].m_itemRange = r /\ peer'[p].m_itemSpareRange = s
          /\ toDb'[p] = Tail(toDb[p])
          /\ toCore'[p] = Append(toCore[p], BootReply(r, s))
      BY <1>2, <2>1, <3>3, <3>5 DEF QUERY_BOOT, ReadRequest
    <3> HIDE DEF r, s
    <3>7. Agrees(c, p)'
      BY <1>1, <3>2, <3>6, PacketKinds DEF Agrees, Booted
    <3> QED BY <1>1, <1>6, <2>0, <3>6, <3>7 DEF Link, Booted, HoldsNothing
  <2>2. CASE SendSpareItemIDRange(p)
    <3> DEFINE spare == peer[p].m_itemSpareRange
               sent == Assign(NoRange, IF IsSet(spare) THEN GetRange(m_listData)
                                       ELSE spare)
    <3>1. /\ toDb[p] # <<>> /\ Head(toDb[p]) = SpareRequest
      BY <2>2 DEF SendSpareItemIDRange, Pending
    <3>2. /\ toDb[p] = <<SpareRequest>> /\ toCore[p] = <<>> /\ Booted(c)
          /\ core[c].m_ItemIDRange = peer[p].m_itemSpareRange
          /\ core[c].m_ItemIDSpareRange = NoRange
      BY <2>0, <3>1, PacketKinds DEF Agrees
    <3>3. IsSet(spare)
      BY <2>0, <3>2 DEF Link
    <3>4. /\ peer'[p].open
          /\ peer'[p].m_itemRange = Assign(peer[p].m_itemRange, spare)
          /\ peer'[p].m_itemSpareRange = sent
          /\ toDb'[p] = Tail(toDb[p])
          /\ toCore'[p] = Append(toCore[p], SpareReply(sent))
      BY <1>2, <2>2 DEF SendSpareItemIDRange, ReadRequest
    <3> HIDE DEF sent
    <3>5. peer'[p].m_itemRange = spare
      BY <3>3, <3>4 DEF Assign
    <3>6. Agrees(c, p)'
      BY <1>1, <3>2, <3>4, <3>5, PacketKinds DEF Agrees, Booted
    <3> QED BY <1>1, <1>6, <2>0, <3>4, <3>6 DEF Link, Booted, HoldsNothing
  <2>3. CASE RemovePeer(p)
    BY <1>6, <2>3 DEF RemovePeer, Disconnected
  <2> QED BY <2>1, <2>2, <2>3 DEF PeerStep
<1> QED BY <1>4, <1>5, <1>6

\* A process that ends leaves its connection, and no other game core notices.
LEMMA ExitLinks ==
    ASSUME MintInv, NEW c \in Core, Exit(c), UNCHANGED <<peer, toDb>>,
           \A q \in Peer : q # sock[c] => toCore'[q] = toCore[q]
    PROVE  Links'
<1> USE DEF MintInv, Links
<1>1. /\ core'[c] = OffCore /\ sock'[c] = NoPeer
      /\ \A d \in Core \ {c} : core'[d] = core[d] /\ sock'[d] = sock[d]
      /\ \A d \in Core : sock[d] # NoPeer => sock[d] \in Peer
  BY DEF Exit, SlotInv, TypeOK
<1>2. OneCoreEach'
  BY <1>1 DEF OneCoreEach
<1>3. Link(c)'
  BY <1>1 DEF Link, Booted, HoldsNothing, OffCore
<1>4. \A d \in Core \ {c} : Link(d)'
  BY <1>1, LinkFrame DEF OneCoreEach
<1> QED BY <1>2, <1>3, <1>4

\* A game core that connects for the first time asks for its ranges.
LEMMA ConnectLinks ==
    ASSUME MintInv, NEW c \in Core, NEW p \in Peer, Connect(c, p)
    PROVE  Links'
<1> USE DEF MintInv, Links
<1>1. /\ p # NoPeer /\ core[c].on /\ sock[c] = NoPeer /\ ~peer[p].open
      /\ ~core[c].bSentBoot /\ ~Booted(c) /\ HoldsNothing(c)
  BY PeerAssumption DEF Connect, Link
<1>2. \A d \in Core : sock[d] # p
  BY <1>1 DEF Link
<1>3. /\ sock'[c] = p /\ peer'[p] = NewPeer
      /\ toDb'[p] = <<BootRequest>> /\ toCore'[p] = <<>>
      /\ \A q \in Peer \ {p} : /\ peer'[q] = peer[q] /\ toDb'[q] = toDb[q]
                              /\ toCore'[q] = toCore[q]
      /\ core'[c] = [core[c] EXCEPT !.bSentBoot = TRUE]
      /\ \A d \in Core \ {c} : core'[d] = core[d] /\ sock'[d] = sock[d]
      /\ \A d \in Core : sock[d] # NoPeer => sock[d] \in Peer
  BY <1>1 DEF Connect, SlotInv, TypeOK
<1>4. /\ core'[c].m_ItemIDRange = core[c].m_ItemIDRange
      /\ core'[c].m_ItemIDSpareRange = core[c].m_ItemIDSpareRange
      /\ core'[c].m_dwCurrentID = core[c].m_dwCurrentID /\ core'[c].on
  BY <1>1, <1>3, FieldType DEF SlotInv, CoreState
<1>5. OneCoreEach'
  BY <1>2, <1>3 DEF OneCoreEach
<1>6. \A d \in Core \ {c} : Link(d)'
  BY <1>2, <1>3, LinkFrame
<1>7. peer'[p].open /\ Held(p)' = {}
  BY <1>3, LeasableRange DEF NewPeer, ClosedPeer, Held
<1>8. ~Booted(c)' /\ HoldsNothing(c)'
  BY <1>1, <1>4 DEF Booted, HoldsNothing
<1>9. Link(c)'
  BY <1>1, <1>3, <1>4, <1>7, <1>8 DEF Link, Agrees
<1> QED BY <1>5, <1>6, <1>9

\* A step of a connected game core that may read or add one packet of its own
\* connection leaves the links of the others alone.
LEMMA OwnLink ==
    ASSUME MintInv, NEW c \in Core, UNCHANGED <<peer, sock>>, Link(c)',
           \A d \in Core \ {c} : core'[d] = core[d],
           \A q \in Peer : q # sock[c] => /\ toDb'[q] = toDb[q]
                                          /\ toCore'[q] = toCore[q]
    PROVE  Links'
<1> USE DEF MintInv, Links
<1>1. \A d \in Core : sock[d] # NoPeer => sock[d] \in Peer
  BY DEF SlotInv, TypeOK
<1>2. \A d \in Core \ {c} : Link(d)'
  BY <1>1, LinkFrame DEF OneCoreEach
<1>3. OneCoreEach'
  BY DEF OneCoreEach
<1> QED BY <1>2, <1>3

\* Every step of a game core keeps the links.
LEMMA CoreLinks ==
    ASSUME MintInv, NEW c \in Core, CoreStep(c)
    PROVE  Links'
<1> USE DEF MintInv
<1> DEFINE p == sock[c]
<1>0. /\ Link(c) /\ core = [d \in Core |-> core[d]]
      /\ core[c] \in CoreState /\ core[c].m_dwCurrentID \in Nat
      /\ CoreSlots(c)
      /\ toDb = [q \in Peer |-> toDb[q]] /\ toCore = [q \in Peer |-> toCore[q]]
      /\ p # NoPeer => p \in Peer /\ PeerSlots(p)
  BY FieldType DEF SlotInv, WholeSlots, TypeOK, Links
<1>1. CASE CoreStart(c)
  <2>1. /\ core' = [core EXCEPT ![c].on = TRUE] /\ ~core[c].on
        /\ UNCHANGED <<peer, sock, toDb, toCore>>
    BY <1>1 DEF CoreStart, dbVars, netVars
  <2>2. /\ core'[c].m_ItemIDRange = core[c].m_ItemIDRange
        /\ core'[c].m_ItemIDSpareRange = core[c].m_ItemIDSpareRange
        /\ core'[c].m_dwCurrentID = core[c].m_dwCurrentID
        /\ core'[c].bSentBoot = core[c].bSentBoot
        /\ \A d \in Core \ {c} : core'[d] = core[d]
    BY <1>0, <2>1 DEF CoreState
  <2>3. Link(c)'
    BY <1>0, <2>1, <2>2 DEF Link, Booted, HoldsNothing
  <2> QED BY <2>1, <2>2, <2>3, OwnLink
<1>2. CASE \E q \in Peer : Connect(c, q)
  BY <1>2, ConnectLinks
<1>3. CASE Boot(c)
  <2>1. /\ p \in Peer /\ toCore[p] # <<>> /\ Head(toCore[p]).type = "BOOT"
        /\ core[c].on /\ Agrees(c, p) /\ UNCHANGED <<peer, toDb>> /\ peer[p].open
        /\ toCore'[p] = Tail(toCore[p])
        /\ \A q \in Peer : q # p => toCore'[q] = toCore[q]
    BY <1>0, <1>3 DEF Boot, Answered, Link, dbVars
  <2>2. /\ toDb[p] = <<>> /\ ~Booted(c)
        /\ toCore[p] = <<BootReply(peer[p].m_itemRange, peer[p].m_itemSpareRange)>>
    BY <2>1, PacketKinds DEF Agrees
  <2>3. CASE Exit(c)
    BY <2>1, <2>3, ExitLinks
  <2>4. CASE ~Exit(c)
    <3> DEFINE r == peer[p].m_itemRange
               s == peer[p].m_itemSpareRange
    <3>1. Head(toCore[p]).range = r /\ Head(toCore[p]).spare = s
          /\ toCore'[p] = <<>>
      BY <2>1, <2>2, PacketKinds
    <3>2. /\ IsSet(r) /\ IsSet(s) /\ sock' = sock
          /\ core' = [core EXCEPT ![c] = [@ EXCEPT
                        !.m_ItemIDRange = r,
                        !.m_dwCurrentID = r.dwUsableItemIDMin,
                        !.m_ItemIDSpareRange = s]]
      BY <1>3, <2>4, <3>1 DEF Boot
    <3> HIDE DEF r, s
    <3>3. /\ core'[c].m_ItemIDRange = r /\ core'[c].m_ItemIDSpareRange = s
          /\ core'[c].m_dwCurrentID = r.dwUsableItemIDMin /\ core'[c].on
          /\ \A d \in Core \ {c} : core'[d] = core[d]
      BY <1>0, <2>1, <3>2 DEF CoreState
    <3>4. Booted(c)'
      BY <3>2, <3>3 DEF Booted, IsSet
    <3>5. Agrees(c, p)'
      BY <2>1, <2>2, <3>1, <3>2, <3>3, <3>4 DEF Agrees, r, s
    <3>6. Link(c)'
      BY <2>1, <3>2, <3>3, <3>4, <3>5, PeerAssumption DEF Link
    <3> QED BY <2>1, <3>2, <3>3, <3>6, OwnLink
  <2> QED BY <2>3, <2>4
<1>4. CASE SetMaxSpareItemID(c)
  <2>1. /\ p \in Peer /\ toCore[p] # <<>> /\ Head(toCore[p]).type = "ACK_SPARE"
        /\ core[c].on /\ Agrees(c, p) /\ UNCHANGED <<peer, toDb, sock>> /\ peer[p].open
        /\ toCore'[p] = Tail(toCore[p])
        /\ \A q \in Peer : q # p => toCore'[q] = toCore[q]
    BY <1>0, <1>4 DEF SetMaxSpareItemID, Answered, Link, dbVars
  <2>2. /\ toDb[p] = <<>> /\ Booted(c)
        /\ toCore[p] = <<SpareReply(peer[p].m_itemSpareRange)>>
        /\ core[c].m_ItemIDRange = peer[p].m_itemRange
        /\ core[c].m_ItemIDSpareRange = NoRange
    BY <2>1, PacketKinds DEF Agrees
  <2>3. Head(toCore[p]).spare = peer[p].m_itemSpareRange /\ toCore'[p] = <<>>
    BY <2>1, <2>2, PacketKinds
  <2>4. Assign(NoRange, peer[p].m_itemSpareRange) = peer[p].m_itemSpareRange
    BY <1>0, <2>1, LeasableRange, PeerAssumption DEF PeerSlots, Assign
  <2>5. /\ core'[c].m_ItemIDRange = core[c].m_ItemIDRange
        /\ core'[c].m_ItemIDSpareRange = peer[p].m_itemSpareRange
        /\ core'[c].m_dwCurrentID = core[c].m_dwCurrentID /\ core'[c].on
        /\ \A d \in Core \ {c} : core'[d] = core[d]
    BY <1>0, <1>4, <2>1, <2>2, <2>3, <2>4 DEF SetMaxSpareItemID, CoreState
  <2>6. Booted(c)'
    BY <2>2, <2>5 DEF Booted
  <2>7. Agrees(c, p)'
    BY <2>1, <2>2, <2>3, <2>5, <2>6 DEF Agrees
  <2>8. Link(c)'
    BY <1>0, <2>1, <2>2, <2>5, <2>6, <2>7, PeerAssumption DEF Link
  <2> QED BY <2>1, <2>5, <2>8, OwnLink
<1>5. CASE GetNewID(c)
  <2>1. /\ Booted(c) /\ UNCHANGED <<peer, toDb, toCore, sock>>
        /\ core'[c].m_ItemIDRange = core[c].m_ItemIDRange
        /\ core'[c].m_ItemIDSpareRange = core[c].m_ItemIDSpareRange
        /\ core'[c].m_dwCurrentID = core[c].m_dwCurrentID + 1
        /\ core'[c].on = core[c].on
        /\ \A d \in Core \ {c} : core'[d] = core[d]
    BY <1>0, <1>5 DEF GetNewID, dbVars, netVars, CoreState
  <2>2. Booted(c)'
    BY <1>0, <2>1 DEF Booted
  <2>3. p # NoPeer /\ Agrees(c, p) /\ core[c].on /\ peer[p].open
    BY <1>0, <2>1 DEF Link
  <2>4. Agrees(c, p)'
    BY <2>1, <2>2, <2>3 DEF Agrees
  <2>5. Link(c)'
    BY <1>0, <2>1, <2>2, <2>3, <2>4 DEF Link
  <2> QED BY <2>1, <2>5, OwnLink
<1>6. CASE SwitchToSpare(c)
  <2> DEFINE spare == core[c].m_ItemIDSpareRange
  <2>1. Booted(c) /\ IsSet(spare) /\ UNCHANGED <<peer, toCore, sock>>
    BY <1>6 DEF SwitchToSpare, dbVars
  <2>2. p # NoPeer /\ p \in Peer /\ Agrees(c, p) /\ core[c].on /\ peer[p].open
    BY <1>0, <2>1 DEF Link
  <2>3. /\ toDb[p] = <<>> /\ toCore[p] = <<>>
        /\ spare = peer[p].m_itemSpareRange
    BY <2>1, <2>2, LeasableRange DEF Agrees
  <2>4. /\ core' = [core EXCEPT ![c] = [@ EXCEPT
                        !.m_ItemIDRange = spare,
                        !.m_dwCurrentID = spare.dwUsableItemIDMin + 1,
                        !.m_ItemIDSpareRange = NoRange]]
        /\ toDb' = [toDb EXCEPT ![p] = Append(@, SpareRequest)]
    BY <1>6, <2>2 DEF SwitchToSpare
  <2>5. /\ core'[c].m_ItemIDRange = spare
        /\ core'[c].m_ItemIDSpareRange = NoRange
        /\ core'[c].m_dwCurrentID = spare.dwUsableItemIDMin + 1
        /\ core'[c].on = core[c].on
        /\ \A d \in Core \ {c} : core'[d] = core[d]
        /\ toDb'[p] = <<SpareRequest>>
        /\ \A q \in Peer : q # p => toDb'[q] = toDb[q]
    BY <1>0, <2>2, <2>3, <2>4, PacketKinds DEF CoreState
  <2>6. spare.dwUsableItemIDMin \in Nat
    BY <1>0, LeasableRange DEF CoreSlots
  <2>7. Booted(c)'
    BY <2>2, <2>5, <2>6 DEF Booted
  <2>8. Agrees(c, p)'
    BY <2>1, <2>3, <2>5, <2>7 DEF Agrees
  <2>9. Link(c)'
    BY <2>1, <2>2, <2>5, <2>7, <2>8 DEF Link
  <2> QED BY <2>1, <2>5, <2>9, OwnLink
<1>7. CASE NoMoreItemID(c) \/ CoreCrash(c)
  BY <1>7, ExitLinks DEF NoMoreItemID, CoreCrash, dbVars, netVars
<1> QED BY <1>1, <1>2, <1>3, <1>4, <1>5, <1>6, <1>7 DEF CoreStep

\* No step of AttachedSpec parts a game core from what its peer books for it.
LEMMA NextMint == MintInv /\ [Attached]_vars => MintInv'
<1> SUFFICES ASSUME MintInv, [Attached]_vars PROVE MintInv'
  OBVIOUS
<1>1. LedgerInv' /\ SlotInv'
  BY NextLedger, NextSlots DEF MintInv, Next
<1>2. CASE UNCHANGED <<peer, toDb, toCore, core, sock>>
  <2>1. Links'
    BY <1>2, LinkFrame DEF MintInv, Links, OneCoreEach
  <2> QED BY <1>1, <2>1 DEF MintInv
<1>3. CASE \E p \in Peer : PeerStep(p)
  BY <1>1, <1>3, PeerLinks DEF MintInv
<1>4. CASE \E c \in Core : CoreStep(c)
  BY <1>1, <1>4, CoreLinks DEF MintInv
<1> QED BY <1>2, <1>3, <1>4 DEF Attached, vars, DbStart, BuildSlot, Serve,
           GainItemID, FlushItem, dbVars, netVars, coreVars

\* The invariant of AttachedSpec.
LEMMA MintSafe == AttachedSpec => []MintInv
<1>1. Init => MintInv
  BY InitLedger, InitSlots, InitLinks DEF MintInv
<1> QED BY <1>1, NextMint, PTL DEF AttachedSpec

\* In every state in which none was parted, the books of its peer say what a
\* game core holds.
LEMMA LinkHeld ==
    ASSUME MintInv, NEW c \in Core,
           NEW r \in {core[c].m_ItemIDRange, core[c].m_ItemIDSpareRange},
           r \in SlotRange
    PROVE  sock[c] \in Peer /\ r.dwMin \in Held(sock[c])
<1>1. r # NoRange /\ r.dwMin # 0
  BY LeasableRange
<1>2. Link(c) /\ Booted(c)
  BY <1>1 DEF MintInv, Links, Link, HoldsNothing
<1>3. sock[c] # NoPeer /\ Agrees(c, sock[c])
  BY <1>2 DEF Link
<1>4. sock[c] \in Peer
  BY <1>3 DEF MintInv, SlotInv, TypeOK
<1>5. r \in {peer[sock[c]].m_itemRange, peer[sock[c]].m_itemSpareRange}
  BY <1>1, <1>2, <1>3 DEF Agrees
<1> QED BY <1>1, <1>4, <1>5 DEF Held

\* Two game cores have no slot in common, and none of the list.
LEMMA MintApart == MintInv => ExclusiveMint /\ NoCollision
<1> SUFFICES ASSUME MintInv PROVE ExclusiveMint /\ NoCollision
  OBVIOUS
<1>0. SlotInv
  BY DEF MintInv
<1>1. ASSUME NEW c \in Core, NEW d \in Core, c # d, NEW id \in Mintable(c),
             id \in Mintable(d)
      PROVE  FALSE
  <2>1. PICK r \in {core[c].m_ItemIDRange, core[c].m_ItemIDSpareRange} :
            r \in SlotRange /\ r.dwMin <= id /\ id < r.dwMax
    BY <1>0, MintSlot
  <2>2. PICK s \in {core[d].m_ItemIDRange, core[d].m_ItemIDSpareRange} :
            s \in SlotRange /\ s.dwMin <= id /\ id < s.dwMax
    BY <1>0, <1>1, MintSlot
  <2>3. id \in Nat /\ r \in Range /\ s \in Range
    BY <1>0, <2>1, <2>2, MintSlot, LeasableRange
  <2>4. r.dwMin = s.dwMin
    BY <2>1, <2>2, <2>3, SharedSlot DEF Range
  <2>5. r.dwMin \in Held(sock[c]) /\ s.dwMin \in Held(sock[d])
        /\ sock[c] \in Peer /\ sock[d] \in Peer
    BY <2>1, <2>2, LinkHeld
  <2>6. sock[c] # sock[d]
    BY <1>1, <2>5, PeerAssumption DEF MintInv, Links, OneCoreEach
  <2> QED BY <2>4, <2>5, <2>6 DEF MintInv, LedgerInv, LedgerExclusive, HeldOnce
<1>2. ASSUME NEW i \in 1 .. Len(m_listData), NEW c \in Core,
             NEW id \in Mintable(c), id \in Usable(m_listData[i])
      PROVE  FALSE
  <2>1. PICK r \in {core[c].m_ItemIDRange, core[c].m_ItemIDSpareRange} :
            r \in SlotRange /\ r.dwMin <= id /\ id < r.dwMax
    BY <1>0, MintSlot
  <2> DEFINE s == m_listData[i]
  <2>2. s \in SlotRange
    BY <1>0 DEF SlotInv, WholeSlots
  <2>3. id \in Nat /\ r \in Range /\ s \in Range
    BY <1>0, <2>1, <2>2, MintSlot, LeasableRange
  <2>4. /\ s.dwMin \in Nat /\ s.dwMax \in Nat /\ s.dwUsableItemIDMin \in Nat
        /\ s.dwMin <= s.dwUsableItemIDMin
    BY <2>2, LeasableRange
  <2>5. s.dwMin <= id /\ id <= s.dwMax
    BY <1>2, <2>3, <2>4 DEF Usable, IdsFrom
  <2>6. r.dwMin = s.dwMin
    BY <2>1, <2>2, <2>3, <2>5, SharedSlot DEF Range
  <2>7. r.dwMin \in Held(sock[c]) /\ sock[c] \in Peer
    BY <2>1, LinkHeld
  <2> QED BY <2>6, <2>7 DEF MintInv, LedgerInv, LedgerExclusive, ListUnheld
<1> QED BY <1>1, <1>2 DEF ExclusiveMint, NoCollision

\* As long as none is parted from the DB server, what a game core holds is what
\* its peer books for it, through boots, spares in flight and crashes
\* (QUERY_BOOT, SendSpareItemIDRange, CInputDB::Boot, SetMaxSpareItemID).
THEOREM LeaseSafe == AttachedSpec => []LeaseAgreement
<1>1. MintInv => LeaseAgreement
  BY DEF MintInv, Links, Link, LeaseAgreement
<1> QED BY <1>1, MintSafe, PTL

\* As long as none is parted from the DB server, two game cores never number
\* items from the same ids (GetNewID).
THEOREM MintExclusive == AttachedSpec => []ExclusiveMint
BY MintApart, MintSafe, PTL

\* As long as none is parted from the DB server, a range that waits to be
\* leased overlaps none in use (FCheckCollision, CheckItemIDRangeCollision).
THEOREM NoneCollides == AttachedSpec => []NoCollision
BY MintApart, MintSafe, PTL
=============================================================================
