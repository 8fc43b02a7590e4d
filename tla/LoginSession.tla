---------------------------- MODULE LoginSession ----------------------------
(***************************************************************************)
(* The session of one account: which client, on which game core, may play  *)
(* it. Clients connect to the cores with descriptors, the cores talk to    *)
(* the DB server over connections that may break and to each other, and    *)
(* the DB server keeps the login data that the auth server announced and   *)
(* the account's entry in m_map_kLogonAccount. The account has one         *)
(* character. Left out are answers that change nothing on the core         *)
(* (LOGIN_NOT_EXIST, PLAYER_LOAD_FAILED), the return from the game to the  *)
(* list of characters, and a LOGIN_SUCCESS whose status is not OK, which   *)
(* the core answers with a LOGOUT: LOGIN_BY_KEY sets the status to OK      *)
(* (ClientManagerLogin.cpp:146), and HEADER_GD_LOGIN, which does not, is   *)
(* never handled by the DB server.                                         *)
(***************************************************************************)
EXTENDS Naturals, Sequences, FiniteSets

CONSTANTS Core,       \* game cores
          Desc,       \* descriptors (handles) of clients
          CoreOf,     \* the core of each
          MaxKey,     \* bound: login keys that the auth server gives out
          Obj,        \* CLoginData objects
          None,       \* mark: no object, no descriptor
          MaxAsk,     \* bound: requests and answers of a descriptor under way
          MaxOpen,    \* bound: clients that are there at the same time
          MaxLoad,    \* bound: these, keys and faults together
          Early,      \* bound: clients only before a second key and a fault
          Faulty,     \* bound: the cores that faults happen to
          MaxFaults   \* bound: crashes of cores and connections that break

ASSUME LoginAssumption ==
    /\ \A d \in Desc : CoreOf[d] \in Core
    /\ None \notin Desc \cup Obj \cup Nat
    /\ MaxKey \in Nat /\ MaxAsk \in Nat /\ MaxOpen \in Nat
    /\ MaxLoad \in Nat /\ MaxFaults \in Nat
    /\ Faulty \subseteq Core /\ Early \subseteq Desc

(* Keys are numbers; which, does not matter, so they come in order.        *)
Key == 1..MaxKey

(* Memory does not run out: the maps refer to one object for each key and  *)
(* two more at most.                                                       *)
ASSUME MemoryAssumption ==
    /\ IsFiniteSet(Desc)
    /\ IsFiniteSet(Obj) /\ Cardinality(Obj) > MaxKey + 2

VARIABLES
    \* game cores
    phase,      \* of a descriptor: "none" when there is no such handle
    loginKey,   \* DESC::m_dwLoginKey
    bound,      \* descriptors with an account table (BindAccountTable)
    playing,    \* descriptors with a character
    kicked,     \* descriptors with a m_pkDisconnectEvent
    named,      \* m_map_loginName of a core, for the account
    kicks,      \* cores that a GG_DISCONNECT is on its way to
    \* connections
    link,       \* "up" or "down": what the core knows
    gen,        \* peers a core has had before the latest
    toDb,       \* m_peerList: of each peer, the packets from its core
    toCore,     \* packets to a core
    \* DB server
    object,     \* the CLoginData objects, None when freed
    byKey,      \* m_map_pkLoginData
    byLogin,    \* m_map_pkLoginDataByLogin and ...ByAID
    logon,      \* m_map_kLogonAccount
    queries,    \* queries whose results are still to be handled
    issued,     \* keys that were given out so far
    crashes, lost

coreVars == <<phase, loginKey, bound, playing, kicked, named, kicks>>
dataVars == <<object, byKey, byLogin, logon>>
vars == <<coreVars, link, gen, toDb, toCore, dataVars, queries,
          issued, crashes, lost>>

Peer == Core \X Nat

(* CPeer::GetHandle of the latest connection of c.                         *)
PeerOf(c) == <<c, gen[c]>>

(* A peer whose connection is broken stays in m_peerList until the DB      *)
(* server sees it; its core may have connected again by then.              *)
Broken(p) == p # PeerOf(p[1]) \/ link[p[1]] = "down"

LoginData == [key : Key, peer : Peer \cup {None}, play : BOOLEAN, deleted : BOOLEAN]

ASSUME FreedAssumption == None \notin LoginData

DbPacket ==
    [op : {"loginByKey"}, desc : Desc, key : Key]
    \cup [op : {"playerLoad", "logout"}, desc : Desc]
    \cup [op : {"setup"}, keys : Seq(Key)]

CorePacket == [op : {"loginSuccess", "loginAlready", "playerLoadSuccess"}, desc : Desc]

DbQuery == [op : {"login", "player"}, desc : Desc, peer : Peer]

TypeOK ==
    /\ phase \in [Desc -> {"none", "login", "select", "loading", "game", "close"}]
    /\ loginKey \in [Desc -> Key \cup {None}]
    /\ bound \subseteq Desc /\ playing \subseteq Desc /\ kicked \subseteq Desc
    /\ named \in [Core -> Desc \cup {None}]
    /\ kicks \subseteq Core
    /\ link \in [Core -> {"up", "down"}]
    /\ gen \in [Core -> Nat]
    /\ DOMAIN toDb \subseteq Peer /\ toDb \in [DOMAIN toDb -> Seq(DbPacket)]
    /\ toCore \in [Core -> Seq(CorePacket)]
    /\ object \in [Obj -> LoginData \cup {None}]
    /\ byKey \in [Key -> Obj \cup {None}]
    /\ byLogin \in Obj \cup {None}
    /\ logon \in Obj \cup {None}
    /\ queries \in Seq(DbQuery)
    /\ issued \in 0..MaxKey
    /\ crashes \in Nat /\ lost \in Nat

Init ==
    /\ phase = [d \in Desc |-> "none"]
    /\ loginKey = [d \in Desc |-> None]
    /\ bound = {} /\ playing = {} /\ kicked = {} /\ kicks = {}
    /\ named = [c \in Core |-> None]
    /\ link = [c \in Core |-> "up"]
    /\ gen = [c \in Core |-> 0]
    /\ toDb = [p \in {PeerOf(c) : c \in Core} |-> <<>>]
    /\ toCore = [c \in Core |-> <<>>]
    /\ object = [o \in Obj |-> None]
    /\ byKey = [k \in Key |-> None]
    /\ byLogin = None /\ logon = None
    /\ queries = <<>>
    /\ issued = 0
    /\ crashes = 0 /\ lost = 0

(* DBPacket: without a connection the packet is dropped.                   *)
ToDb(c, packet) ==
    toDb' = IF link[c] = "up" THEN [toDb EXCEPT ![PeerOf(c)] = Append(@, packet)] ELSE toDb

(* CPeer::EncodeHeader and what follows it. What goes to a peer whose      *)
(* connection is broken is lost.                                           *)
ToCore(p, op, d) ==
    toCore' = IF Broken(p) THEN toCore
              ELSE [toCore EXCEPT ![p[1]] = Append(@, [op |-> op, desc |-> d])]

(* A request or an answer of a descriptor is under way.                    *)
Mentions(s, d) == \E i \in DOMAIN s : s[i].op # "setup" /\ s[i].desc = d

Idle(d) == ~ \/ \E p \in DOMAIN toDb : Mentions(toDb[p], d)
             \/ Mentions(toCore[CoreOf[d]], d)
             \/ Mentions(queries, d)

(* How many are, for the bound.                                            *)
About(s, d) == Len(SelectSeq(s, LAMBDA m : m.op # "setup" /\ m.desc = d))

UnderWay(d) ==
    LET c == CoreOf[d]
        asked == IF link[c] = "up" THEN toDb[PeerOf(c)] ELSE <<>>
    IN  About(asked, d) + About(toCore[c], d) + About(queries, d)

(* Bounds: the clients that are there, until nothing about them is under   *)
(* way; room for another one, another key, another fault; no client that   *)
(* has to be early.                                                        *)
There == {d \in Desc : phase[d] # "none" \/ ~Idle(d)}
Room == Cardinality(There) + issued + crashes + lost < MaxLoad
NobodyEarly == There \cap Early = {}

-----------------------------------------------------------------------------
(* Clients                                                                 *)

clientOnly == <<link, gen, toCore, dataVars, queries, issued, crashes, lost>>

(* A new connection has a handle of its own (m_iHandleCount).              *)
Connect(d) ==
    /\ phase[d] = "none"
    /\ Idle(d)
    /\ Room /\ Cardinality(There) < MaxOpen
    /\ d \in Early => issued <= 1 /\ crashes + lost = 0
    /\ phase' = [phase EXCEPT ![d] = "login"]
    /\ UNCHANGED <<loginKey, bound, playing, kicked, named, kicks, toDb, clientOnly>>

(* The phases in which CInputLogin reads what a client sends.              *)
InputLogin == {"login", "select", "loading"}

(* CInputLogin::LoginByKey, with the key that was given out last (the      *)
(* packet may be late for it). Bound: after the login only with another    *)
(* key.                                                                    *)
LoginByKey(d) ==
    /\ phase[d] \in InputLogin
    /\ phase[d] # "login" => loginKey[d] # issued
    /\ UnderWay(d) < MaxAsk
    /\ issued > 0
    /\ loginKey' = [loginKey EXCEPT ![d] = issued]
    /\ ToDb(CoreOf[d], [op |-> "loginByKey", desc |-> d, key |-> issued])
    /\ UNCHANGED <<phase, bound, playing, kicked, named, kicks, clientOnly>>

(* CInputLogin::CharacterSelect, also of a client that has a character.    *)
CharacterSelect(d) ==
    /\ phase[d] \in InputLogin
    /\ d \in bound
    /\ UnderWay(d) < MaxAsk
    /\ ToDb(CoreOf[d], [op |-> "playerLoad", desc |-> d])
    /\ UNCHANGED <<coreVars, clientOnly>>

(* CInputLogin::Entergame. Bound: not before the client has its answers.   *)
EnterGame(d) ==
    /\ phase[d] \in InputLogin
    /\ Idle(d)
    /\ phase' = [phase EXCEPT ![d] = IF d \in playing THEN "game" ELSE "close"]
    /\ UNCHANGED <<loginKey, bound, playing, kicked, named, kicks, toDb, clientOnly>>

(* The client goes away. Bound: not before it has asked anything.          *)
Close(d) ==
    /\ phase[d] \in InputLogin \cup {"game"}
    /\ phase[d] = "login" => ~Idle(d)
    /\ phase' = [phase EXCEPT ![d] = "close"]
    /\ UNCHANGED <<loginKey, bound, playing, kicked, named, kicks, toDb, clientOnly>>

-----------------------------------------------------------------------------
(* Game cores                                                              *)

coreOnly == <<link, gen, dataVars, queries, issued, crashes, lost>>

Receive(c, op) ==
    /\ toCore[c] # <<>>
    /\ Head(toCore[c]).op = op
    /\ toCore' = [toCore EXCEPT ![c] = Tail(@)]

(* Mutant: the LOGIN_SUCCESS of a client that has gone is forgotten.       *)
LoginSuccessForgotten(c) ==
    LET d == Head(toCore[c]).desc IN
    /\ Receive(c, "loginSuccess")
    /\ bound' = IF phase[d] = "none" THEN bound ELSE bound \cup {d}
    /\ named' = [named EXCEPT ![c] = IF @ = None /\ phase[d] # "none" THEN d ELSE @]
    /\ phase' = [phase EXCEPT ![d] = IF @ = "none" THEN @ ELSE "select"]
    /\ UNCHANGED <<loginKey, playing, kicked, kicks, toDb, coreOnly>>

(* CInputDB::LoginSuccess. FindByHandle finds a descriptor until it is     *)
(* destroyed, so one that is closing goes on with PHASE_SELECT.            *)
LoginSuccess(c) ==
    LET d == Head(toCore[c]).desc IN
    /\ Receive(c, "loginSuccess")
    /\ \/ /\ phase[d] = "none"
          /\ ToDb(c, [op |-> "logout", desc |-> d])
          /\ UNCHANGED <<phase, bound, named>>
       \/ /\ phase[d] # "none"
          /\ bound' = bound \cup {d}
          /\ named' = [named EXCEPT ![c] = IF @ = None THEN d ELSE @]
          /\ phase' = [phase EXCEPT ![d] = "select"]
          /\ UNCHANGED toDb
    /\ UNCHANGED <<loginKey, playing, kicked, kicks, coreOnly>>

(* DESC::DisconnectOfSameLogin: a character has five seconds.              *)
DisconnectOfSameLogin(d) ==
    IF d \in playing
    THEN kicked' = kicked \cup {d} /\ UNCHANGED phase
    ELSE phase' = [phase EXCEPT ![d] = "close"] /\ UNCHANGED kicked

(* Mutant: only the other cores are searched for the other session.        *)
LoginAlreadyElsewhere(c) ==
    /\ Receive(c, "loginAlready")
    /\ IF phase[Head(toCore[c]).desc] = "none" THEN UNCHANGED kicks
       ELSE kicks' = kicks \cup (Core \ {c})
    /\ UNCHANGED <<phase, loginKey, bound, playing, kicked, named, toDb, coreOnly>>

(* Mutant: only this core is searched for the other session.               *)
LoginAlreadyHere(c) ==
    /\ Receive(c, "loginAlready")
    /\ IF phase[Head(toCore[c]).desc] = "none" \/ named[c] = None
       THEN UNCHANGED <<phase, kicked>>
       ELSE DisconnectOfSameLogin(named[c])
    /\ UNCHANGED <<loginKey, bound, playing, named, kicks, toDb, coreOnly>>

(* CInputDB::LoginAlready: the other session has to go, here or elsewhere. *)
LoginAlready(c) ==
    /\ Receive(c, "loginAlready")
    /\ \/ /\ phase[Head(toCore[c]).desc] = "none"
          /\ UNCHANGED <<phase, kicked, kicks>>
       \/ /\ phase[Head(toCore[c]).desc] # "none"
          /\ named[c] # None
          /\ DisconnectOfSameLogin(named[c])
          /\ UNCHANGED kicks
       \/ /\ phase[Head(toCore[c]).desc] # "none"
          /\ named[c] = None
          /\ kicks' = kicks \cup (Core \ {c})
          /\ UNCHANGED <<phase, kicked>>
    /\ UNCHANGED <<loginKey, bound, playing, named, toDb, coreOnly>>

(* CInputP2P::Disconnect                                                   *)
P2PDisconnect(c) ==
    /\ c \in kicks
    /\ kicks' = kicks \ {c}
    /\ IF named[c] = None THEN UNCHANGED <<phase, kicked>>
       ELSE DisconnectOfSameLogin(named[c])
    /\ UNCHANGED <<loginKey, bound, playing, named, toDb, toCore, coreOnly>>

(* CInputDB::PlayerLoad: the place of the character is invalid, it is in   *)
(* the game already, its map is on another core, or it can be loaded. A    *)
(* descriptor that is closing goes on here, too.                           *)
PlayerLoad(c) ==
    LET d == Head(toCore[c]).desc
        there == phase[d] # "none"
        present == \E e \in playing : CoreOf[e] = c
    IN
    /\ Receive(c, "playerLoadSuccess")
    /\ \/ /\ ~there \/ present
          /\ UNCHANGED <<phase, playing>>
       \/ /\ there
          /\ phase' = [phase EXCEPT ![d] = "close"]
          /\ UNCHANGED playing
       \/ /\ there /\ ~present
          /\ playing' = playing \cup {d}
          /\ \E ph \in {"loading", "close"} : phase' = [phase EXCEPT ![d] = ph]
    /\ UNCHANGED <<loginKey, bound, kicked, named, kicks, toDb, coreOnly>>

(* disconnect_event                                                        *)
DisconnectEvent(d) ==
    /\ d \in kicked
    /\ kicked' = kicked \ {d}
    /\ phase' = [phase EXCEPT ![d] = "close"]
    /\ UNCHANGED <<loginKey, bound, playing, named, kicks, toDb, toCore, coreOnly>>

(* DestroyClosed, DESC::Destroy: the account's name is forgotten whoever   *)
(* it stands for.                                                          *)
Destroy(d) ==
    /\ phase[d] = "close"
    /\ phase' = [phase EXCEPT ![d] = "none"]
    /\ loginKey' = [loginKey EXCEPT ![d] = None]
    /\ bound' = bound \ {d}
    /\ playing' = playing \ {d}
    /\ kicked' = kicked \ {d}
    /\ IF d \in bound
       THEN /\ named' = [named EXCEPT ![CoreOf[d]] = None]
            /\ ToDb(CoreOf[d], [op |-> "logout", desc |-> d])
       ELSE UNCHANGED <<named, toDb>>
    /\ UNCHANGED <<kicks, toCore, coreOnly>>

-----------------------------------------------------------------------------
(* DB server                                                               *)

dbOnly == <<coreVars, link, gen, crashes, lost>>

Referenced(byK, byL, on) == ({byK[k] : k \in Key} \cup {byL, on}) \ {None}

(* A new CLoginData.                                                       *)
NewLoginData(k) == [key |-> k, peer |-> None, play |-> FALSE, deleted |-> FALSE]

(* Mutant: freed even if the account is logged on with it.                 *)
DeleteLoginDataAtOnce(o) == [object EXCEPT ![o] = None]

(* DeleteLoginData: while the account is logged on, the object is freed    *)
(* when it logs out - if it is the one that is logged on.                  *)
DeleteLoginData(o) ==
    [object EXCEPT ![o] = IF logon = None THEN None ELSE [@ EXCEPT !.deleted = TRUE]]

(* QUERY_AUTH_LOGIN, with a key that is not in use.                        *)
QueryAuthLogin ==
    LET k == issued + 1
        o == CHOOSE x \in Obj : x \notin Referenced(byKey, byLogin, logon)
        others == IF byLogin = None THEN object ELSE DeleteLoginData(byLogin)
    IN
    /\ issued < MaxKey /\ Room
    /\ issued > 0 => NobodyEarly
    /\ issued' = k
    /\ object' = [others EXCEPT ![o] = NewLoginData(k)]
    /\ byKey' = [x \in Key |-> IF x = k THEN o
                               ELSE IF byLogin # None /\ x = object[byLogin].key THEN None
                               ELSE byKey[x]]
    /\ byLogin' = o
    /\ UNCHANGED <<dbOnly, toDb, toCore, logon, queries>>

(* The next packet of a peer, also of what came before its connection      *)
(* broke.                                                                  *)
Packet(p, op) ==
    /\ p \in DOMAIN toDb
    /\ toDb[p] # <<>>
    /\ Head(toDb[p]).op = op
    /\ toDb' = [toDb EXCEPT ![p] = Tail(@)]

ReturnQuery(p, op, d) == queries' = Append(queries, [op |-> op, desc |-> d, peer |-> p])

(* The query for the account and the one for its characters, which         *)
(* RESULT_LOGIN_BY_KEY sends, are one.                                     *)
QueryLoginByKey(p) ==
    LET m == Head(toDb[p]) IN
    /\ Packet(p, "loginByKey")
    /\ \/ byKey[m.key] = None /\ UNCHANGED <<toCore, queries>>
       \/ /\ byKey[m.key] # None /\ logon # None
          /\ ToCore(p, "loginAlready", m.desc)
          /\ UNCHANGED queries
       \/ /\ byKey[m.key] # None /\ logon = None
          /\ ReturnQuery(p, "login", m.desc)
          /\ UNCHANGED toCore
    /\ UNCHANGED <<dbOnly, dataVars, issued>>

(* The next result, of a query that a peer which is still there asked for: *)
(* AnalyzeQueryResult drops the others.                                    *)
PeerThere == Head(queries).peer \in DOMAIN toDb

Result(op) ==
    /\ queries # <<>>
    /\ PeerThere
    /\ Head(queries).op = op

ResultDropped ==
    /\ queries # <<>>
    /\ ~PeerThere
    /\ queries' = Tail(queries)
    /\ UNCHANGED <<dbOnly, toDb, toCore, dataVars, issued>>

(* Mutant: no look at m_map_kLogonAccount.                                 *)
CanLogonAlways == byLogin # None

(* InsertLogonAccount                                                      *)
CanLogon == logon = None /\ byLogin # None

(* RESULT_LOGIN: the account may have been logged on since the query.      *)
ResultLogin ==
    LET q == Head(queries) IN
    /\ Result("login")
    /\ queries' = Tail(queries)
    /\ IF CanLogon
       THEN /\ object' = [object EXCEPT ![byLogin].peer = q.peer]
            /\ logon' = byLogin
            /\ ToCore(q.peer, "loginSuccess", q.desc)
       ELSE /\ ToCore(q.peer, "loginAlready", q.desc)
            /\ UNCHANGED <<object, logon>>
    /\ UNCHANGED <<dbOnly, toDb, byKey, byLogin, issued>>

(* SetPlay(true) and PLAYER_LOAD_SUCCESS, or the load is refused. The      *)
(* login data are those of the account now.                                *)
LoadPlayer(p, d) ==
    IF byLogin = None \/ object[byLogin].play
    THEN UNCHANGED <<object, toCore>>
    ELSE /\ object' = [object EXCEPT ![byLogin].play = TRUE]
         /\ ToCore(p, "playerLoadSuccess", d)

(* QUERY_PLAYER_LOAD: the player is in the player cache or is queried.     *)
QueryPlayerLoad(p) ==
    LET d == Head(toDb[p]).desc IN
    /\ Packet(p, "playerLoad")
    /\ \/ LoadPlayer(p, d) /\ UNCHANGED queries
       \/ ReturnQuery(p, "player", d) /\ UNCHANGED <<object, toCore>>
    /\ UNCHANGED <<dbOnly, byKey, byLogin, logon, issued>>

ResultPlayerLoad ==
    /\ Result("player")
    /\ queries' = Tail(queries)
    /\ LoadPlayer(Head(queries).peer, Head(queries).desc)
    /\ UNCHANGED <<dbOnly, toDb, byKey, byLogin, logon, issued>>

(* What DeleteLogonAccount and RemovePeer do with the account's entry.     *)
EndLogon ==
    /\ object' = [object EXCEPT ![logon] = IF @.deleted THEN None ELSE [@ EXCEPT !.play = FALSE]]
    /\ logon' = None

(* QUERY_LOGOUT, DeleteLogonAccount: another peer is not heard.            *)
QueryLogout(p) ==
    /\ Packet(p, "logout")
    /\ IF byLogin # None /\ logon # None /\ object[logon].peer = p
       THEN EndLogon
       ELSE UNCHANGED <<object, logon>>
    /\ UNCHANGED <<dbOnly, toCore, byKey, byLogin, queries, issued>>

(* One login of QUERY_SETUP. The maps keep what they have, so the object   *)
(* that is logged on and the one that is set to play may be different.     *)
SetupLogin(data, k, peer) ==
    LET o == CHOOSE x \in Obj : x \notin Referenced(data.byKey, data.byLogin, data.logon)
        current == IF data.byLogin = None THEN o ELSE data.byLogin
        inserted == [data.object EXCEPT ![o] = NewLoginData(k)]
    IN  [object  |-> IF data.logon # None THEN inserted
                     ELSE [[inserted EXCEPT ![current].peer = peer] EXCEPT ![o].play = TRUE],
         byKey   |-> [data.byKey EXCEPT ![k] = IF @ = None THEN o ELSE @],
         byLogin |-> current,
         logon   |-> IF data.logon # None THEN data.logon ELSE current]

(* The login data after the first i logins of a SETUP, for every i.        *)
SetupAll(keys, peer) ==
    LET data[i \in 0..Len(keys)] ==
            IF i = 0
            THEN [object |-> object, byKey |-> byKey, byLogin |-> byLogin, logon |-> logon]
            ELSE SetupLogin(data[i - 1], keys[i], peer)
    IN  data

QuerySetup(p) ==
    LET keys == Head(toDb[p]).keys
        after == SetupAll(keys, p)[Len(keys)]
    IN
    /\ Packet(p, "setup")
    /\ object' = after.object /\ byKey' = after.byKey
    /\ byLogin' = after.byLogin /\ logon' = after.logon
    /\ UNCHANGED <<dbOnly, toCore, queries, issued>>

-----------------------------------------------------------------------------
(* Connections                                                             *)

(* A core breaks down with its clients; what it has sent may still arrive. *)
Crash(c) ==
    LET gone == {d \in Desc : CoreOf[d] = c} IN
    /\ crashes + lost < MaxFaults /\ NobodyEarly /\ Room
    /\ crashes' = crashes + 1
    /\ phase' = [d \in Desc |-> IF d \in gone THEN "none" ELSE phase[d]]
    /\ loginKey' = [d \in Desc |-> IF d \in gone THEN None ELSE loginKey[d]]
    /\ bound' = bound \ gone
    /\ playing' = playing \ gone
    /\ kicked' = kicked \ gone
    /\ named' = [named EXCEPT ![c] = None]
    /\ kicks' = kicks \ {c}
    /\ link' = [link EXCEPT ![c] = "down"]
    /\ toCore' = [toCore EXCEPT ![c] = <<>>]
    /\ UNCHANGED <<gen, toDb, dataVars, queries, issued, lost>>

(* Only the connection breaks: the clients stay.                           *)
LoseLink(c) ==
    /\ crashes + lost < MaxFaults /\ NobodyEarly /\ Room
    /\ lost' = lost + 1
    /\ link[c] = "up"
    /\ link' = [link EXCEPT ![c] = "down"]
    /\ toCore' = [toCore EXCEPT ![c] = <<>>]
    /\ UNCHANGED <<coreVars, gen, toDb, dataVars, queries, issued, crashes>>

PeersBut(p) == [q \in DOMAIN toDb \ {p} |-> toDb[q]]

(* Mutant: the accounts of the peer stay logged on.                        *)
RemovePeerOnly(p) ==
    /\ p \in DOMAIN toDb
    /\ Broken(p)
    /\ toDb' = PeersBut(p)
    /\ UNCHANGED <<coreVars, link, gen, toCore, dataVars, queries, issued, crashes, lost>>

(* RemovePeer, when the DB server sees the connection closed.              *)
RemovePeer(p) ==
    /\ p \in DOMAIN toDb
    /\ Broken(p)
    /\ toDb' = PeersBut(p)
    /\ IF logon # None /\ object[logon].peer = p
       THEN EndLogon
       ELSE UNCHANGED <<object, logon>>
    /\ UNCHANGED <<coreVars, link, gen, toCore, byKey, byLogin, queries, issued, crashes, lost>>

(* HEADER_GD_SETUP names the clients in D, in the order of a hash set.     *)
Setups(D) ==
    { [op |-> "setup", keys |-> [i \in 1..Cardinality(D) |-> loginKey[order[i]]]] :
        order \in { f \in [1..Cardinality(D) -> D] : \A d \in D : \E i \in DOMAIN f : f[i] = d } }

(* AddPeer, for a core that introduces itself with a SETUP.                *)
AddPeer(p, setup) ==
    toDb' = [q \in DOMAIN toDb \cup {p} |-> IF q = p THEN <<setup>> ELSE toDb[q]]

(* Mutant: every client is named, with an account table or without.        *)
ReconnectAll(c) ==
    /\ link[c] = "down"
    /\ link' = [link EXCEPT ![c] = "up"]
    /\ gen' = [gen EXCEPT ![c] = @ + 1]
    /\ \E m \in Setups({d \in Desc : CoreOf[d] = c}) : AddPeer(<<c, gen[c] + 1>>, m)
    /\ UNCHANGED <<coreVars, toCore, dataVars, queries, issued, crashes, lost>>

(* CLIENT_DESC::SetPhase(PHASE_DBCLIENT) after TryConnect: HEADER_GD_SETUP *)
(* names the clients that have an account table. The DB server may not     *)
(* have removed the peer of before.                                        *)
Reconnect(c) ==
    /\ link[c] = "down"
    /\ link' = [link EXCEPT ![c] = "up"]
    /\ gen' = [gen EXCEPT ![c] = @ + 1]
    /\ \E m \in Setups({d \in bound : CoreOf[d] = c}) : AddPeer(<<c, gen[c] + 1>>, m)
    /\ UNCHANGED <<coreVars, toCore, dataVars, queries, issued, crashes, lost>>

-----------------------------------------------------------------------------

FromPeer(p) ==
    QueryLoginByKey(p) \/ QueryPlayerLoad(p) \/ QueryLogout(p) \/ QuerySetup(p)

QueryResult == ResultDropped \/ ResultLogin \/ ResultPlayerLoad

FromDb(c) == LoginSuccess(c) \/ LoginAlready(c) \/ PlayerLoad(c)

(* The peers of c.                                                         *)
PeersOf(c) == {p \in DOMAIN toDb : p[1] = c}

Next ==
    \/ \E d \in Desc :
        \/ Connect(d) \/ LoginByKey(d) \/ CharacterSelect(d) \/ EnterGame(d)
        \/ Close(d) \/ DisconnectEvent(d) \/ Destroy(d)
    \/ \E c \in Core : FromDb(c) \/ P2PDisconnect(c) \/ Reconnect(c)
    \/ \E p \in DOMAIN toDb : FromPeer(p) \/ RemovePeer(p)
    \/ \E c \in Faulty : Crash(c) \/ LoseLink(c)
    \/ QueryAuthLogin
    \/ QueryResult

Spec == Init /\ [][Next]_vars

(* The main loops of the servers handle what has arrived and what has      *)
(* timed out. Clients do what they want, and nobody has to reconnect.      *)
FairSpec ==
    /\ Spec
    /\ WF_vars(QueryResult)
    /\ \A c \in Core :
        /\ WF_vars(FromDb(c)) /\ WF_vars(P2PDisconnect(c))
        /\ WF_vars(\E p \in PeersOf(c) : FromPeer(p))
    /\ \A c \in Faulty : WF_vars(\E p \in PeersOf(c) : RemovePeer(p))
    /\ \A d \in Desc : WF_vars(DisconnectEvent(d)) /\ WF_vars(Destroy(d))

-----------------------------------------------------------------------------
(* Properties                                                              *)

(* The clients that a packet of this kind is about.                        *)
InFlight(s, op) == {d \in Desc : \E i \in DOMAIN s : s[i].op = op /\ s[i].desc = d}

(* The descriptors that hold the account, from the LOGIN_SUCCESS on its    *)
(* way to the LOGOUT on its way.                                           *)
Sessions ==
    bound \cup (UNION {InFlight(toCore[c], "loginSuccess") : c \in Core})
          \cup (UNION {InFlight(toDb[p], "logout") : p \in DOMAIN toDb})

(* Of all clients on all cores one at most has the account, and the DB     *)
(* server knows: however logins, late results, kicks, closing descriptors  *)
(* and crashes of cores interleave, as long as no connection breaks whose  *)
(* core lives on: then the account is free until the core's SETUP.         *)
OneSession ==
    lost = 0 => Cardinality(Sessions) <= 1 /\ (Sessions # {} => logon # None)

(* What the maps refer to has not been freed: an object that is replaced   *)
(* while it is logged on is freed at the logout, and not before.           *)
NoDangling == \A o \in Referenced(byKey, byLogin, logon) : object[o] # None

(* An account that is logged on belongs to a peer that is there. Any other *)
(* handle would be refused at LOGOUT and the account would be stuck.       *)
LogonHasPeer ==
    logon # None => object[logon].peer \in DOMAIN toDb

(* An account does not stay logged on without a client: a LOGIN_SUCCESS    *)
(* that finds its client gone, a crash and a lost LOGOUT are made good.    *)
LogonFreed == logon # None ~> (logon = None \/ bound # {})

(* When a client asks for an account that is logged on, on the same core   *)
(* or elsewhere, sooner or later no other client plays with it, unless     *)
(* that client is gone before or a connection breaks whose core lives on.  *)
KickedOut ==
    \A e \in Desc :
        e \in InFlight(toCore[CoreOf[e]], "loginAlready")
            ~> (playing \subseteq {e} \/ phase[e] = "none" \/ lost > 0)
=============================================================================
