------------------------- MODULE LoginSessionProofs -------------------------
(***************************************************************************)
(* Proofs about LoginSession, for any number of game cores, clients, login *)
(* keys and faults.                                                        *)
(***************************************************************************)
EXTENDS LoginSession, FiniteSetTheorems, TLAPS

-----------------------------------------------------------------------------
(* Numbers, sets and the function that QUERY_SETUP computes.               *)

\* A set of numbers that has 0, and with a number the next, has all of them.
LEMMA NatSet ==
    ASSUME NEW S, 0 \in S, \A n \in Nat : n \in S => n + 1 \in S
    PROVE  Nat \subseteq S
<1> DEFINE R == OpToRel(<, Nat)
           T == Nat \ S
<1>1. SUFFICES ASSUME T # {} PROVE FALSE
  OBVIOUS
<1>2. IsWellFoundedOn(R, Nat)
  BY NatLessThanWellFounded
<1>3. PICK m \in T : \A k \in T : <<k, m>> \notin R
  <2> HIDE DEF R
  <2>1. T \subseteq Nat
    OBVIOUS
  <2> HIDE DEF T
  <2> QED BY <1>1, <1>2, <2>1, WFMin
<1>4. \A k \in T : ~(k < m)
  BY <1>3 DEF OpToRel
<1>5. m \in Nat /\ m # 0 /\ m \notin S
  OBVIOUS
<1>6. m - 1 \in Nat /\ m - 1 \in S
  BY <1>4, <1>5
<1>7. (m - 1) + 1 \in S
  BY <1>6
<1> QED BY <1>5, <1>7

\* The login data as QUERY_SETUP finds them.
LoginState == [object |-> object, byKey |-> byKey, byLogin |-> byLogin, logon |-> logon]

\* The function that SetupAll chooses exists, so its equation holds: what the
\* next login of a SETUP does starts from what the logins before it left.
LEMMA SetupSteps ==
    ASSUME NEW keys \in Seq(Key), NEW peer
    PROVE  /\ SetupAll(keys, peer)[0] = LoginState
           /\ \A i \in 1 .. Len(keys) :
                  SetupAll(keys, peer)[i]
                      = SetupLogin(SetupAll(keys, peer)[i - 1], keys[i], peer)
<1> DEFINE After(x, i) == SetupLogin(x, keys[i], peer)
           IsData(f, n) == f = [i \in 0 .. n |-> IF i = 0 THEN LoginState
                                                 ELSE After(f[i - 1], i)]
           S == { n \in Nat : \E f : IsData(f, n) }
<1> HIDE DEF After
<1>1. 0 \in S
  <2> DEFINE f == [i \in 0 .. 0 |-> LoginState]
  <2>1. IsData(f, 0)
    OBVIOUS
  <2> QED BY <2>1
<1>2. ASSUME NEW n \in Nat, n \in S
      PROVE  n + 1 \in S
  <2>1. PICK f : IsData(f, n)
    BY <1>2
  <2> DEFINE g == [i \in 0 .. n + 1 |-> IF i = n + 1 THEN After(f[n], n + 1) ELSE f[i]]
  <2>2. \A i \in 0 .. n + 1 : g[i] = IF i = 0 THEN LoginState ELSE After(g[i - 1], i)
    <3>1. SUFFICES ASSUME NEW i \in 0 .. n + 1
                   PROVE  g[i] = IF i = 0 THEN LoginState ELSE After(g[i - 1], i)
      OBVIOUS
    <3>2. CASE i = 0
      BY <2>1, <3>2
    <3>3. CASE i = n + 1
      <4>1. g[i] = After(f[n], i) /\ i # 0 /\ i - 1 = n /\ g[n] = f[n]
        BY <3>3
      <4> QED BY <4>1
    <3>4. CASE i # 0 /\ i # n + 1
      <4>1. i \in 0 .. n /\ i - 1 \in 0 .. n /\ i - 1 # n + 1
        BY <3>4
      <4>2. g[i] = f[i] /\ g[i - 1] = f[i - 1]
        BY <3>4, <4>1
      <4>3. f[i] = After(f[i - 1], i)
        BY <2>1, <3>4, <4>1
      <4> QED BY <3>4, <4>2, <4>3
    <3> QED BY <3>2, <3>3, <3>4
  <2>3. IsData(g, n + 1)
    BY <2>2
  <2> HIDE DEF g, IsData
  <2>4. \E h : IsData(h, n + 1)
    BY <2>3
  <2> QED BY <2>4
<1>3. Nat \subseteq S
  <2> HIDE DEF S
  <2> QED BY <1>1, <1>2, NatSet
<1>4. Len(keys) \in Nat
  OBVIOUS
<1>5. \E f : IsData(f, Len(keys))
  BY <1>3, <1>4
<1>6. SetupAll(keys, peer) = CHOOSE f : IsData(f, Len(keys))
  BY DEF SetupAll, LoginState, After
<1>7. IsData(SetupAll(keys, peer), Len(keys))
  <2> HIDE DEF IsData
  <2> QED BY <1>5, <1>6
<1> QED BY <1>4, <1>7 DEF After

-----------------------------------------------------------------------------
(* The login data of the DB server.                                        *)

DataType(obj, byK, byL, on) ==
    /\ obj \in [Obj -> LoginData \cup {None}]
    /\ byK \in [Key -> Obj \cup {None}]
    /\ byL \in Obj \cup {None} /\ on \in Obj \cup {None}

\* What the maps refer to by a key or by the login is allocated and not about
\* to be freed, and a key refers to an object of that key; the account that is
\* logged on is allocated, has a login, and belongs to one of the peers P.
DataLinks(obj, byK, byL, on, P) ==
    /\ \A k \in Key : byK[k] # None =>
           /\ obj[byK[k]] # None /\ obj[byK[k]].key = k
           /\ ~obj[byK[k]].deleted
    /\ byL # None => obj[byL] # None /\ ~obj[byL].deleted
    /\ on # None => /\ byL # None /\ obj[on] # None
                    /\ obj[on].peer \in P

DataInv(obj, byK, byL, on, P) ==
    DataType(obj, byK, byL, on) /\ DataLinks(obj, byK, byL, on, P)

\* None is no object.
LEMMA NoneApart == None \notin Obj /\ None \notin Desc /\ None \notin Key
BY LoginAssumption DEF Key

\* One more element makes a finite set larger by one at most.
LEMMA AddOne ==
    ASSUME NEW S, IsFiniteSet(S), NEW x
    PROVE  /\ IsFiniteSet(S \cup {x})
           /\ Cardinality(S) \in Nat /\ Cardinality(S \cup {x}) \in Nat
           /\ Cardinality(S \cup {x}) <= Cardinality(S) + 1
<1>1. Cardinality(S) \in Nat
  BY FS_CardinalityType
<1>2. /\ IsFiniteSet(S \cup {x})
      /\ Cardinality(S \cup {x}) = IF x \in S THEN Cardinality(S) ELSE Cardinality(S) + 1
  BY FS_AddElement
<1> QED BY <1>1, <1>2

\* Memory does not run out: there is an object that no map refers to.
LEMMA FreeObject ==
    ASSUME NEW byK \in [Key -> Obj \cup {None}],
           NEW byL \in Obj \cup {None}, NEW on \in Obj \cup {None}
    PROVE  LET o == CHOOSE x \in Obj : x \notin Referenced(byK, byL, on)
           IN  o \in Obj /\ o \notin Referenced(byK, byL, on)
<1> DEFINE T == { byK[k] : k \in Key }
           U == (T \cup {byL}) \cup {on}
<1>1. MaxKey \in Nat /\ IsFiniteSet(Key) /\ Cardinality(Key) = MaxKey
  BY FS_Interval, LoginAssumption DEF Key
<1>2. byK \in Surjection(Key, T)
  BY DEF Surjection
<1>3. IsFiniteSet(T) /\ Cardinality(T) <= MaxKey
  <2> HIDE DEF T
  <2> QED BY <1>1, <1>2, FS_Surjection
<1>4. IsFiniteSet(U) /\ Cardinality(U) <= MaxKey + 2
  <2> HIDE DEF T
  <2>1. /\ IsFiniteSet(T \cup {byL}) /\ Cardinality(T) \in Nat
        /\ Cardinality(T \cup {byL}) <= Cardinality(T) + 1
        /\ Cardinality(T \cup {byL}) \in Nat
    BY <1>3, AddOne
  <2>2. /\ IsFiniteSet(U) /\ Cardinality(U) \in Nat
        /\ Cardinality(U) <= Cardinality(T \cup {byL}) + 1
    BY <2>1, AddOne
  <2> HIDE DEF U
  <2> QED BY <1>1, <1>3, <2>1, <2>2
<1>5. \E x \in Obj : x \notin U
  <2>1. SUFFICES ASSUME Obj \in SUBSET U PROVE FALSE
    OBVIOUS
  <2> HIDE DEF U
  <2>2. Cardinality(Obj) <= Cardinality(U) /\ Cardinality(U) \in Nat
        /\ Cardinality(Obj) \in Nat
    BY <1>4, <2>1, FS_Subset, FS_CardinalityType, MemoryAssumption
  <2> QED BY <1>1, <1>4, <2>2, MemoryAssumption
<1>6. \E x \in Obj : x \notin Referenced(byK, byL, on)
  BY <1>5 DEF Referenced
<1> QED BY <1>6

\* What is not referenced is not what one of the maps refers to.
LEMMA Unreferenced ==
    ASSUME NEW byK, NEW byL, NEW on, NEW o \in Obj,
           o \notin Referenced(byK, byL, on)
    PROVE  /\ \A k \in Key : byK[k] # o
           /\ byL # o /\ on # o
BY NoneApart DEF Referenced

\* A CLoginData, a new one, and one of whose fields one is set.
LEMMA ObjectFields ==
    ASSUME NEW x \in LoginData
    PROVE  /\ x # None /\ x.key \in Key /\ x.peer \in Peer \cup {None}
           /\ x.deleted \in BOOLEAN
BY FreedAssumption DEF LoginData

LEMMA NewFields ==
    ASSUME NEW k \in Key
    PROVE  /\ NewLoginData(k) \in LoginData
           /\ NewLoginData(k).key = k /\ ~NewLoginData(k).deleted
BY DEF NewLoginData, LoginData

LEMMA DeletedFields ==
    ASSUME NEW x \in LoginData, NEW y, y = [x EXCEPT !.deleted = TRUE]
    PROVE  /\ y \in LoginData
           /\ y.key = x.key /\ y.peer = x.peer
BY DEF LoginData

LEMMA PlayFields ==
    ASSUME NEW x \in LoginData, NEW y,
           y = [x EXCEPT !.play = TRUE] \/ y = [x EXCEPT !.play = FALSE]
    PROVE  /\ y \in LoginData
           /\ y.key = x.key /\ y.peer = x.peer /\ y.deleted = x.deleted
BY DEF LoginData

LEMMA PeerFields ==
    ASSUME NEW x \in LoginData, NEW p \in Peer, NEW y, y = [x EXCEPT !.peer = p]
    PROVE  /\ y \in LoginData
           /\ y.key = x.key /\ y.peer = p /\ y.deleted = x.deleted
BY DEF LoginData

\* QUERY_AUTH_LOGIN replaces the account's login data: the old ones leave the
\* maps, and are freed at once or marked for the logout.
LEMMA AuthData ==
    ASSUME NEW P \in SUBSET Peer, DataInv(object, byKey, byLogin, logon, P),
           issued \in 0 .. MaxKey, QueryAuthLogin
    PROVE  DataInv(object', byKey', byLogin', logon', P)
<1> DEFINE k == issued + 1
           o == CHOOSE x \in Obj : x \notin Referenced(byKey, byLogin, logon)
           others == IF byLogin = None THEN object ELSE DeleteLoginData(byLogin)
<1> USE DEF DataInv
<1>1. o \in Obj /\ o \notin Referenced(byKey, byLogin, logon)
  BY FreeObject DEF DataType
<1> HIDE DEF o
<1>2. /\ o \in Obj /\ \A x \in Key : byKey[x] # o
      /\ byLogin # o /\ logon # o
  BY <1>1, Unreferenced
<1>3. k \in Key
  BY LoginAssumption DEF QueryAuthLogin, Key
<1>4. /\ object' = [others EXCEPT ![o] = NewLoginData(k)]
      /\ byKey' = [x \in Key |-> IF x = k THEN o
                               ELSE IF byLogin # None /\ x = object[byLogin].key THEN None
                               ELSE byKey[x]]
      /\ byLogin' = o /\ logon' = logon
  BY DEF QueryAuthLogin, o
<1> HIDE DEF k
<1>5. /\ others \in [Obj -> LoginData \cup {None}]
      /\ \A x \in Obj : x # byLogin => others[x] = object[x]
      /\ byLogin # None /\ logon # None =>
             /\ others[byLogin] \in LoginData
             /\ others[byLogin].peer = object[byLogin].peer
  <2>1. CASE byLogin = None
    BY <2>1, NoneApart DEF DataType
  <2>2. CASE byLogin # None /\ logon = None
    BY <2>2, NoneApart DEF DataType, DeleteLoginData
  <2>3. CASE byLogin # None /\ logon # None
    <3>1. byLogin \in Obj /\ object[byLogin] \in LoginData
      BY <2>3 DEF DataType, DataLinks
    <3>2. others = [object EXCEPT ![byLogin] = [@ EXCEPT !.deleted = TRUE]]
      BY <2>3 DEF DeleteLoginData
    <3> QED BY <2>3, <3>1, <3>2, DeletedFields DEF DataType
  <2> QED BY <2>1, <2>2, <2>3
<1> HIDE DEF others
<1>6. /\ object' \in [Obj -> LoginData \cup {None}]
      /\ object'[o] = NewLoginData(k)
      /\ \A x \in Obj : x # o => object'[x] = others[x]
  BY <1>2, <1>3, <1>4, <1>5, NewFields
<1>7. DataType(object', byKey', byLogin', logon')
  BY <1>2, <1>4, <1>6 DEF DataType
<1>8. ASSUME NEW x \in Key, byKey'[x] # None
      PROVE  /\ object'[byKey'[x]] # None /\ object'[byKey'[x]].key = x
             /\ ~object'[byKey'[x]].deleted
  <2>1. CASE x = k
    BY <1>3, <1>4, <1>6, <2>1, NewFields, ObjectFields
  <2>2. CASE x # k
    <3>1. /\ byKey'[x] = byKey[x]
          /\ ~(byLogin # None /\ x = object[byLogin].key)
      BY <1>4, <1>8, <2>2
    <3>2. /\ byKey[x] \in Obj /\ byKey[x] # o
          /\ object[byKey[x]] # None /\ object[byKey[x]].key = x
          /\ ~object[byKey[x]].deleted
      BY <1>2, <1>8, <3>1 DEF DataType, DataLinks
    <3>3. byKey[x] # byLogin
      BY <1>8, <3>1, <3>2
    <3> QED BY <1>5, <1>6, <3>1, <3>2, <3>3
  <2> QED BY <2>1, <2>2
<1>9. logon' # None => /\ object'[logon'] # None
                       /\ object'[logon'].peer \in P
  <2>1. SUFFICES ASSUME logon # None
                 PROVE  object'[logon] # None /\ object'[logon].peer \in P
    BY <1>4
  <2>2. /\ logon \in Obj /\ object[logon] # None /\ object[logon].peer \in P
        /\ byLogin # None /\ object'[logon] = others[logon]
    BY <1>2, <1>6, <2>1 DEF DataType, DataLinks
  <2> QED BY <1>5, <2>1, <2>2, FreedAssumption
<1>10. /\ byLogin' # None /\ object'[byLogin'] # None
       /\ ~object'[byLogin'].deleted
  BY <1>2, <1>3, <1>4, <1>6, NewFields, ObjectFields, NoneApart
<1> QED BY <1>7, <1>8, <1>9, <1>10 DEF DataLinks

\* One object changes its peer or its play flag: no map is the worse for it.
LEMMA FieldData ==
    ASSUME NEW P \in SUBSET Peer, DataInv(object, byKey, byLogin, logon, P),
           NEW obj, NEW on \in Obj \cup {None},
           obj \in [Obj -> LoginData \cup {None}],
           \A x \in Obj : object[x] # None =>
               /\ obj[x] # None /\ obj[x].key = object[x].key
               /\ obj[x].deleted = object[x].deleted,
           on # None => /\ byLogin # None /\ obj[on] # None /\ obj[on].peer \in P
    PROVE  DataInv(obj, byKey, byLogin, on, P)
<1>1. DataType(obj, byKey, byLogin, on)
  BY DEF DataInv, DataType
<1>2. DataLinks(obj, byKey, byLogin, on, P)
  BY DEF DataInv, DataType, DataLinks
<1> QED BY <1>1, <1>2 DEF DataInv

\* InsertLogonAccount, for a peer that is there.
LEMMA LogonData ==
    ASSUME NEW P \in SUBSET Peer, DataInv(object, byKey, byLogin, logon, P),
           NEW p \in P, byLogin # None
    PROVE  DataInv([object EXCEPT ![byLogin].peer = p], byKey, byLogin, byLogin, P)
<1> DEFINE obj == [object EXCEPT ![byLogin].peer = p]
<1>1. /\ object \in [Obj -> LoginData \cup {None}]
      /\ byLogin \in Obj /\ object[byLogin] \in LoginData /\ p \in Peer
  BY DEF DataInv, DataType, DataLinks
<1>2. /\ obj \in [Obj -> LoginData \cup {None}]
      /\ obj[byLogin] = [object[byLogin] EXCEPT !.peer = p]
      /\ \A x \in Obj : x # byLogin => obj[x] = object[x]
  BY <1>1, PeerFields
<1> HIDE DEF obj
<1>3. /\ obj[byLogin] # None /\ obj[byLogin].peer = p
      /\ obj[byLogin].key = object[byLogin].key
      /\ obj[byLogin].deleted = object[byLogin].deleted
  BY <1>1, <1>2, PeerFields, ObjectFields
<1>4. DataInv(obj, byKey, byLogin, byLogin, P)
  BY <1>1, <1>2, <1>3, FieldData
<1> QED BY <1>4 DEF obj

\* SetPlay(true), of the account's login data.
LEMMA PlayData ==
    ASSUME NEW P \in SUBSET Peer, DataInv(object, byKey, byLogin, logon, P),
           NEW o \in Obj, object[o] # None
    PROVE  DataInv([object EXCEPT ![o].play = TRUE], byKey, byLogin, logon, P)
<1> DEFINE obj == [object EXCEPT ![o].play = TRUE]
<1>1. /\ object \in [Obj -> LoginData \cup {None}]
      /\ object[o] \in LoginData /\ logon \in Obj \cup {None}
      /\ logon # None => /\ byLogin # None /\ object[logon] \in LoginData
                         /\ object[logon].peer \in P
  BY DEF DataInv, DataType, DataLinks
<1>2. /\ obj \in [Obj -> LoginData \cup {None}]
      /\ obj[o] = [object[o] EXCEPT !.play = TRUE]
      /\ \A x \in Obj : x # o => obj[x] = object[x]
  BY <1>1, PlayFields
<1> HIDE DEF obj
<1>3. /\ obj[o] # None /\ obj[o].peer = object[o].peer
      /\ obj[o].key = object[o].key
      /\ obj[o].deleted = object[o].deleted
  BY <1>1, <1>2, PlayFields, ObjectFields
<1>4. logon # None => /\ byLogin # None /\ obj[logon] # None /\ obj[logon].peer \in P
  BY <1>1, <1>2, <1>3, FreedAssumption
<1>5. DataInv(obj, byKey, byLogin, logon, P)
  BY <1>1, <1>2, <1>3, <1>4, FieldData
<1> QED BY <1>5 DEF obj

\* DeleteLogonAccount frees what was marked, which no map refers to any more.
LEMMA EndData ==
    ASSUME NEW P, DataInv(object, byKey, byLogin, logon, P), logon # None, EndLogon,
           NEW Q
    PROVE  DataInv(object', byKey, byLogin, logon', Q)
<1>1. /\ object \in [Obj -> LoginData \cup {None}] /\ logon \in Obj
      /\ object[logon] \in LoginData
      /\ object' = [object EXCEPT ![logon] =
                       IF @.deleted THEN None ELSE [@ EXCEPT !.play = FALSE]]
      /\ logon' = None
  BY DEF DataInv, DataType, DataLinks, EndLogon
<1>2. /\ object' \in [Obj -> LoginData \cup {None}]
      /\ \A x \in Obj : x # logon => object'[x] = object[x]
      /\ ~object[logon].deleted => /\ object'[logon] # None
                                   /\ object'[logon].key = object[logon].key
                                   /\ ~object'[logon].deleted
  BY <1>1, PlayFields, ObjectFields
<1>3. DataType(object', byKey, byLogin, logon')
  BY <1>1, <1>2 DEF DataInv, DataType
<1>4. DataLinks(object', byKey, byLogin, logon', Q)
  BY <1>1, <1>2 DEF DataInv, DataType, DataLinks
<1> QED BY <1>3, <1>4 DEF DataInv

\* One login of QUERY_SETUP, of a peer that is there.
LEMMA SetupLoginData ==
    ASSUME NEW P \in SUBSET Peer, NEW data,
           DataInv(data.object, data.byKey, data.byLogin, data.logon, P),
           NEW k \in Key, NEW p \in P, NEW next, next = SetupLogin(data, k, p)
    PROVE  DataInv(next.object, next.byKey, next.byLogin, next.logon, P)
<1> DEFINE o == CHOOSE x \in Obj : x \notin Referenced(data.byKey, data.byLogin, data.logon)
           current == IF data.byLogin = None THEN o ELSE data.byLogin
           inserted == [data.object EXCEPT ![o] = NewLoginData(k)]
           placed == [inserted EXCEPT ![current].peer = p]
           played == [placed EXCEPT ![o].play = TRUE]
<1> USE DEF DataInv
<1>1. o \in Obj /\ o \notin Referenced(data.byKey, data.byLogin, data.logon)
  BY FreeObject DEF DataType
<1>2. next = [object  |-> IF data.logon # None THEN inserted ELSE played,
              byKey   |-> [data.byKey EXCEPT ![k] = IF @ = None THEN o ELSE @],
              byLogin |-> current,
              logon   |-> IF data.logon # None THEN data.logon ELSE current]
  BY DEF SetupLogin
<1> HIDE DEF o
<1>3. /\ \A x \in Key : data.byKey[x] # o
      /\ data.byLogin # o /\ data.logon # o /\ o # None
  BY <1>1, Unreferenced, NoneApart
<1>4. /\ data.object \in [Obj -> LoginData \cup {None}]
      /\ data.byKey \in [Key -> Obj \cup {None}]
      /\ data.byLogin \in Obj \cup {None} /\ data.logon \in Obj \cup {None}
      /\ current \in Obj /\ current # None /\ p \in Peer
      /\ data.logon # None => data.byLogin # None
  BY <1>1, NoneApart DEF DataType, DataLinks
<1>5. /\ inserted \in [Obj -> LoginData \cup {None}]
      /\ inserted[o] = NewLoginData(k)
      /\ \A x \in Obj : x # o => inserted[x] = data.object[x]
  BY <1>1, <1>4, NewFields
<1>6. /\ inserted[current] \in LoginData /\ ~inserted[current].deleted
      /\ inserted[o] \in LoginData
      /\ inserted[o].key = k /\ ~inserted[o].deleted
  <2>1. inserted[o] \in LoginData /\ inserted[o].key = k /\ ~inserted[o].deleted
    BY <1>5, NewFields
  <2>2. data.byLogin # None => /\ inserted[data.byLogin] \in LoginData
                               /\ ~inserted[data.byLogin].deleted
    BY <1>3, <1>4, <1>5 DEF DataLinks
  <2> HIDE DEF inserted
  <2> QED BY <2>1, <2>2
<1> HIDE DEF inserted
<1>7. /\ placed \in [Obj -> LoginData \cup {None}]
      /\ placed[current] = [inserted[current] EXCEPT !.peer = p]
      /\ \A x \in Obj : x # current => placed[x] = inserted[x]
  BY <1>4, <1>5, <1>6, PeerFields
<1>8. placed[o] \in LoginData
  BY <1>1, <1>4, <1>6, <1>7, PeerFields
<1> HIDE DEF placed
<1>9. /\ played \in [Obj -> LoginData \cup {None}]
      /\ played[o] = [placed[o] EXCEPT !.play = TRUE]
      /\ \A x \in Obj : x # o => played[x] = placed[x]
  BY <1>1, <1>7, <1>8, PlayFields
<1> HIDE DEF played, current
<1>10. \A x \in Obj : inserted[x] # None =>
           /\ played[x] # None /\ played[x].key = inserted[x].key
           /\ played[x].deleted = inserted[x].deleted
  <2>1. ASSUME NEW x \in Obj, inserted[x] # None
        PROVE  /\ placed[x] \in LoginData /\ placed[x].key = inserted[x].key
               /\ placed[x].deleted = inserted[x].deleted
    BY <1>4, <1>5, <1>6, <1>7, <2>1, PeerFields, ObjectFields
  <2> QED BY <1>9, <2>1, PlayFields, ObjectFields
<1>11. played[current].peer = p
  <2>1. placed[current].peer = p /\ placed[current] \in LoginData
    BY <1>4, <1>6, <1>7, PeerFields
  <2> QED BY <1>4, <1>9, <2>1, PlayFields
<1>12. /\ next.object = IF data.logon # None THEN inserted ELSE played
       /\ next.byKey = [data.byKey EXCEPT ![k] = IF @ = None THEN o ELSE @]
       /\ next.byLogin = current
       /\ next.logon = IF data.logon # None THEN data.logon ELSE current
  BY <1>2
<1>13. DataType(next.object, next.byKey, next.byLogin, next.logon)
  BY <1>1, <1>4, <1>5, <1>9, <1>12 DEF DataType
<1>14. \A x \in Obj : inserted[x] # None =>
           /\ next.object[x] # None /\ next.object[x].key = inserted[x].key
           /\ next.object[x].deleted = inserted[x].deleted
  BY <1>10, <1>12
<1>15. ASSUME NEW x \in Key, next.byKey[x] # None
       PROVE  /\ next.object[next.byKey[x]] # None
              /\ next.object[next.byKey[x]].key = x
              /\ ~next.object[next.byKey[x]].deleted
  <2>1. CASE next.byKey[x] = o /\ x = k
    BY <1>1, <1>6, <1>14, <2>1, FreedAssumption
  <2>2. CASE next.byKey[x] = data.byKey[x]
    <3>1. /\ data.byKey[x] \in Obj /\ data.byKey[x] # o
          /\ data.object[data.byKey[x]] # None /\ data.object[data.byKey[x]].key = x
          /\ ~data.object[data.byKey[x]].deleted
      BY <1>3, <1>4, <1>15, <2>2 DEF DataLinks
    <3> QED BY <1>5, <1>14, <2>2, <3>1
  <2> QED BY <1>4, <1>12, <2>1, <2>2
<1>16. /\ next.object[current] # None /\ ~next.object[current].deleted
  BY <1>4, <1>6, <1>14, FreedAssumption
<1>17. next.object[next.logon] # None /\ next.object[next.logon].peer \in P
  <2>1. CASE data.logon = None
    BY <1>11, <1>12, <1>16, <2>1
  <2>2. CASE data.logon # None
    BY <1>3, <1>4, <1>5, <1>12, <2>2 DEF DataLinks
  <2> QED BY <2>1, <2>2
<1> QED BY <1>4, <1>12, <1>13, <1>15, <1>16, <1>17 DEF DataLinks

-----------------------------------------------------------------------------
(* What is on its way between a core and the DB server.                    *)

\* What is on its way over the connection of a core is about its clients.
Routed ==
    \A d \in Desc :
        /\ \A p \in DOMAIN toDb : Mentions(toDb[p], d) => CoreOf[d] = p[1]
        /\ \A c \in Core : Mentions(toCore[c], d) => CoreOf[d] = c

\* The peer that a query is for is one that the core of its client is or was.
QueryPeers == \A i \in DOMAIN queries : queries[i].peer[1] = CoreOf[queries[i].desc]

\* A step that adds to what is on its way something about clients in D alone.
Adds(D) ==
    \A d \in Desc :
        /\ \A p \in DOMAIN toDb' : Mentions(toDb'[p], d) =>
               \/ p \in DOMAIN toDb /\ Mentions(toDb[p], d)
               \/ d \in D /\ CoreOf[d] = p[1]
        /\ \A c \in Core : Mentions(toCore'[c], d) =>
               \/ Mentions(toCore[c], d)
               \/ d \in D /\ CoreOf[d] = c
        /\ Mentions(queries', d) => Mentions(queries, d) \/ d \in D

LEMMA PeersType == TypeOK => DOMAIN toDb \in SUBSET Peer
BY DEF TypeOK

\* A peer, and the core that it is of.
LEMMA PeerCore ==
    ASSUME TypeOK, NEW p \in DOMAIN toDb
    PROVE  p \in Peer /\ p[1] \in Core /\ p[2] \in Nat
BY DEF TypeOK, Peer

\* The fields of a packet.
LEMMA PacketFields ==
    ASSUME NEW m \in DbPacket
    PROVE  /\ m.op \in {"loginByKey", "playerLoad", "logout", "setup"}
           /\ m.op # "setup" => m.desc \in Desc
           /\ m.op = "loginByKey" => m.key \in Key
           /\ m.op = "setup" => m.keys \in Seq(Key)
BY DEF DbPacket

LEMMA MentionsAppend ==
    ASSUME NEW S, NEW s \in Seq(S), NEW m \in S, NEW d
    PROVE  /\ Append(s, m) \in Seq(S)
           /\ Mentions(Append(s, m), d) =>
                  Mentions(s, d) \/ (m.op # "setup" /\ m.desc = d)
BY DEF Mentions

LEMMA MentionsTail ==
    ASSUME NEW S, NEW s \in Seq(S), s # << >>, NEW d
    PROVE  /\ Tail(s) \in Seq(S) /\ Head(s) \in S
           /\ Mentions(Tail(s), d) => Mentions(s, d)
           /\ Head(s).op # "setup" => Mentions(s, Head(s).desc)
BY DEF Mentions

LEMMA MentionsNone ==
    ASSUME NEW d
    PROVE  /\ ~Mentions(<< >>, d)
           /\ \A m : m.op = "setup" => ~Mentions(<<m>>, d)
BY DEF Mentions

\* Sending to the DB server.
LEMMA ToDbSends ==
    ASSUME TypeOK, NEW c \in Core, NEW m \in DbPacket, ToDb(c, m)
    PROVE  /\ DOMAIN toDb' = DOMAIN toDb /\ toDb' \in [DOMAIN toDb -> Seq(DbPacket)]
           /\ \A x \in DOMAIN toDb : \A d \in Desc :
                  Mentions(toDb'[x], d) =>
                      Mentions(toDb[x], d) \/ (x[1] = c /\ m.op # "setup" /\ m.desc = d)
<1> DEFINE p == PeerOf(c)
<1>1. /\ toDb \in [DOMAIN toDb -> Seq(DbPacket)] /\ p[1] = c
      /\ toDb' = IF link[c] = "up" THEN [toDb EXCEPT ![p] = Append(@, m)] ELSE toDb
  BY DEF TypeOK, ToDb, PeerOf
<1> HIDE DEF p
<1>2. ASSUME p \in DOMAIN toDb
      PROVE  /\ Append(toDb[p], m) \in Seq(DbPacket)
             /\ \A d \in Desc : Mentions(Append(toDb[p], m), d) =>
                    Mentions(toDb[p], d) \/ (m.op # "setup" /\ m.desc = d)
  <2>1. toDb[p] \in Seq(DbPacket)
    BY <1>1, <1>2
  <2> QED BY <2>1, MentionsAppend
<1> QED BY <1>1, <1>2

\* Sending to a core.
LEMMA ToCoreSends ==
    ASSUME TypeOK, NEW p \in Peer, NEW e \in Desc,
           NEW op \in {"loginSuccess", "loginAlready", "playerLoadSuccess"},
           ToCore(p, op, e)
    PROVE  /\ toCore' \in [Core -> Seq(CorePacket)]
           /\ \A x \in Core : \A d \in Desc :
                  Mentions(toCore'[x], d) => Mentions(toCore[x], d) \/ (x = p[1] /\ e = d)
<1> DEFINE m == [op |-> op, desc |-> e]
           c == p[1]
<1>0. c \in Core
  BY DEF Peer
<1>1. /\ toCore \in [Core -> Seq(CorePacket)] /\ toCore[c] \in Seq(CorePacket)
      /\ toCore' = IF Broken(p) THEN toCore ELSE [toCore EXCEPT ![c] = Append(@, m)]
  BY <1>0 DEF TypeOK, ToCore
<1>2. m \in CorePacket /\ m.desc = e
  BY DEF CorePacket
<1> HIDE DEF m, c
<1>3. /\ Append(toCore[c], m) \in Seq(CorePacket)
      /\ \A d \in Desc : Mentions(Append(toCore[c], m), d) =>
             Mentions(toCore[c], d) \/ e = d
  BY <1>1, <1>2, MentionsAppend
<1>4. /\ toCore' \in [Core -> Seq(CorePacket)]
      /\ \A x \in Core : \A d \in Desc :
             Mentions(toCore'[x], d) => Mentions(toCore[x], d) \/ (x = c /\ e = d)
  BY <1>1, <1>3
<1> QED BY <1>4 DEF c

\* Taking the next packet, on either side.
LEMMA PacketTakes ==
    ASSUME TypeOK, NEW p, NEW op, Packet(p, op)
    PROVE  /\ p \in DOMAIN toDb
           /\ DOMAIN toDb' = DOMAIN toDb /\ toDb' \in [DOMAIN toDb -> Seq(DbPacket)]
           /\ Head(toDb[p]) \in DbPacket /\ Head(toDb[p]).op = op
           /\ \A x \in DOMAIN toDb : \A d \in Desc : Mentions(toDb'[x], d) => Mentions(toDb[x], d)
           /\ op # "setup" => Mentions(toDb[p], Head(toDb[p]).desc)
<1>1. /\ toDb \in [DOMAIN toDb -> Seq(DbPacket)] /\ p \in DOMAIN toDb
      /\ toDb[p] \in Seq(DbPacket) /\ toDb[p] # << >> /\ Head(toDb[p]).op = op
      /\ toDb' = [toDb EXCEPT ![p] = Tail(@)]
  BY DEF TypeOK, Packet
<1>2. /\ Tail(toDb[p]) \in Seq(DbPacket) /\ Head(toDb[p]) \in DbPacket
      /\ \A d \in Desc : Mentions(Tail(toDb[p]), d) => Mentions(toDb[p], d)
      /\ Head(toDb[p]).op # "setup" => Mentions(toDb[p], Head(toDb[p]).desc)
  BY <1>1, MentionsTail
<1> QED BY <1>1, <1>2

LEMMA ReceiveTakes ==
    ASSUME TypeOK, NEW c \in Core, NEW op, Receive(c, op)
    PROVE  /\ toCore' \in [Core -> Seq(CorePacket)]
           /\ Head(toCore[c]).desc \in Desc /\ Head(toCore[c]).op = op
           /\ \A x \in Core : \A d \in Desc : Mentions(toCore'[x], d) => Mentions(toCore[x], d)
           /\ Mentions(toCore[c], Head(toCore[c]).desc)
<1>1. /\ toCore \in [Core -> Seq(CorePacket)] /\ toCore[c] \in Seq(CorePacket)
      /\ toCore[c] # << >> /\ Head(toCore[c]).op = op
      /\ toCore' = [toCore EXCEPT ![c] = Tail(@)]
  BY DEF TypeOK, Receive
<1>2. /\ Tail(toCore[c]) \in Seq(CorePacket) /\ Head(toCore[c]) \in CorePacket
      /\ \A d \in Desc : Mentions(Tail(toCore[c]), d) => Mentions(toCore[c], d)
      /\ Head(toCore[c]).op # "setup" => Mentions(toCore[c], Head(toCore[c]).desc)
  BY <1>1, MentionsTail
<1>3. Head(toCore[c]).op # "setup" /\ Head(toCore[c]).desc \in Desc
  BY <1>2 DEF CorePacket
<1> QED BY <1>1, <1>2, <1>3

\* Asking the database, and handling the next result.
LEMMA QueryReturns ==
    ASSUME TypeOK, QueryPeers, NEW p \in Peer, NEW e \in Desc, CoreOf[e] = p[1],
           NEW op \in {"login", "player"}, ReturnQuery(p, op, e)
    PROVE  /\ queries' \in Seq(DbQuery) /\ QueryPeers'
           /\ \A d \in Desc : Mentions(queries', d) => Mentions(queries, d) \/ d = e
<1> DEFINE q == [op |-> op, desc |-> e, peer |-> p]
<1>1. queries \in Seq(DbQuery) /\ queries' = Append(queries, q)
  BY DEF TypeOK, ReturnQuery
<1>2. q \in DbQuery /\ q.desc = e /\ q.peer = p
  BY DEF DbQuery
<1> HIDE DEF q
<1>3. queries' \in Seq(DbQuery)
      /\ \A d \in Desc : Mentions(queries', d) => Mentions(queries, d) \/ d = e
  BY <1>1, <1>2, MentionsAppend
<1>4. \A i \in DOMAIN queries' : IF i \in DOMAIN queries THEN queries'[i] = queries[i]
                                 ELSE queries'[i] = q
  BY <1>1, <1>2
<1>5. QueryPeers'
  BY <1>2, <1>4 DEF QueryPeers
<1> QED BY <1>3, <1>5

LEMMA QueryTakes ==
    ASSUME TypeOK, QueryPeers, queries # << >>, queries' = Tail(queries)
    PROVE  /\ queries' \in Seq(DbQuery) /\ QueryPeers'
           /\ \A d \in Desc : Mentions(queries', d) => Mentions(queries, d)
           /\ Head(queries).desc \in Desc /\ Head(queries).peer \in Peer
           /\ Mentions(queries, Head(queries).desc)
           /\ Head(queries).peer[1] = CoreOf[Head(queries).desc]
<1>1. queries \in Seq(DbQuery)
  BY DEF TypeOK
<1>2. /\ queries' \in Seq(DbQuery) /\ Head(queries) \in DbQuery
      /\ \A d \in Desc : Mentions(queries', d) => Mentions(queries, d)
      /\ Head(queries).op # "setup" => Mentions(queries, Head(queries).desc)
  BY <1>1, MentionsTail
<1>3. Head(queries).op # "setup" /\ Head(queries).desc \in Desc /\ Head(queries).peer \in Peer
  BY <1>2 DEF DbQuery
<1>4. \A i \in DOMAIN queries' : i + 1 \in DOMAIN queries /\ queries'[i] = queries[i + 1]
  BY <1>1
<1>5. QueryPeers'
  BY <1>4 DEF QueryPeers
<1>6. Head(queries).peer[1] = CoreOf[Head(queries).desc]
  <2>1. 1 \in DOMAIN queries /\ Head(queries) = queries[1]
    BY <1>1
  <2> QED BY <2>1 DEF QueryPeers
<1> QED BY <1>2, <1>3, <1>5, <1>6

\* The packet that names some clients of a core.
LEMMA SetupPacket ==
    ASSUME NEW D \in SUBSET Desc, \A d \in D : loginKey[d] \in Key, NEW m \in Setups(D)
    PROVE  /\ m \in DbPacket /\ m.op = "setup"
           /\ D = {} => m.keys = << >>
<1> DEFINE n == Cardinality(D)
<1>1. n \in Nat /\ (D = {} => n = 0)
  BY MemoryAssumption, FS_Subset, FS_CardinalityType, FS_EmptySet
<1> HIDE DEF n
<1>2. PICK f \in [1 .. n -> D] :
          m = [op |-> "setup", keys |-> [i \in 1 .. n |-> loginKey[f[i]]]]
  BY DEF Setups, n
<1>3. [i \in 1 .. n |-> loginKey[f[i]]] \in Seq(Key)
  BY <1>1
<1>4. n = 0 => [i \in 1 .. n |-> loginKey[f[i]]] = << >>
  OBVIOUS
<1> QED BY <1>1, <1>2, <1>3, <1>4 DEF DbPacket

\* The account that is logged on, over a step of the connections.
LEMMA SamePeers ==
    ASSUME NEW P, NEW Q, DataInv(object, byKey, byLogin, logon, P),
           logon # None => object[logon].peer \in Q,
           UNCHANGED dataVars
    PROVE  DataInv(object', byKey', byLogin', logon', Q)
BY DEF DataInv, DataType, DataLinks, dataVars

-----------------------------------------------------------------------------
(* The inductive invariant.                                                *)

\* A client that is there and something about which is on its way, that has an
\* account table or that is about to be disconnected, is a client that has
\* asked for a login.
KeysKnown ==
    \A d \in Desc :
        /\ phase[d] # "none" /\ ~Idle(d) => loginKey[d] # None
        /\ d \in bound => phase[d] # "none" /\ loginKey[d] # None
        /\ d \in kicked => phase[d] # "none"

\* m_map_loginName names a client of this core that has an account table.
NamesBound ==
    \A c \in Core : named[c] # None => named[c] \in bound /\ CoreOf[named[c]] = c

Data == DataInv(object, byKey, byLogin, logon, DOMAIN toDb)

SessionInv ==
    TypeOK /\ Routed /\ QueryPeers /\ KeysKnown /\ NamesBound /\ Data

LEMMA AddsKeeps ==
    ASSUME NEW D, Adds(D)
    PROVE  /\ Routed => Routed'
           /\ \A d \in Desc : d \notin D /\ Idle(d) => Idle(d)'
<1>1. Routed => Routed'
  BY DEF Adds, Routed
<1>2. ASSUME NEW d \in Desc, d \notin D, Idle(d)
      PROVE  Idle(d)'
  BY <1>2, LoginAssumption DEF Adds, Idle
<1> QED BY <1>1, <1>2

\* A step of the clients and cores.
LEMMA ClientStep ==
    ASSUME SessionInv, NEW D \in SUBSET Desc, Adds(D), DOMAIN toDb' = DOMAIN toDb,
           UNCHANGED <<dataVars, queries>>,
           \A d \in Desc :
               /\ phase'[d] # "none" =>
                      \/ loginKey'[d] # None
                      \/ /\ d \notin D /\ loginKey'[d] = loginKey[d]
                         /\ phase[d] # "none" \/ Idle(d)
               /\ d \in bound' => phase'[d] # "none" /\ loginKey'[d] # None
               /\ d \in kicked' => phase'[d] # "none"
    PROVE  Routed' /\ QueryPeers' /\ KeysKnown' /\ Data'
<1>1. Routed' /\ \A d \in Desc : d \notin D /\ Idle(d) => Idle(d)'
  BY AddsKeeps DEF SessionInv
<1>2. QueryPeers'
  BY DEF SessionInv, QueryPeers
<1>3. KeysKnown'
  BY <1>1 DEF SessionInv, KeysKnown
<1>4. logon # None => object[logon].peer \in DOMAIN toDb'
  BY DEF SessionInv, Data, DataInv, DataLinks
<1>5. Data'
  <2>1. UNCHANGED dataVars
    OBVIOUS
  <2> QED BY <1>4, <2>1, SamePeers DEF SessionInv, Data
<1> QED BY <1>1, <1>2, <1>3, <1>5

\* A step of the DB server.
LEMMA ServerStep ==
    ASSUME SessionInv, NEW D \in SUBSET Desc, Adds(D),
           \A d \in D : ~Idle(d), UNCHANGED <<phase, loginKey, bound, kicked, named>>
    PROVE  Routed' /\ KeysKnown' /\ NamesBound'
<1>1. Routed' /\ \A d \in Desc : d \notin D /\ Idle(d) => Idle(d)'
  BY AddsKeeps DEF SessionInv
<1>2. KeysKnown'
  BY <1>1 DEF SessionInv, KeysKnown
<1>3. NamesBound'
  BY DEF SessionInv, NamesBound
<1> QED BY <1>1, <1>2, <1>3

\* What is on its way is about clients that are not idle.
LEMMA MentionedIsBusy ==
    ASSUME NEW d, \/ \E p \in DOMAIN toDb : Mentions(toDb[p], d)
                  \/ Mentions(toCore[CoreOf[d]], d)
                  \/ Mentions(queries, d)
    PROVE  ~Idle(d)
BY DEF Idle

LEMMA SessionInit == Init => SessionInv
<1> SUFFICES ASSUME Init PROVE SessionInv
  OBVIOUS
<1>1. TypeOK
  <2>1. /\ DOMAIN toDb \subseteq Peer
        /\ toDb \in [DOMAIN toDb -> Seq(DbPacket)]
    BY DEF Init, PeerOf, Peer
  <2> QED BY <2>1, LoginAssumption DEF Init, TypeOK
<1>2. Routed
  BY MentionsNone DEF Init, Routed
<1>3. QueryPeers
  BY DEF Init, QueryPeers
<1>4. KeysKnown /\ NamesBound
  BY DEF Init, KeysKnown, NamesBound
<1>5. Data
  BY <1>1 DEF Init, TypeOK, Data, DataInv, DataType, DataLinks
<1> QED BY <1>1, <1>2, <1>3, <1>4, <1>5 DEF SessionInv

-----------------------------------------------------------------------------
(* The steps of the clients.                                               *)

LEMMA ConnectStep ==
    ASSUME SessionInv, NEW e \in Desc, Connect(e)
    PROVE  SessionInv'
<1>1. TypeOK'
  BY DEF Connect, clientOnly, dataVars, SessionInv, TypeOK
<1>2. Adds({})
  BY DEF Connect, clientOnly, Adds
<1>3. /\ UNCHANGED <<toDb, dataVars, queries, loginKey, bound, kicked, named>>
      /\ \A d \in Desc : phase'[d] = IF d = e THEN "login" ELSE phase[d]
      /\ Idle(e)
  BY DEF Connect, clientOnly, SessionInv, TypeOK
<1>4. Routed' /\ QueryPeers' /\ KeysKnown' /\ Data'
  BY <1>2, <1>3, ClientStep DEF SessionInv, KeysKnown
<1>5. NamesBound'
  BY <1>3 DEF SessionInv, NamesBound
<1> QED BY <1>1, <1>4, <1>5 DEF SessionInv

LEMMA CloseStep ==
    ASSUME SessionInv, NEW e \in Desc, Close(e)
    PROVE  SessionInv'
<1>1. TypeOK'
  BY DEF Close, clientOnly, dataVars, SessionInv, TypeOK
<1>2. Adds({})
  BY DEF Close, clientOnly, Adds
<1>3. /\ UNCHANGED <<toDb, dataVars, queries, loginKey, bound, kicked, named>>
      /\ \A d \in Desc : phase'[d] = IF d = e THEN "close" ELSE phase[d]
      /\ phase[e] # "none"
  BY DEF Close, InputLogin, clientOnly, SessionInv, TypeOK
<1>4. Routed' /\ QueryPeers' /\ KeysKnown' /\ Data'
  BY <1>2, <1>3, ClientStep DEF SessionInv, KeysKnown
<1>5. NamesBound'
  BY <1>3 DEF SessionInv, NamesBound
<1> QED BY <1>1, <1>4, <1>5 DEF SessionInv

LEMMA EnterGameStep ==
    ASSUME SessionInv, NEW e \in Desc, EnterGame(e)
    PROVE  SessionInv'
<1>1. TypeOK'
  BY DEF EnterGame, clientOnly, dataVars, SessionInv, TypeOK
<1>2. Adds({})
  BY DEF EnterGame, clientOnly, Adds
<1>3. /\ UNCHANGED <<toDb, dataVars, queries, loginKey, bound, kicked, named>>
      /\ \A d \in Desc : phase[d] # "none" <=> phase'[d] # "none"
  BY DEF EnterGame, InputLogin, clientOnly, SessionInv, TypeOK
<1>4. Routed' /\ QueryPeers' /\ KeysKnown' /\ Data'
  BY <1>2, <1>3, ClientStep DEF SessionInv, KeysKnown
<1>5. NamesBound'
  BY <1>3 DEF SessionInv, NamesBound
<1> QED BY <1>1, <1>4, <1>5 DEF SessionInv

LEMMA LoginByKeyStep ==
    ASSUME SessionInv, NEW e \in Desc, LoginByKey(e)
    PROVE  SessionInv'
<1> DEFINE m == [op |-> "loginByKey", desc |-> e, key |-> issued]
<1>1. /\ issued \in Key /\ issued # None /\ CoreOf[e] \in Core
      /\ ToDb(CoreOf[e], m) /\ loginKey' = [loginKey EXCEPT ![e] = issued]
  BY NoneApart, LoginAssumption DEF LoginByKey, SessionInv, TypeOK, Key
<1>2. m \in DbPacket /\ m.op # "setup" /\ m.desc = e
  BY <1>1 DEF DbPacket
<1> HIDE DEF m
<1>3. /\ DOMAIN toDb' = DOMAIN toDb /\ toDb' \in [DOMAIN toDb -> Seq(DbPacket)]
      /\ \A x \in DOMAIN toDb : \A d \in Desc :
             Mentions(toDb'[x], d) => Mentions(toDb[x], d) \/ (x[1] = CoreOf[e] /\ e = d)
  BY <1>1, <1>2, ToDbSends DEF SessionInv
<1>4. TypeOK'
  BY <1>1, <1>3 DEF LoginByKey, clientOnly, dataVars, SessionInv, TypeOK
<1>5. Adds({e})
  BY <1>3 DEF LoginByKey, clientOnly, Adds
<1>6. /\ UNCHANGED <<dataVars, queries, phase, bound, kicked, named>>
      /\ \A d \in Desc : loginKey'[d] = IF d = e THEN issued ELSE loginKey[d]
  BY <1>1 DEF LoginByKey, clientOnly, SessionInv, TypeOK
<1>7. Routed' /\ QueryPeers' /\ KeysKnown' /\ Data'
  BY <1>1, <1>3, <1>5, <1>6, ClientStep DEF SessionInv, KeysKnown
<1>8. NamesBound'
  BY <1>6 DEF SessionInv, NamesBound
<1> QED BY <1>4, <1>7, <1>8 DEF SessionInv

LEMMA CharacterSelectStep ==
    ASSUME SessionInv, NEW e \in Desc, CharacterSelect(e)
    PROVE  SessionInv'
<1> DEFINE m == [op |-> "playerLoad", desc |-> e]
<1>1. CoreOf[e] \in Core /\ ToDb(CoreOf[e], m)
  BY LoginAssumption DEF CharacterSelect
<1>2. m \in DbPacket /\ m.op # "setup" /\ m.desc = e
  BY DEF DbPacket
<1> HIDE DEF m
<1>3. /\ DOMAIN toDb' = DOMAIN toDb /\ toDb' \in [DOMAIN toDb -> Seq(DbPacket)]
      /\ \A x \in DOMAIN toDb : \A d \in Desc :
             Mentions(toDb'[x], d) => Mentions(toDb[x], d) \/ (x[1] = CoreOf[e] /\ e = d)
  BY <1>1, <1>2, ToDbSends DEF SessionInv
<1>4. TypeOK'
  BY <1>3 DEF CharacterSelect, coreVars, clientOnly, dataVars, SessionInv, TypeOK
<1>5. Adds({e})
  BY <1>3 DEF CharacterSelect, clientOnly, Adds
<1>6. /\ UNCHANGED <<dataVars, queries, phase, loginKey, bound, kicked, named>>
      /\ loginKey[e] # None
  BY DEF CharacterSelect, coreVars, clientOnly, SessionInv, KeysKnown
<1>7. Routed' /\ QueryPeers' /\ KeysKnown' /\ Data'
  BY <1>3, <1>5, <1>6, ClientStep DEF SessionInv, KeysKnown
<1>8. NamesBound'
  BY <1>6 DEF SessionInv, NamesBound
<1> QED BY <1>4, <1>7, <1>8 DEF SessionInv

-----------------------------------------------------------------------------
(* The steps of the game cores.                                            *)

LEMMA LoginSuccessStep ==
    ASSUME SessionInv, NEW c \in Core, LoginSuccess(c)
    PROVE  SessionInv'
<1> DEFINE e == Head(toCore[c]).desc
           m == [op |-> "logout", desc |-> e]
<1>1. /\ Receive(c, "loginSuccess")
      /\ UNCHANGED <<loginKey, playing, kicked, kicks, coreOnly>>
  BY DEF LoginSuccess
<1>2. /\ toCore' \in [Core -> Seq(CorePacket)] /\ e \in Desc /\ Mentions(toCore[c], e)
      /\ \A x \in Core : \A d \in Desc : Mentions(toCore'[x], d) => Mentions(toCore[x], d)
  BY <1>1, ReceiveTakes DEF SessionInv
<1>3. CoreOf[e] = c /\ ~Idle(e)
  BY <1>2, MentionedIsBusy DEF SessionInv, Routed
<1>4. \/ /\ phase[e] = "none" /\ ToDb(c, m)
         /\ UNCHANGED <<phase, bound, named>>
      \/ /\ phase[e] # "none" /\ bound' = bound \cup {e}
         /\ named' = [named EXCEPT ![c] = IF @ = None THEN e ELSE @]
         /\ phase' = [phase EXCEPT ![e] = "select"]
         /\ UNCHANGED toDb
  BY DEF LoginSuccess
<1>5. m \in DbPacket /\ m.op # "setup" /\ m.desc = e
  BY <1>2 DEF DbPacket
<1> HIDE DEF m, e
<1>6. /\ DOMAIN toDb' = DOMAIN toDb /\ toDb' \in [DOMAIN toDb -> Seq(DbPacket)]
      /\ \A x \in DOMAIN toDb : \A d \in Desc :
             Mentions(toDb'[x], d) =>
                 Mentions(toDb[x], d) \/ (phase[e] = "none" /\ x[1] = c /\ e = d)
  <2>1. CASE toDb' = toDb
    BY <2>1 DEF SessionInv, TypeOK
  <2>2. CASE phase[e] = "none" /\ ToDb(c, m)
    BY <1>5, <2>2, ToDbSends DEF SessionInv
  <2> QED BY <1>4, <2>1, <2>2
<1>7. /\ phase' \in [Desc -> {"none", "login", "select", "loading", "game", "close"}]
      /\ named' \in [Core -> Desc \cup {None}] /\ bound' \subseteq Desc
      /\ \A d \in Desc : phase[d] # "none" <=> phase'[d] # "none"
      /\ \A d \in bound' : d \in bound \/ (d = e /\ phase[e] # "none")
  <2>1. /\ phase \in [Desc -> {"none", "login", "select", "loading", "game", "close"}]
        /\ named \in [Core -> Desc \cup {None}] /\ bound \subseteq Desc
    BY DEF SessionInv, TypeOK
  <2>2. CASE UNCHANGED <<phase, bound, named>>
    BY <2>1, <2>2
  <2>3. CASE /\ phase[e] # "none" /\ bound' = bound \cup {e}
             /\ named' = [named EXCEPT ![c] = IF @ = None THEN e ELSE @]
             /\ phase' = [phase EXCEPT ![e] = "select"]
    BY <1>2, <2>1, <2>3
  <2> QED BY <1>4, <2>2, <2>3
<1>8. TypeOK'
  BY <1>1, <1>2, <1>6, <1>7 DEF coreOnly, dataVars, SessionInv, TypeOK
<1>9. Adds(IF phase[e] = "none" THEN {e} ELSE {})
  BY <1>1, <1>2, <1>3, <1>6 DEF coreOnly, Adds
<1>10. phase[e] # "none" => loginKey[e] # None
  BY <1>2, <1>3 DEF SessionInv, KeysKnown
<1>11. /\ UNCHANGED <<dataVars, queries>>
       /\ UNCHANGED <<loginKey, kicked>>
       /\ \A d \in Desc : phase[d] # "none" <=> phase'[d] # "none"
       /\ \A d \in bound' : d \in bound \/ (d = e /\ phase[e] # "none")
  BY <1>1, <1>7 DEF coreOnly
<1>12. Routed' /\ QueryPeers' /\ KeysKnown' /\ Data'
  BY <1>2, <1>6, <1>9, <1>10, <1>11, ClientStep DEF SessionInv, KeysKnown
<1>13. NamesBound'
  BY <1>2, <1>3, <1>4 DEF SessionInv, NamesBound, TypeOK
<1> QED BY <1>8, <1>12, <1>13 DEF SessionInv

\* DisconnectOfSameLogin, of the client that the account's name stands for.
LEMMA KickStep ==
    ASSUME SessionInv, NEW c \in Core,
           \/ UNCHANGED <<phase, kicked>>
           \/ named[c] # None /\ DisconnectOfSameLogin(named[c])
    PROVE  /\ phase' \in [Desc -> {"none", "login", "select", "loading", "game", "close"}]
           /\ kicked' \subseteq Desc
           /\ \A d \in Desc : phase[d] # "none" <=> phase'[d] # "none"
           /\ \A d \in kicked' : phase[d] # "none"
<1>1. CASE UNCHANGED <<phase, kicked>>
  BY <1>1 DEF SessionInv, TypeOK, KeysKnown
<1>2. CASE named[c] # None /\ DisconnectOfSameLogin(named[c])
  <2>1. named[c] \in Desc /\ phase[named[c]] # "none"
    BY <1>2 DEF SessionInv, TypeOK, KeysKnown, NamesBound
  <2> QED BY <1>2, <2>1 DEF DisconnectOfSameLogin, SessionInv, TypeOK, KeysKnown
<1> QED BY <1>1, <1>2

LEMMA LoginAlreadyStep ==
    ASSUME SessionInv, NEW c \in Core, LoginAlready(c)
    PROVE  SessionInv'
<1>1. /\ Receive(c, "loginAlready")
      /\ UNCHANGED <<loginKey, bound, playing, named, toDb, coreOnly>>
      /\ kicks' \subseteq Core
      /\ \/ UNCHANGED <<phase, kicked>>
         \/ named[c] # None /\ DisconnectOfSameLogin(named[c])
  BY DEF LoginAlready, SessionInv, TypeOK
<1>2. /\ toCore' \in [Core -> Seq(CorePacket)]
      /\ \A x \in Core : \A d \in Desc : Mentions(toCore'[x], d) => Mentions(toCore[x], d)
  BY <1>1, ReceiveTakes DEF SessionInv
<1>3. /\ phase' \in [Desc -> {"none", "login", "select", "loading", "game", "close"}]
      /\ kicked' \subseteq Desc
      /\ \A d \in Desc : phase[d] # "none" <=> phase'[d] # "none"
      /\ \A d \in kicked' : phase[d] # "none"
  BY <1>1, KickStep
<1>4. TypeOK'
  BY <1>1, <1>2, <1>3 DEF coreOnly, dataVars, SessionInv, TypeOK
<1>5. Adds({})
  BY <1>1, <1>2 DEF coreOnly, Adds
<1>6. UNCHANGED <<dataVars, queries>>
  BY <1>1 DEF coreOnly
<1>7. Routed' /\ QueryPeers' /\ KeysKnown' /\ Data'
  BY <1>1, <1>3, <1>5, <1>6, ClientStep DEF SessionInv, KeysKnown
<1>8. NamesBound'
  BY <1>1 DEF SessionInv, NamesBound
<1> QED BY <1>4, <1>7, <1>8 DEF SessionInv

LEMMA P2PDisconnectStep ==
    ASSUME SessionInv, NEW c \in Core, P2PDisconnect(c)
    PROVE  SessionInv'
<1>1. /\ UNCHANGED <<loginKey, bound, playing, named, toDb, toCore, coreOnly>>
      /\ kicks' \subseteq Core
      /\ \/ UNCHANGED <<phase, kicked>>
         \/ named[c] # None /\ DisconnectOfSameLogin(named[c])
  BY DEF P2PDisconnect, SessionInv, TypeOK
<1>2. /\ phase' \in [Desc -> {"none", "login", "select", "loading", "game", "close"}]
      /\ kicked' \subseteq Desc
      /\ \A d \in Desc : phase[d] # "none" <=> phase'[d] # "none"
      /\ \A d \in kicked' : phase[d] # "none"
  BY <1>1, KickStep
<1>3. TypeOK'
  BY <1>1, <1>2 DEF coreOnly, dataVars, SessionInv, TypeOK
<1>4. Adds({})
  BY <1>1 DEF coreOnly, Adds
<1>5. UNCHANGED <<dataVars, queries>>
  BY <1>1 DEF coreOnly
<1>6. Routed' /\ QueryPeers' /\ KeysKnown' /\ Data'
  BY <1>1, <1>2, <1>4, <1>5, ClientStep DEF SessionInv, KeysKnown
<1>7. NamesBound'
  BY <1>1 DEF SessionInv, NamesBound
<1> QED BY <1>3, <1>6, <1>7 DEF SessionInv

LEMMA PlayerLoadStep ==
    ASSUME SessionInv, NEW c \in Core, PlayerLoad(c)
    PROVE  SessionInv'
<1> DEFINE e == Head(toCore[c]).desc
<1>1. /\ Receive(c, "playerLoadSuccess")
      /\ UNCHANGED <<loginKey, bound, kicked, named, kicks, toDb, coreOnly>>
      /\ UNCHANGED playing \/ playing' = playing \cup {e}
      /\ \/ UNCHANGED phase
         \/ /\ phase[e] # "none"
            /\ \E ph \in {"loading", "close"} : phase' = [phase EXCEPT ![e] = ph]
  BY DEF PlayerLoad
<1>2. /\ toCore' \in [Core -> Seq(CorePacket)] /\ e \in Desc
      /\ \A x \in Core : \A d \in Desc : Mentions(toCore'[x], d) => Mentions(toCore[x], d)
  BY <1>1, ReceiveTakes DEF SessionInv
<1> HIDE DEF e
<1>3. TypeOK'
  BY <1>1, <1>2 DEF coreOnly, dataVars, SessionInv, TypeOK
<1>4. Adds({})
  BY <1>1, <1>2 DEF coreOnly, Adds
<1>5. /\ UNCHANGED <<dataVars, queries>>
      /\ \A d \in Desc : phase[d] # "none" <=> phase'[d] # "none"
  BY <1>1, <1>2 DEF coreOnly, SessionInv, TypeOK
<1>6. Routed' /\ QueryPeers' /\ KeysKnown' /\ Data'
  BY <1>1, <1>4, <1>5, ClientStep DEF SessionInv, KeysKnown
<1>7. NamesBound'
  BY <1>1 DEF SessionInv, NamesBound
<1> QED BY <1>3, <1>6, <1>7 DEF SessionInv

LEMMA DisconnectEventStep ==
    ASSUME SessionInv, NEW e \in Desc, DisconnectEvent(e)
    PROVE  SessionInv'
<1>1. /\ UNCHANGED <<loginKey, bound, playing, named, kicks, toDb, toCore, coreOnly>>
      /\ kicked' = kicked \ {e} /\ phase' = [phase EXCEPT ![e] = "close"]
      /\ phase[e] # "none"
  BY DEF DisconnectEvent, SessionInv, KeysKnown
<1>2. TypeOK'
  BY <1>1 DEF coreOnly, dataVars, SessionInv, TypeOK
<1>3. Adds({})
  BY <1>1 DEF coreOnly, Adds
<1>4. /\ UNCHANGED <<dataVars, queries>>
      /\ \A d \in Desc : phase[d] # "none" <=> phase'[d] # "none"
  BY <1>1 DEF coreOnly, SessionInv, TypeOK
<1>5. Routed' /\ QueryPeers' /\ KeysKnown' /\ Data'
  BY <1>1, <1>3, <1>4, ClientStep DEF SessionInv, KeysKnown
<1>6. NamesBound'
  BY <1>1 DEF SessionInv, NamesBound
<1> QED BY <1>2, <1>5, <1>6 DEF SessionInv

LEMMA DestroyStep ==
    ASSUME SessionInv, NEW e \in Desc, Destroy(e)
    PROVE  SessionInv'
<1> DEFINE m == [op |-> "logout", desc |-> e]
<1>1. /\ phase' = [phase EXCEPT ![e] = "none"]
      /\ loginKey' = [loginKey EXCEPT ![e] = None]
      /\ bound' = bound \ {e} /\ playing' = playing \ {e} /\ kicked' = kicked \ {e}
      /\ \/ /\ e \in bound /\ ToDb(CoreOf[e], m)
            /\ named' = [named EXCEPT ![CoreOf[e]] = None]
         \/ e \notin bound /\ UNCHANGED <<named, toDb>>
      /\ UNCHANGED <<kicks, toCore, coreOnly>> /\ CoreOf[e] \in Core
  BY LoginAssumption DEF Destroy
<1>2. m \in DbPacket /\ m.op # "setup" /\ m.desc = e
  BY DEF DbPacket
<1> HIDE DEF m
<1>3. /\ DOMAIN toDb' = DOMAIN toDb /\ toDb' \in [DOMAIN toDb -> Seq(DbPacket)]
      /\ \A x \in DOMAIN toDb : \A d \in Desc :
             Mentions(toDb'[x], d) => Mentions(toDb[x], d) \/ (x[1] = CoreOf[e] /\ e = d)
  <2>1. CASE toDb' = toDb
    BY <2>1 DEF SessionInv, TypeOK
  <2>2. CASE ToDb(CoreOf[e], m)
    BY <1>1, <1>2, <2>2, ToDbSends DEF SessionInv
  <2> QED BY <1>1, <2>1, <2>2
<1>4. TypeOK'
  BY <1>1, <1>3 DEF coreOnly, dataVars, SessionInv, TypeOK
<1>5. Adds({e})
  BY <1>1, <1>3 DEF coreOnly, Adds
<1>6. /\ UNCHANGED <<dataVars, queries>>
      /\ \A d \in Desc : /\ phase'[d] = IF d = e THEN "none" ELSE phase[d]
                         /\ d # e => loginKey'[d] = loginKey[d]
  BY <1>1 DEF coreOnly, SessionInv, TypeOK
<1>7. Routed' /\ QueryPeers' /\ KeysKnown' /\ Data'
  BY <1>1, <1>3, <1>5, <1>6, ClientStep DEF SessionInv, KeysKnown
<1>8. NamesBound'
  BY <1>1 DEF SessionInv, NamesBound, TypeOK
<1> QED BY <1>4, <1>7, <1>8 DEF SessionInv

-----------------------------------------------------------------------------
(* The steps of the DB server.                                             *)

\* A step that leaves the cores and connections alone.
LEMMA ServerKeeps ==
    ASSUME SessionInv, UNCHANGED dbOnly, NEW D \in SUBSET Desc, Adds(D),
           \A d \in D : ~Idle(d), DOMAIN toDb' = DOMAIN toDb,
           toDb' \in [DOMAIN toDb -> Seq(DbPacket)], toCore' \in [Core -> Seq(CorePacket)],
           queries' \in Seq(DbQuery), QueryPeers', issued' \in 0 .. MaxKey,
           DataInv(object', byKey', byLogin', logon', DOMAIN toDb)
    PROVE  SessionInv'
<1>1. TypeOK'
  BY DEF dbOnly, coreVars, SessionInv, TypeOK, DataInv, DataType
<1>2. Routed' /\ KeysKnown' /\ NamesBound'
  BY ServerStep DEF dbOnly, coreVars
<1>3. Data'
  BY DEF Data
<1> QED BY <1>1, <1>2, <1>3 DEF SessionInv

LEMMA SameQueries ==
    ASSUME SessionInv, UNCHANGED queries
    PROVE  QueryPeers' /\ queries' \in Seq(DbQuery)
BY DEF SessionInv, QueryPeers, TypeOK

LEMMA SamePackets ==
    ASSUME SessionInv
    PROVE  /\ toDb' = toDb => DOMAIN toDb' = DOMAIN toDb /\ toDb' \in [DOMAIN toDb -> Seq(DbPacket)]
           /\ toCore' = toCore => toCore' \in [Core -> Seq(CorePacket)]
           /\ issued' = issued => issued' \in 0 .. MaxKey
           /\ UNCHANGED dataVars => DataInv(object', byKey', byLogin', logon', DOMAIN toDb)
           /\ DOMAIN toDb \in SUBSET Peer
BY PeersType DEF SessionInv, TypeOK, Data, dataVars

LEMMA QueryAuthLoginStep ==
    ASSUME SessionInv, QueryAuthLogin
    PROVE  SessionInv'
<1>1. /\ UNCHANGED dbOnly /\ UNCHANGED <<toDb, toCore, queries>>
      /\ issued' \in 0 .. MaxKey
  BY LoginAssumption DEF QueryAuthLogin, SessionInv, TypeOK
<1>2. DataInv(object', byKey', byLogin', logon', DOMAIN toDb)
  BY AuthData, SamePackets DEF SessionInv, TypeOK, Data
<1>3. Adds({})
  BY <1>1 DEF Adds
<1> QED BY <1>1, <1>2, <1>3, ServerKeeps, SameQueries, SamePackets

LEMMA QueryLoginByKeyStep ==
    ASSUME SessionInv, NEW p, QueryLoginByKey(p)
    PROVE  SessionInv'
<1> DEFINE e == Head(toDb[p]).desc
<1>1. /\ Packet(p, "loginByKey") /\ UNCHANGED <<dbOnly, dataVars, issued>>
      /\ \/ UNCHANGED <<toCore, queries>>
         \/ ToCore(p, "loginAlready", e) /\ UNCHANGED queries
         \/ ReturnQuery(p, "login", e) /\ UNCHANGED toCore
  BY DEF QueryLoginByKey
<1>2. /\ DOMAIN toDb' = DOMAIN toDb /\ toDb' \in [DOMAIN toDb -> Seq(DbPacket)]
      /\ p \in DOMAIN toDb /\ e \in Desc /\ Mentions(toDb[p], e)
      /\ \A x \in DOMAIN toDb : \A d \in Desc : Mentions(toDb'[x], d) => Mentions(toDb[x], d)
  BY <1>1, PacketTakes, PacketFields DEF SessionInv
<1>3. CoreOf[e] = p[1] /\ ~Idle(e) /\ p \in Peer
  BY <1>2, MentionedIsBusy, PeerCore DEF SessionInv, Routed
<1> HIDE DEF e
<1>4. /\ toCore' \in [Core -> Seq(CorePacket)]
      /\ \A x \in Core : \A d \in Desc :
             Mentions(toCore'[x], d) => Mentions(toCore[x], d) \/ (x = p[1] /\ e = d)
      /\ QueryPeers' /\ queries' \in Seq(DbQuery)
      /\ \A d \in Desc : Mentions(queries', d) => Mentions(queries, d) \/ d = e
  <2>1. CASE UNCHANGED <<toCore, queries>>
    BY <2>1, SameQueries, SamePackets
  <2>2. CASE ToCore(p, "loginAlready", e) /\ UNCHANGED queries
    BY <1>2, <1>3, <2>2, SameQueries, ToCoreSends DEF SessionInv
  <2>3. CASE ReturnQuery(p, "login", e) /\ UNCHANGED toCore
    BY <1>2, <1>3, <2>3, SamePackets, QueryReturns DEF SessionInv
  <2> QED BY <1>1, <2>1, <2>2, <2>3
<1>5. Adds({e})
  BY <1>2, <1>3, <1>4 DEF Adds
<1> QED BY <1>1, <1>2, <1>3, <1>4, <1>5, ServerKeeps, SamePackets

LEMMA ResultDroppedStep ==
    ASSUME SessionInv, ResultDropped
    PROVE  SessionInv'
<1>1. /\ queries # << >> /\ queries' = Tail(queries)
      /\ UNCHANGED dbOnly /\ UNCHANGED <<toDb, toCore, issued>> /\ UNCHANGED dataVars
  BY DEF ResultDropped
<1>2. /\ queries' \in Seq(DbQuery) /\ QueryPeers'
      /\ \A d \in Desc : Mentions(queries', d) => Mentions(queries, d)
  BY <1>1, QueryTakes DEF SessionInv
<1>3. Adds({})
  BY <1>1, <1>2 DEF Adds
<1> QED BY <1>1, <1>2, <1>3, ServerKeeps, SamePackets

\* A result that is not dropped is for a peer that is there.
LEMMA ResultPeer ==
    ASSUME SessionInv, NEW op, Result(op), queries' = Tail(queries)
    PROVE  /\ queries' \in Seq(DbQuery) /\ QueryPeers'
           /\ \A d \in Desc : Mentions(queries', d) => Mentions(queries, d)
           /\ Head(queries).desc \in Desc /\ ~Idle(Head(queries).desc)
           /\ Head(queries).peer \in Peer /\ Head(queries).peer \in DOMAIN toDb
           /\ Head(queries).peer[1] = CoreOf[Head(queries).desc]
<1>1. queries # << >> /\ Head(queries).peer \in DOMAIN toDb
  BY DEF Result, PeerThere
<1>2. /\ queries' \in Seq(DbQuery) /\ QueryPeers'
      /\ \A d \in Desc : Mentions(queries', d) => Mentions(queries, d)
      /\ Head(queries).desc \in Desc /\ Mentions(queries, Head(queries).desc)
      /\ Head(queries).peer \in Peer
      /\ Head(queries).peer[1] = CoreOf[Head(queries).desc]
  BY <1>1, QueryTakes DEF SessionInv
<1> QED BY <1>1, <1>2, MentionedIsBusy

LEMMA ResultLoginStep ==
    ASSUME SessionInv, ResultLogin
    PROVE  SessionInv'
<1> DEFINE e == Head(queries).desc
           p == Head(queries).peer
<1>1. /\ Result("login") /\ queries' = Tail(queries)
      /\ UNCHANGED dbOnly /\ UNCHANGED <<toDb, byKey, byLogin, issued>>
      /\ \/ /\ CanLogon
            /\ object' = [object EXCEPT ![byLogin].peer = p]
            /\ logon' = byLogin
            /\ ToCore(p, "loginSuccess", e)
         \/ /\ ToCore(p, "loginAlready", e)
            /\ UNCHANGED <<object, logon>>
  BY DEF ResultLogin
<1>2. /\ queries' \in Seq(DbQuery) /\ QueryPeers'
      /\ \A d \in Desc : Mentions(queries', d) => Mentions(queries, d)
      /\ e \in Desc /\ ~Idle(e)
      /\ p \in Peer /\ p \in DOMAIN toDb /\ p[1] = CoreOf[e]
  BY <1>1, ResultPeer
<1> HIDE DEF e, p
<1>3. /\ toCore' \in [Core -> Seq(CorePacket)]
      /\ \A x \in Core : \A d \in Desc :
             Mentions(toCore'[x], d) => Mentions(toCore[x], d) \/ (x = CoreOf[e] /\ e = d)
  BY <1>1, <1>2, ToCoreSends DEF SessionInv
<1>4. Adds({e})
  BY <1>1, <1>2, <1>3 DEF Adds
<1>5. DataInv(object', byKey', byLogin', logon', DOMAIN toDb)
  <2>1. CASE /\ CanLogon
             /\ object' = [object EXCEPT ![byLogin].peer = p]
             /\ logon' = byLogin
    BY <1>1, <1>2, <2>1, LogonData, SamePackets DEF CanLogon, SessionInv, Data
  <2>2. CASE UNCHANGED <<object, logon>>
    BY <1>1, <2>2 DEF SessionInv, Data
  <2> QED BY <1>1, <2>1, <2>2
<1> QED BY <1>1, <1>2, <1>3, <1>4, <1>5, ServerKeeps, SamePackets

\* SetPlay(true) and the answer, or nothing.
LEMMA LoadPlayerSends ==
    ASSUME SessionInv, NEW p \in Peer, NEW e \in Desc, LoadPlayer(p, e),
           UNCHANGED <<byKey, byLogin, logon>>
    PROVE  /\ toCore' \in [Core -> Seq(CorePacket)]
           /\ \A x \in Core : \A d \in Desc :
                  Mentions(toCore'[x], d) => Mentions(toCore[x], d) \/ (x = p[1] /\ e = d)
           /\ DataInv(object', byKey', byLogin', logon', DOMAIN toDb)
<1>1. CASE UNCHANGED <<object, toCore>>
  BY <1>1, SamePackets DEF SessionInv, Data
<1>2. CASE /\ byLogin # None
           /\ object' = [object EXCEPT ![byLogin].play = TRUE]
           /\ ToCore(p, "playerLoadSuccess", e)
  <2>1. byLogin \in Obj /\ object[byLogin] # None
    BY <1>2 DEF SessionInv, Data, DataInv, DataLinks, DataType
  <2>2. DataInv([object EXCEPT ![byLogin].play = TRUE], byKey, byLogin, logon, DOMAIN toDb)
    BY <2>1, PlayData, SamePackets DEF SessionInv, Data
  <2> QED BY <1>2, <2>1, <2>2, ToCoreSends DEF SessionInv
<1> QED BY <1>1, <1>2 DEF LoadPlayer

LEMMA QueryPlayerLoadStep ==
    ASSUME SessionInv, NEW p, QueryPlayerLoad(p)
    PROVE  SessionInv'
<1> DEFINE e == Head(toDb[p]).desc
<1>1. /\ Packet(p, "playerLoad") /\ UNCHANGED dbOnly
      /\ UNCHANGED <<byKey, byLogin, logon, issued>>
      /\ \/ LoadPlayer(p, e) /\ UNCHANGED queries
         \/ ReturnQuery(p, "player", e) /\ UNCHANGED <<object, toCore>>
  BY DEF QueryPlayerLoad
<1>2. /\ DOMAIN toDb' = DOMAIN toDb /\ toDb' \in [DOMAIN toDb -> Seq(DbPacket)]
      /\ p \in DOMAIN toDb /\ e \in Desc /\ Mentions(toDb[p], e)
      /\ \A x \in DOMAIN toDb : \A d \in Desc : Mentions(toDb'[x], d) => Mentions(toDb[x], d)
  BY <1>1, PacketTakes, PacketFields DEF SessionInv
<1>3. CoreOf[e] = p[1] /\ ~Idle(e) /\ p \in Peer
  BY <1>2, MentionedIsBusy, PeerCore DEF SessionInv, Routed
<1> HIDE DEF e
<1>4. /\ toCore' \in [Core -> Seq(CorePacket)]
      /\ \A x \in Core : \A d \in Desc :
             Mentions(toCore'[x], d) => Mentions(toCore[x], d) \/ (x = p[1] /\ e = d)
      /\ QueryPeers' /\ queries' \in Seq(DbQuery)
      /\ \A d \in Desc : Mentions(queries', d) => Mentions(queries, d) \/ d = e
      /\ DataInv(object', byKey', byLogin', logon', DOMAIN toDb)
  <2>1. CASE LoadPlayer(p, e) /\ UNCHANGED queries
    BY <1>1, <1>2, <1>3, <2>1, SameQueries, LoadPlayerSends
  <2>2. CASE ReturnQuery(p, "player", e) /\ UNCHANGED <<object, toCore>>
    BY <1>1, <1>2, <1>3, <2>2, SamePackets, QueryReturns DEF SessionInv, Data
  <2> QED BY <1>1, <2>1, <2>2
<1>5. Adds({e})
  BY <1>2, <1>3, <1>4 DEF Adds
<1> QED BY <1>1, <1>2, <1>3, <1>4, <1>5, ServerKeeps, SamePackets

LEMMA ResultPlayerLoadStep ==
    ASSUME SessionInv, ResultPlayerLoad
    PROVE  SessionInv'
<1> DEFINE e == Head(queries).desc
           p == Head(queries).peer
<1>1. /\ Result("player") /\ queries' = Tail(queries) /\ LoadPlayer(p, e)
      /\ UNCHANGED dbOnly /\ UNCHANGED <<toDb, byKey, byLogin, logon, issued>>
  BY DEF ResultPlayerLoad
<1>2. /\ queries' \in Seq(DbQuery) /\ QueryPeers'
      /\ \A d \in Desc : Mentions(queries', d) => Mentions(queries, d)
      /\ e \in Desc /\ ~Idle(e) /\ p \in Peer /\ p[1] = CoreOf[e]
  BY <1>1, ResultPeer
<1> HIDE DEF e, p
<1>3. /\ toCore' \in [Core -> Seq(CorePacket)]
      /\ \A x \in Core : \A d \in Desc :
             Mentions(toCore'[x], d) => Mentions(toCore[x], d) \/ (x = CoreOf[e] /\ e = d)
      /\ DataInv(object', byKey', byLogin', logon', DOMAIN toDb)
  BY <1>1, <1>2, LoadPlayerSends
<1>4. Adds({e})
  BY <1>1, <1>2, <1>3 DEF Adds
<1> QED BY <1>1, <1>2, <1>3, <1>4, ServerKeeps, SamePackets

LEMMA QueryLogoutStep ==
    ASSUME SessionInv, NEW p, QueryLogout(p)
    PROVE  SessionInv'
<1>1. /\ Packet(p, "logout") /\ UNCHANGED dbOnly
      /\ UNCHANGED <<toCore, byKey, byLogin, queries, issued>>
      /\ (logon # None /\ EndLogon) \/ UNCHANGED <<object, logon>>
  BY DEF QueryLogout
<1>2. /\ DOMAIN toDb' = DOMAIN toDb /\ toDb' \in [DOMAIN toDb -> Seq(DbPacket)]
      /\ \A x \in DOMAIN toDb : \A d \in Desc : Mentions(toDb'[x], d) => Mentions(toDb[x], d)
  BY <1>1, PacketTakes DEF SessionInv
<1>3. DataInv(object', byKey', byLogin', logon', DOMAIN toDb)
  <2>1. CASE logon # None /\ EndLogon
    BY <1>1, <2>1, EndData DEF SessionInv, Data
  <2>2. CASE UNCHANGED <<object, logon>>
    BY <1>1, <2>2 DEF SessionInv, Data
  <2> QED BY <1>1, <2>1, <2>2
<1>4. Adds({})
  BY <1>1, <1>2 DEF Adds
<1> QED BY <1>1, <1>2, <1>3, <1>4, ServerKeeps, SameQueries, SamePackets

\* All logins of a SETUP.
LEMMA SetupAllData ==
    ASSUME Data, TypeOK, NEW keys \in Seq(Key), NEW p \in DOMAIN toDb
    PROVE  LET after == SetupAll(keys, p)[Len(keys)]
           IN  DataInv(after.object, after.byKey, after.byLogin, after.logon, DOMAIN toDb)
<1> DEFINE f == SetupAll(keys, p)
           Good(x) == DataInv(x.object, x.byKey, x.byLogin, x.logon, DOMAIN toDb)
           S == { n \in Nat : n <= Len(keys) => Good(f[n]) }
<1>1. /\ f[0] = LoginState
      /\ \A i \in 1 .. Len(keys) : f[i] = SetupLogin(f[i - 1], keys[i], p)
  BY SetupSteps
<1> HIDE DEF f
<1>2. Good(f[0])
  BY <1>1 DEF Data, LoginState
<1>3. ASSUME NEW n \in Nat, n + 1 <= Len(keys), Good(f[n])
      PROVE  Good(f[n + 1])
  <2>1. n + 1 \in 1 .. Len(keys) /\ (n + 1) - 1 = n /\ Len(keys) \in Nat
    BY <1>3
  <2>2. f[n + 1] = SetupLogin(f[n], keys[n + 1], p) /\ keys[n + 1] \in Key
    BY <1>1, <2>1
  <2>3. DOMAIN toDb \in SUBSET Peer
    BY PeersType
  <2> QED BY <1>3, <2>2, <2>3, SetupLoginData
<1> HIDE DEF Good
<1>4. 0 \in S
  BY <1>2
<1>5. ASSUME NEW n \in Nat, n \in S
      PROVE  n + 1 \in S
  <2>1. n + 1 <= Len(keys) => n <= Len(keys)
    OBVIOUS
  <2> QED BY <1>3, <1>5, <2>1
<1>6. Nat \subseteq S
  <2> HIDE DEF S
  <2> QED BY <1>4, <1>5, NatSet
<1>7. Good(f[Len(keys)])
  BY <1>6
<1> QED BY <1>7 DEF f, Good

LEMMA QuerySetupStep ==
    ASSUME SessionInv, NEW p, QuerySetup(p)
    PROVE  SessionInv'
<1> DEFINE keys == Head(toDb[p]).keys
           after == SetupAll(keys, p)[Len(keys)]
<1>1. /\ Packet(p, "setup") /\ UNCHANGED dbOnly
      /\ UNCHANGED <<toCore, queries, issued>>
      /\ object' = after.object /\ byKey' = after.byKey
      /\ byLogin' = after.byLogin /\ logon' = after.logon
  BY DEF QuerySetup
<1>2. /\ DOMAIN toDb' = DOMAIN toDb /\ toDb' \in [DOMAIN toDb -> Seq(DbPacket)]
      /\ keys \in Seq(Key)
      /\ \A x \in DOMAIN toDb : \A d \in Desc : Mentions(toDb'[x], d) => Mentions(toDb[x], d)
  BY <1>1, PacketTakes, PacketFields DEF SessionInv
<1>3. p \in DOMAIN toDb
  BY <1>1, PacketTakes DEF SessionInv
<1>4. DataInv(object', byKey', byLogin', logon', DOMAIN toDb)
  <2>1. DataInv(after.object, after.byKey, after.byLogin, after.logon, DOMAIN toDb)
    <3> HIDE DEF keys
    <3> QED BY <1>2, <1>3, SetupAllData DEF SessionInv
  <2> HIDE DEF after
  <2> QED BY <1>1, <2>1
<1>5. Adds({})
  BY <1>1, <1>2 DEF Adds
<1> QED BY <1>1, <1>2, <1>4, <1>5, ServerKeeps, SameQueries, SamePackets

-----------------------------------------------------------------------------
(* Connections.                                                            *)

\* A step that leaves the login data and the queries as they were.
LEMMA LinkKeeps ==
    ASSUME SessionInv, UNCHANGED <<dataVars, queries>>, DOMAIN toDb \subseteq DOMAIN toDb'
    PROVE  QueryPeers' /\ Data'
<1>1. QueryPeers'
  BY DEF SessionInv, QueryPeers
<1>2. logon # None => object[logon].peer \in DOMAIN toDb'
  BY DEF SessionInv, Data, DataInv, DataLinks
<1>3. Data'
  <2>1. UNCHANGED dataVars
    OBVIOUS
  <2> QED BY <1>2, <2>1, SamePeers DEF SessionInv, Data
<1> QED BY <1>1, <1>3

LEMMA CrashStep ==
    ASSUME SessionInv, NEW c \in Core, Crash(c)
    PROVE  SessionInv'
<1> DEFINE gone == {d \in Desc : CoreOf[d] = c}
<1>1. /\ phase' = [d \in Desc |-> IF d \in gone THEN "none" ELSE phase[d]]
      /\ loginKey' = [d \in Desc |-> IF d \in gone THEN None ELSE loginKey[d]]
      /\ bound' = bound \ gone /\ playing' = playing \ gone /\ kicked' = kicked \ gone
      /\ named' = [named EXCEPT ![c] = None]
      /\ kicks' = kicks \ {c} /\ crashes' = crashes + 1
      /\ link' = [link EXCEPT ![c] = "down"]
      /\ toCore' = [toCore EXCEPT ![c] = << >>]
      /\ UNCHANGED <<gen, toDb, dataVars, queries, issued, lost>>
  BY DEF Crash
<1>2. TypeOK'
  <2>1. /\ phase' \in [Desc -> {"none", "login", "select", "loading", "game", "close"}]
        /\ loginKey' \in [Desc -> Key \cup {None}]
        /\ named' \in [Core -> Desc \cup {None}]
        /\ link' \in [Core -> {"up", "down"}]
        /\ toCore' \in [Core -> Seq(CorePacket)]
        /\ crashes' \in Nat
    BY <1>1 DEF SessionInv, TypeOK
  <2> QED BY <1>1, <2>1 DEF dataVars, SessionInv, TypeOK
<1>3. \A d \in Desc : \A x \in Core : Mentions(toCore'[x], d) => Mentions(toCore[x], d)
  BY <1>1, MentionsNone DEF SessionInv, TypeOK
<1>4. Adds({})
  BY <1>1, <1>3 DEF Adds
<1>5. Routed' /\ \A d \in Desc : Idle(d) => Idle(d)'
  BY <1>4, AddsKeeps DEF SessionInv
<1>6. KeysKnown'
  BY <1>1, <1>5 DEF SessionInv, KeysKnown
<1>7. NamesBound'
  BY <1>1 DEF SessionInv, NamesBound, TypeOK
<1>8. QueryPeers' /\ Data'
  BY <1>1, LinkKeeps
<1> QED BY <1>2, <1>5, <1>6, <1>7, <1>8 DEF SessionInv

LEMMA LoseLinkStep ==
    ASSUME SessionInv, NEW c \in Core, LoseLink(c)
    PROVE  SessionInv'
<1>1. /\ link' = [link EXCEPT ![c] = "down"] /\ link[c] = "up" /\ lost' = lost + 1
      /\ toCore' = [toCore EXCEPT ![c] = << >>]
      /\ UNCHANGED <<coreVars, gen, toDb, dataVars, queries, issued, crashes>>
  BY DEF LoseLink
<1>2. TypeOK'
  BY <1>1 DEF coreVars, dataVars, SessionInv, TypeOK
<1>3. \A d \in Desc : \A x \in Core : Mentions(toCore'[x], d) => Mentions(toCore[x], d)
  BY <1>1, MentionsNone DEF SessionInv, TypeOK
<1>4. Adds({})
  BY <1>1, <1>3 DEF Adds
<1>5. Routed' /\ KeysKnown' /\ NamesBound'
  BY <1>1, <1>4, ServerStep DEF coreVars
<1>6. QueryPeers' /\ Data'
  BY <1>1, LinkKeeps
<1> QED BY <1>2, <1>5, <1>6 DEF SessionInv

LEMMA ReconnectStep ==
    ASSUME SessionInv, NEW c \in Core, Reconnect(c)
    PROVE  SessionInv'
<1> DEFINE p == <<c, gen[c] + 1>>
<1>1. PICK m \in Setups({d \in bound : CoreOf[d] = c}) : AddPeer(p, m)
  BY DEF Reconnect
<1>2. /\ link' = [link EXCEPT ![c] = "up"] /\ gen' = [gen EXCEPT ![c] = @ + 1]
      /\ UNCHANGED <<coreVars, toCore, dataVars, queries, issued, crashes, lost>>
  BY DEF Reconnect
<1>3. m \in DbPacket /\ m.op = "setup"
  <2> DEFINE D == {d \in bound : CoreOf[d] = c}
  <2>1. D \in SUBSET Desc /\ \A d \in D : loginKey[d] \in Key
    BY DEF SessionInv, TypeOK, KeysKnown
  <2> QED BY <1>1, <2>1, SetupPacket
<1>4. p \in Peer
  BY DEF SessionInv, TypeOK, Peer
<1> HIDE DEF p
<1>5. /\ DOMAIN toDb' = DOMAIN toDb \cup {p}
      /\ \A q \in DOMAIN toDb' : toDb'[q] = IF q = p THEN <<m>> ELSE toDb[q]
      /\ toDb' = [q \in DOMAIN toDb' |-> toDb'[q]]
  BY <1>1 DEF AddPeer
<1>6. DOMAIN toDb' \subseteq Peer /\ toDb' \in [DOMAIN toDb' -> Seq(DbPacket)]
  <2>1. <<m>> \in Seq(DbPacket)
    BY <1>3
  <2>2. \A q \in DOMAIN toDb' : toDb'[q] \in Seq(DbPacket)
    BY <1>5, <2>1 DEF SessionInv, TypeOK
  <2> QED BY <1>4, <1>5, <2>2 DEF SessionInv, TypeOK
<1>7. TypeOK'
  BY <1>2, <1>6 DEF coreVars, dataVars, SessionInv, TypeOK
<1>8. \A d \in Desc : \A q \in DOMAIN toDb' :
          Mentions(toDb'[q], d) => q \in DOMAIN toDb /\ Mentions(toDb[q], d)
  BY <1>3, <1>5, MentionsNone
<1>9. Adds({})
  BY <1>2, <1>8 DEF Adds
<1>10. Routed' /\ KeysKnown' /\ NamesBound'
  BY <1>2, <1>9, ServerStep DEF coreVars
<1>11. QueryPeers' /\ Data'
  BY <1>2, <1>5, LinkKeeps
<1> QED BY <1>7, <1>10, <1>11 DEF SessionInv

\* The account of the peer that is removed is free again, so the one that is
\* logged on still belongs to a peer that is there.
LEMMA RemovePeerStep ==
    ASSUME SessionInv, NEW p, RemovePeer(p)
    PROVE  SessionInv'
<1>1. /\ toDb' = PeersBut(p)
      /\ UNCHANGED <<coreVars, link, gen, toCore, byKey, byLogin, queries, issued, crashes, lost>>
      /\ \/ logon # None /\ EndLogon
         \/ /\ logon = None \/ object[logon].peer # p
            /\ UNCHANGED <<object, logon>>
  BY DEF RemovePeer
<1>2. /\ DOMAIN toDb' = DOMAIN toDb \ {p}
      /\ \A q \in DOMAIN toDb' : q \in DOMAIN toDb /\ toDb'[q] = toDb[q]
      /\ toDb' = [q \in DOMAIN toDb' |-> toDb'[q]]
  BY <1>1 DEF PeersBut
<1>3. Data'
  <2>1. CASE logon # None /\ EndLogon
    BY <1>1, <2>1, EndData DEF SessionInv, Data
  <2>2. CASE /\ logon = None \/ object[logon].peer # p
             /\ UNCHANGED <<object, logon>>
    <3>1. logon # None => object[logon].peer \in DOMAIN toDb'
      BY <1>2, <2>2 DEF SessionInv, Data, DataInv, DataLinks
    <3>2. UNCHANGED dataVars
      BY <1>1, <2>2 DEF dataVars
    <3> QED BY <3>1, <3>2, SamePeers DEF SessionInv, Data
  <2> QED BY <1>1, <2>1, <2>2
<1>4. TypeOK'
  <2>1. \A q \in DOMAIN toDb' : toDb'[q] \in Seq(DbPacket)
    BY <1>2 DEF SessionInv, TypeOK
  <2>2. DOMAIN toDb' \subseteq Peer /\ toDb' \in [DOMAIN toDb' -> Seq(DbPacket)]
    BY <1>2, <2>1 DEF SessionInv, TypeOK
  <2> QED BY <1>1, <1>3, <2>2 DEF coreVars, SessionInv, TypeOK, Data, DataInv, DataType
<1>5. Adds({})
  BY <1>1, <1>2 DEF Adds
<1>6. Routed' /\ KeysKnown' /\ NamesBound'
  BY <1>1, <1>5, ServerStep DEF coreVars
<1>7. QueryPeers'
  BY <1>1 DEF SessionInv, QueryPeers
<1> QED BY <1>3, <1>4, <1>6, <1>7 DEF SessionInv

-----------------------------------------------------------------------------
(* What holds with or without faults.                                      *)

LEMMA SessionStutter == SessionInv /\ UNCHANGED vars => SessionInv'
<1> SUFFICES ASSUME SessionInv, UNCHANGED vars
             PROVE  SessionInv'
  OBVIOUS
<1>1. UNCHANGED dbOnly /\ UNCHANGED <<toDb, toCore, queries, issued>>
      /\ UNCHANGED dataVars
  BY DEF vars, dbOnly
<1>2. Adds({})
  BY <1>1 DEF Adds
<1> QED BY <1>1, <1>2, ServerKeeps, SameQueries, SamePackets

LEMMA SessionNext == SessionInv /\ [Next]_vars => SessionInv'
<1> SUFFICES ASSUME SessionInv, [Next]_vars
             PROVE  SessionInv'
  OBVIOUS
<1>1. CASE UNCHANGED vars
  BY <1>1, SessionStutter
<1>2. ASSUME NEW d \in Desc,
             Connect(d) \/ LoginByKey(d) \/ CharacterSelect(d) \/ EnterGame(d)
                 \/ Close(d) \/ DisconnectEvent(d) \/ Destroy(d)
      PROVE  SessionInv'
  BY <1>2, ConnectStep, LoginByKeyStep, CharacterSelectStep, EnterGameStep, CloseStep,
     DisconnectEventStep, DestroyStep
<1>3. ASSUME NEW c \in Core, FromDb(c) \/ P2PDisconnect(c)
      PROVE  SessionInv'
  BY <1>3, LoginSuccessStep, LoginAlreadyStep, PlayerLoadStep, P2PDisconnectStep DEF FromDb
<1>4. ASSUME NEW p, FromPeer(p) \/ RemovePeer(p)
      PROVE  SessionInv'
  BY <1>4, QueryLoginByKeyStep, QueryPlayerLoadStep, QueryLogoutStep, QuerySetupStep,
     RemovePeerStep DEF FromPeer
<1>5. ASSUME NEW c \in Core, Reconnect(c) \/ Crash(c) \/ LoseLink(c)
      PROVE  SessionInv'
  BY <1>5, ReconnectStep, CrashStep, LoseLinkStep
<1>6. CASE QueryAuthLogin \/ QueryResult
  BY <1>6, QueryAuthLoginStep, ResultDroppedStep, ResultLoginStep, ResultPlayerLoadStep
     DEF QueryResult
<1> QED BY <1>1, <1>2, <1>3, <1>4, <1>5, <1>6, LoginAssumption DEF Next

LEMMA SessionInvariant == Spec => []SessionInv
BY SessionInit, SessionNext, PTL DEF Spec

\* The state of the cores, the connections and the DB server has the types that
\* the code gives it: no handler leaves a descriptor, a handle or an object
\* where another kind of value belongs.
THEOREM TypeCorrect == Spec => []TypeOK
<1>1. SessionInv => TypeOK
  BY DEF SessionInv
<1> QED BY <1>1, SessionInvariant, PTL

\* No map of the DB server keeps an object of CLoginData that was freed,
\* however logins that replace each other, late results, logouts, the SETUP of
\* a core and the removal of a peer interleave (DeleteLoginData,
\* DeleteLogonAccount, QUERY_SETUP).
THEOREM DanglingFree == Spec => []NoDangling
<1>1. SessionInv => NoDangling
  BY DEF SessionInv, Data, DataInv, DataLinks, NoDangling, Referenced
<1> QED BY <1>1, SessionInvariant, PTL

\* The account that is logged on belongs to a connection that the DB server
\* still has, for any number of connections that break and are made again.
THEOREM LogonOwned == Spec => []LogonHasPeer
<1>1. SessionInv => LogonHasPeer
  BY DEF SessionInv, Data, DataInv, DataLinks, LogonHasPeer
<1> QED BY <1>1, SessionInvariant, PTL

-----------------------------------------------------------------------------
(* One session, as long as no connection breaks whose core lives on.       *)

\* How often an operation is on its way: not at all, or once at most.
Lacks(s, op) == \A i \in DOMAIN s : s[i].op # op

AtMostOne(s, op) == \A i, j \in DOMAIN s : s[i].op = op /\ s[j].op = op => i = j

\* A SETUP names nobody.
NoKeys(s) == \A i \in DOMAIN s : s[i].op = "setup" => s[i].keys = << >>

\* What is on its way to a core over the connection that peer p is.
InCore(p) == IF Broken(p) THEN << >> ELSE toCore[p[1]]

\* The DB server knows that peer p has the account.
HeldBy(p) == logon # None /\ object[logon].peer = p

\* The core that peer p is a connection of has the account, or the DB server
\* will be told over this connection that it has not.
Bound(p) == ~Broken(p) /\ \E d \in bound : CoreOf[d] = p[1]

Holds(p) ==
    Bound(p) \/ ~Lacks(InCore(p), "loginSuccess") \/ ~Lacks(toDb[p], "logout")

\* What there is of the account at peer p: a client with the account table, or
\* a LOGIN_SUCCESS on its way, or a LOGOUT on its way, and one of them only.
Tokens(p) ==
    /\ Bound(p) => \A d, e \in bound : CoreOf[d] = p[1] /\ CoreOf[e] = p[1] => d = e
    /\ AtMostOne(InCore(p), "loginSuccess") /\ AtMostOne(toDb[p], "logout")
    /\ Bound(p) => Lacks(InCore(p), "loginSuccess") /\ Lacks(toDb[p], "logout")
    /\ Lacks(InCore(p), "loginSuccess") \/ Lacks(toDb[p], "logout")
    /\ Holds(p) => HeldBy(p)
    /\ NoKeys(toDb[p])

\* A core without a connection has nothing of the account; the connection of
\* any other core is a peer, and no peer is of a connection to come.
Clean ==
    /\ \A c \in Core : IF link[c] = "down"
                       THEN toCore[c] = << >> /\ \A d \in bound : CoreOf[d] # c
                       ELSE PeerOf(c) \in DOMAIN toDb
    /\ \A p \in DOMAIN toDb : p[2] <= gen[p[1]]

AllTokens == Clean /\ \A p \in DOMAIN toDb : Tokens(p)

TokenInv == lost = 0 => AllTokens

\* t has no more of the account than s.
Fewer(s, t) ==
    /\ \A op \in {"loginSuccess", "logout"} :
           /\ Lacks(s, op) => Lacks(t, op)
           /\ AtMostOne(s, op) => AtMostOne(t, op)
    /\ NoKeys(s) => NoKeys(t)

LEMMA FewerSame == \A s : Fewer(s, s)
BY DEF Fewer

LEMMA FewerNone ==
    /\ \A s : Fewer(s, << >>)
    /\ \A s, m : m.op = "setup" /\ m.keys = << >> => Fewer(s, <<m>>)
BY DEF Fewer, Lacks, AtMostOne, NoKeys

LEMMA FewerTail ==
    ASSUME NEW S, NEW s \in Seq(S), s # << >>
    PROVE  /\ Fewer(s, Tail(s))
           /\ \A op : AtMostOne(s, op) /\ Head(s).op = op => Lacks(Tail(s), op)
           /\ \A op : Head(s).op = op => ~Lacks(s, op)
<1>1. /\ \A i \in DOMAIN Tail(s) : i + 1 \in DOMAIN s /\ Tail(s)[i] = s[i + 1] /\ i + 1 # 1
      /\ \A i, j \in DOMAIN Tail(s) : i + 1 = j + 1 => i = j
      /\ 1 \in DOMAIN s /\ Head(s) = s[1]
  OBVIOUS
<1>2. \A op : Lacks(s, op) => Lacks(Tail(s), op)
  BY <1>1 DEF Lacks
<1>3. \A op : AtMostOne(s, op) => AtMostOne(Tail(s), op)
  BY <1>1 DEF AtMostOne
<1>4. NoKeys(s) => NoKeys(Tail(s))
  BY <1>1 DEF NoKeys
<1>5. \A op : AtMostOne(s, op) /\ Head(s).op = op => Lacks(Tail(s), op)
  BY <1>1 DEF AtMostOne, Lacks
<1>6. \A op : Head(s).op = op => ~Lacks(s, op)
  BY <1>1 DEF Lacks
<1> QED BY <1>2, <1>3, <1>4, <1>5, <1>6 DEF Fewer

LEMMA FewerAppend ==
    ASSUME NEW S, NEW s \in Seq(S), NEW m
    PROVE  /\ \A op : Lacks(s, op) => AtMostOne(Append(s, m), op)
           /\ \A op : op # m.op => /\ Lacks(s, op) => Lacks(Append(s, m), op)
                                   /\ AtMostOne(s, op) => AtMostOne(Append(s, m), op)
           /\ NoKeys(s) /\ m.op # "setup" => NoKeys(Append(s, m))
           /\ m.op \notin {"loginSuccess", "logout", "setup"} => Fewer(s, Append(s, m))
<1>1. /\ \A i \in DOMAIN Append(s, m) :
             IF i \in DOMAIN s THEN Append(s, m)[i] = s[i]
             ELSE i = Len(s) + 1 /\ Append(s, m)[i] = m
      /\ \A i \in DOMAIN s : i # Len(s) + 1
  OBVIOUS
<1>2. \A op : Lacks(s, op) => AtMostOne(Append(s, m), op)
  BY <1>1 DEF Lacks, AtMostOne
<1>3. \A op : op # m.op => /\ Lacks(s, op) => Lacks(Append(s, m), op)
                           /\ AtMostOne(s, op) => AtMostOne(Append(s, m), op)
  BY <1>1 DEF Lacks, AtMostOne
<1>4. NoKeys(s) /\ m.op # "setup" => NoKeys(Append(s, m))
  BY <1>1 DEF NoKeys
<1> QED BY <1>2, <1>3, <1>4 DEF Fewer

\* Peer p has no more of the account than before, and what the DB server knows
\* about it is as before.
LEMMA TokensFewer ==
    ASSUME NEW p, Tokens(p),
           Fewer(InCore(p), InCore(p)'), Fewer(toDb[p], toDb'[p]),
           Bound(p)' => /\ Bound(p)
                        /\ \A d \in bound' : CoreOf[d] = p[1] => d \in bound,
           \/ HeldBy(p) => HeldBy(p)'
           \/ ~Holds(p)'
    PROVE  Tokens(p)'
<1>1. \A op \in {"loginSuccess", "logout"} :
          /\ Lacks(InCore(p), op) => Lacks(InCore(p)', op)
          /\ AtMostOne(InCore(p), op) => AtMostOne(InCore(p)', op)
          /\ Lacks(toDb[p], op) => Lacks(toDb'[p], op)
          /\ AtMostOne(toDb[p], op) => AtMostOne(toDb'[p], op)
  BY DEF Fewer
<1>2. NoKeys(toDb[p]) => NoKeys(toDb'[p])
  BY DEF Fewer
<1>3. Holds(p)' => Holds(p)
  BY <1>1 DEF Holds
<1> QED BY <1>1, <1>2, <1>3 DEF Tokens

\* A step that leaves the connections as they are.
SameLinks == UNCHANGED <<link, gen>> /\ DOMAIN toDb' = DOMAIN toDb

\* What a peer has, over such a step.
LEMMA SameLinksFacts ==
    ASSUME SameLinks, NEW p
    PROVE  /\ Broken(p)' <=> Broken(p)
           /\ HeldBy(p)' <=> logon' # None /\ object'[logon'].peer = p
           /\ InCore(p)' = IF Broken(p) THEN << >> ELSE toCore'[p[1]]
           /\ Bound(p)' <=> ~Broken(p) /\ \E d \in bound' : CoreOf[d] = p[1]
BY DEF SameLinks, Broken, PeerOf, HeldBy, InCore, Bound

LEMMA CleanKeeps ==
    ASSUME Clean, SameLinks,
           \A c \in Core : link[c] = "down" /\ toCore[c] = << >> => toCore'[c] = << >>,
           \A d \in bound' : d \in bound \/ link[CoreOf[d]] # "down"
    PROVE  Clean'
<1>1. \A c \in Core : PeerOf(c)' = PeerOf(c)
  BY DEF SameLinks, PeerOf
<1> QED BY <1>1 DEF Clean, SameLinks

\* The connection of a core that has something of the account.
LEMMA Connected ==
    ASSUME SessionInv, Clean, NEW c \in Core,
           toCore[c] # << >> \/ \E d \in bound : CoreOf[d] = c
    PROVE  /\ link[c] = "up" /\ PeerOf(c) \in DOMAIN toDb /\ PeerOf(c)[1] = c
           /\ ~Broken(PeerOf(c)) /\ InCore(PeerOf(c)) = toCore[c]
           /\ \A p \in DOMAIN toDb : p[1] = c /\ p # PeerOf(c) => Broken(p)
<1>1. link[c] # "down" /\ link[c] = "up" /\ PeerOf(c) \in DOMAIN toDb
  BY DEF Clean, SessionInv, TypeOK
<1>2. PeerOf(c)[1] = c
  BY DEF PeerOf
<1>3. ~Broken(PeerOf(c)) /\ \A p \in DOMAIN toDb : p[1] = c /\ p # PeerOf(c) => Broken(p)
  BY <1>1, <1>2 DEF Broken
<1> QED BY <1>1, <1>2, <1>3 DEF InCore

\* A step that sends nothing to a core that hands the account over.
CoreFewer(c) ==
    /\ Fewer(toCore[c], toCore'[c])
    /\ link[c] = "down" /\ toCore[c] = << >> => toCore'[c] = << >>

\* The same of what is on its way from the cores, which stay connected.
DbFewer == \A p \in DOMAIN toDb : Fewer(toDb[p], toDb'[p])

LEMMA NeutralStep ==
    ASSUME SessionInv, AllTokens, SameLinks, bound' = bound, DbFewer,
           \A c \in Core : CoreFewer(c),
           logon' = logon, logon # None => object'[logon].peer = object[logon].peer
    PROVE  AllTokens'
<1>1. Clean'
  BY CleanKeeps DEF AllTokens, CoreFewer
<1>2. ASSUME NEW p \in DOMAIN toDb PROVE Tokens(p)'
  <2>1. p[1] \in Core
    BY PeerCore DEF SessionInv
  <2>2. Fewer(InCore(p), InCore(p)')
    BY <2>1, SameLinksFacts, FewerSame DEF CoreFewer, InCore
  <2>3. HeldBy(p) => HeldBy(p)'
    BY SameLinksFacts DEF HeldBy
  <2>4. Bound(p)' => Bound(p)
    BY SameLinksFacts DEF Bound
  <2> QED BY <2>2, <2>3, <2>4, TokensFewer DEF AllTokens, DbFewer
<1>3. DOMAIN toDb' = DOMAIN toDb
  BY DEF SameLinks
<1> QED BY <1>1, <1>2, <1>3 DEF AllTokens

LEMMA CoreFewerSame == toCore' = toCore => \A c \in Core : CoreFewer(c)
BY FewerSame DEF CoreFewer

LEMMA DbFewerSame == toDb' = toDb => DbFewer /\ DOMAIN toDb' = DOMAIN toDb
BY FewerSame DEF DbFewer

LEMMA ToDbFewer ==
    ASSUME TypeOK, NEW c \in Core, NEW m, m.op \notin {"loginSuccess", "logout", "setup"},
           ToDb(c, m)
    PROVE  DbFewer /\ DOMAIN toDb' = DOMAIN toDb
<1> DEFINE p == PeerOf(c)
<1>1. /\ toDb \in [DOMAIN toDb -> Seq(DbPacket)]
      /\ toDb' = IF link[c] = "up" THEN [toDb EXCEPT ![p] = Append(@, m)] ELSE toDb
  BY DEF TypeOK, ToDb
<1> HIDE DEF p
<1>2. p \in DOMAIN toDb => Fewer(toDb[p], Append(toDb[p], m))
  BY <1>1, FewerAppend
<1> QED BY <1>1, <1>2, FewerSame DEF DbFewer

LEMMA ToCoreFewer ==
    ASSUME TypeOK, NEW p \in Peer, NEW d, NEW op,
           op \notin {"loginSuccess", "logout", "setup"}, ToCore(p, op, d)
    PROVE  \A x \in Core : CoreFewer(x)
<1> DEFINE m == [op |-> op, desc |-> d]
           c == p[1]
<1>1. c \in Core
  BY DEF Peer
<1>2. /\ toCore \in [Core -> Seq(CorePacket)] /\ toCore[c] \in Seq(CorePacket)
      /\ toCore' = IF Broken(p) THEN toCore ELSE [toCore EXCEPT ![c] = Append(@, m)]
      /\ m.op = op /\ (~Broken(p) => link[c] # "down")
  BY <1>1 DEF TypeOK, ToCore, Broken
<1> HIDE DEF m, c
<1>3. Fewer(toCore[c], Append(toCore[c], m))
  BY <1>2, FewerAppend
<1> QED BY <1>2, <1>3, FewerSame DEF CoreFewer

LEMMA PacketFewer ==
    ASSUME TypeOK, NEW p, NEW op, Packet(p, op)
    PROVE  /\ DbFewer /\ DOMAIN toDb' = DOMAIN toDb /\ p \in DOMAIN toDb
           /\ ~Lacks(toDb[p], op)
           /\ AtMostOne(toDb[p], op) => Lacks(toDb'[p], op)
           /\ \A x \in DOMAIN toDb : x # p => toDb'[x] = toDb[x]
<1>1. /\ toDb \in [DOMAIN toDb -> Seq(DbPacket)] /\ p \in DOMAIN toDb
      /\ toDb[p] \in Seq(DbPacket) /\ toDb[p] # << >> /\ Head(toDb[p]).op = op
      /\ toDb' = [toDb EXCEPT ![p] = Tail(@)]
  BY DEF TypeOK, Packet
<1>2. /\ Fewer(toDb[p], Tail(toDb[p])) /\ ~Lacks(toDb[p], op)
      /\ AtMostOne(toDb[p], op) => Lacks(Tail(toDb[p]), op)
  BY <1>1, FewerTail
<1> QED BY <1>1, <1>2, FewerSame DEF DbFewer

LEMMA ReceiveFewer ==
    ASSUME TypeOK, NEW c \in Core, NEW op, Receive(c, op)
    PROVE  /\ \A x \in Core : CoreFewer(x)
           /\ toCore[c] # << >> /\ ~Lacks(toCore[c], op)
           /\ AtMostOne(toCore[c], op) => Lacks(toCore'[c], op)
<1>1. /\ toCore \in [Core -> Seq(CorePacket)] /\ toCore[c] \in Seq(CorePacket)
      /\ toCore[c] # << >> /\ Head(toCore[c]).op = op
      /\ toCore' = [toCore EXCEPT ![c] = Tail(@)]
  BY DEF TypeOK, Receive
<1>2. /\ Fewer(toCore[c], Tail(toCore[c])) /\ ~Lacks(toCore[c], op)
      /\ AtMostOne(toCore[c], op) => Lacks(Tail(toCore[c]), op)
  BY <1>1, FewerTail
<1> QED BY <1>1, <1>2, FewerSame DEF CoreFewer

\* What the invariant says of the account that is logged on.
LEMMA LogonFacts ==
    ASSUME SessionInv
    PROVE  /\ logon # None => /\ logon \in Obj /\ object[logon] \in LoginData
                              /\ byLogin \in Obj
           /\ byLogin # None => byLogin \in Obj /\ object[byLogin] \in LoginData
           /\ object \in [Obj -> LoginData \cup {None}]
BY DEF SessionInv, Data, DataInv, DataType, DataLinks

\* Steps of clients and cores that have nothing to do with the account.
LEMMA QuietClientStep ==
    ASSUME SessionInv, AllTokens, NEW d \in Desc,
           \/ Connect(d) \/ LoginByKey(d) \/ CharacterSelect(d) \/ EnterGame(d)
           \/ Close(d) \/ DisconnectEvent(d)
    PROVE  AllTokens'
<1>1. /\ UNCHANGED <<bound, link, gen, toCore, object, logon>>
      /\ \/ toDb' = toDb
         \/ ToDb(CoreOf[d], [op |-> "loginByKey", desc |-> d, key |-> issued])
         \/ ToDb(CoreOf[d], [op |-> "playerLoad", desc |-> d])
  BY DEF Connect, LoginByKey, CharacterSelect, EnterGame, Close, DisconnectEvent,
         clientOnly, coreOnly, coreVars, dataVars
<1>2. CoreOf[d] \in Core /\ TypeOK
  BY LoginAssumption DEF SessionInv
<1>3. DbFewer /\ DOMAIN toDb' = DOMAIN toDb
  <2>1. CASE toDb' = toDb
    BY <2>1, DbFewerSame
  <2>2. CASE ToDb(CoreOf[d], [op |-> "loginByKey", desc |-> d, key |-> issued])
    BY <1>2, <2>2, ToDbFewer
  <2>3. CASE ToDb(CoreOf[d], [op |-> "playerLoad", desc |-> d])
    BY <1>2, <2>3, ToDbFewer
  <2> QED BY <1>1, <2>1, <2>2, <2>3
<1>4. SameLinks
  BY <1>1, <1>3 DEF SameLinks
<1> QED BY <1>1, <1>3, <1>4, CoreFewerSame, NeutralStep

LEMMA QuietCoreStep ==
    ASSUME SessionInv, AllTokens, NEW c \in Core,
           LoginAlready(c) \/ PlayerLoad(c) \/ P2PDisconnect(c)
    PROVE  AllTokens'
<1>1. /\ UNCHANGED <<bound, link, gen, toDb, object, logon>>
      /\ \/ toCore' = toCore \/ Receive(c, "loginAlready")
         \/ Receive(c, "playerLoadSuccess")
  BY DEF LoginAlready, PlayerLoad, P2PDisconnect, coreOnly, dataVars
<1>2. \A x \in Core : CoreFewer(x)
  BY <1>1, ReceiveFewer, CoreFewerSame DEF SessionInv
<1>3. SameLinks
  BY <1>1 DEF SameLinks
<1> QED BY <1>1, <1>2, <1>3, DbFewerSame, NeutralStep

\* A peer that a step does not concern: nothing changes on the way to its core
\* and from it, and no client of its core gets the account table.
LEMMA OtherPeer ==
    ASSUME AllTokens, SameLinks, NEW p \in DOMAIN toDb,
           Fewer(toDb[p], toDb'[p]),
           \/ Broken(p)
           \/ /\ toCore'[p[1]] = toCore[p[1]]
              /\ \A d \in bound' : CoreOf[d] = p[1] => d \in bound,
           \/ HeldBy(p) => HeldBy(p)'
           \/ ~Holds(p)'
    PROVE  Tokens(p)'
<1>1. InCore(p)' = InCore(p)
  BY SameLinksFacts DEF InCore
<1>2. Bound(p)' => /\ Bound(p)
                   /\ \A d \in bound' : CoreOf[d] = p[1] => d \in bound
  BY SameLinksFacts DEF Bound
<1>3. Fewer(InCore(p), InCore(p)')
  BY <1>1, FewerSame
<1> QED BY <1>2, <1>3, TokensFewer DEF AllTokens

\* LOGIN_SUCCESS: the client takes the account, or it has gone and gives it
\* back at once.
LEMMA LoginSuccessTokens ==
    ASSUME SessionInv, AllTokens, NEW c \in Core, LoginSuccess(c)
    PROVE  AllTokens'
<1> DEFINE e == Head(toCore[c]).desc
           m == [op |-> "logout", desc |-> e]
<1>1. /\ Receive(c, "loginSuccess")
      /\ UNCHANGED <<link, gen, object, logon>>
      /\ \/ ToDb(c, m) /\ UNCHANGED bound
         \/ bound' = bound \cup {e} /\ UNCHANGED toDb
  BY DEF LoginSuccess, coreOnly, dataVars
<1>2. /\ e \in Desc /\ CoreOf[e] = c
      /\ toCore' = [toCore EXCEPT ![c] = Tail(@)]
  BY <1>1, ReceiveTakes DEF SessionInv, Routed, Receive
<1>3. /\ \A x \in Core : CoreFewer(x)
      /\ toCore[c] # << >> /\ ~Lacks(toCore[c], "loginSuccess")
      /\ AtMostOne(toCore[c], "loginSuccess") => Lacks(toCore'[c], "loginSuccess")
  BY <1>1, ReceiveFewer DEF SessionInv
<1>4. PICK p \in DOMAIN toDb :
      /\ p = PeerOf(c) /\ link[c] = "up" /\ p[1] = c
      /\ ~Broken(p) /\ InCore(p) = toCore[c]
      /\ \A x \in DOMAIN toDb : x[1] = c /\ x # p => Broken(x)
  BY <1>3, Connected DEF AllTokens
<1>5. m.op = "logout" /\ (ToDb(c, m) => toDb' = [toDb EXCEPT ![p] = Append(@, m)])
  BY <1>4 DEF ToDb
<1> HIDE DEF e, m
<1>6. DOMAIN toDb' = DOMAIN toDb /\ \A x \in DOMAIN toDb : x # p => toDb'[x] = toDb[x]
  BY <1>1, <1>5
<1>7. SameLinks
  BY <1>1, <1>6 DEF SameLinks
<1>8. /\ InCore(p)' = toCore'[c] /\ (Bound(p)' <=> \E d \in bound' : CoreOf[d] = c)
      /\ \A x : HeldBy(x) => HeldBy(x)'
  BY <1>1, <1>4, <1>7, SameLinksFacts DEF HeldBy
<1>9. /\ HeldBy(p) /\ HeldBy(p)' /\ ~Bound(p) /\ ~\E d \in bound : CoreOf[d] = c
      /\ Lacks(toDb[p], "logout") /\ Lacks(toCore'[c], "loginSuccess") /\ NoKeys(toDb[p])
  BY <1>3, <1>4, <1>8 DEF AllTokens, Tokens, Holds, Bound
<1>10. Tokens(p)'
  <2>1. AtMostOne(toCore'[c], "loginSuccess")
    BY <1>9 DEF Lacks, AtMostOne
  <2>2. CASE ToDb(c, m) /\ UNCHANGED bound
    <3>1. /\ toDb[p] \in Seq(DbPacket) /\ toDb'[p] = Append(toDb[p], m)
      BY <1>4, <1>5, <2>2 DEF SessionInv, TypeOK
    <3>2. AtMostOne(toDb'[p], "logout") /\ NoKeys(toDb'[p])
      BY <1>5, <1>9, <3>1, FewerAppend
    <3> QED BY <1>8, <1>9, <2>1, <2>2, <3>2 DEF Tokens
  <2>3. CASE bound' = bound \cup {e} /\ UNCHANGED toDb
    <3>1. \A d \in bound' : CoreOf[d] = c => d = e
      BY <1>9, <2>3
    <3>2. AtMostOne(toDb'[p], "logout") /\ Lacks(toDb'[p], "logout") /\ NoKeys(toDb'[p])
      BY <1>9, <2>3 DEF Lacks, AtMostOne
    <3> QED BY <1>4, <1>8, <1>9, <2>1, <3>1, <3>2 DEF Tokens
  <2> QED BY <1>1, <2>2, <2>3
<1>11. ASSUME NEW x \in DOMAIN toDb, x # p
       PROVE  Tokens(x)'
  <2>1. x[1] = c => Broken(x)
    BY <1>4, <1>11
  <2>2. x[1] # c => /\ toCore'[x[1]] = toCore[x[1]]
                    /\ \A d \in bound' : CoreOf[d] = x[1] => d \in bound
    BY <1>1, <1>2 DEF SessionInv, TypeOK
  <2> QED BY <1>6, <1>7, <1>8, <1>11, <2>1, <2>2, OtherPeer, FewerSame
<1>12. Clean'
  BY <1>1, <1>2, <1>3, <1>4, <1>7, CleanKeeps DEF AllTokens, CoreFewer
<1> QED BY <1>6, <1>10, <1>11, <1>12 DEF AllTokens

\* DESC::Destroy gives the account back that the client has.
LEMMA DestroyTokens ==
    ASSUME SessionInv, AllTokens, NEW e \in Desc, Destroy(e)
    PROVE  AllTokens'
<1> DEFINE c == CoreOf[e]
           m == [op |-> "logout", desc |-> e]
<1>1. /\ bound' = bound \ {e} /\ c \in Core
      /\ UNCHANGED <<link, gen, object, logon, toCore>>
      /\ IF e \in bound THEN ToDb(c, m) ELSE UNCHANGED toDb
      /\ m.op = "logout"
  BY LoginAssumption DEF Destroy, coreOnly, dataVars
<1>2. /\ DOMAIN toDb' = DOMAIN toDb
      /\ \A x \in DOMAIN toDb : x # PeerOf(c) => toDb'[x] = toDb[x]
      /\ e \notin bound => toDb' = toDb
  BY <1>1 DEF ToDb
<1>3. SameLinks
  BY <1>1, <1>2 DEF SameLinks
<1>4. \A x : HeldBy(x) => HeldBy(x)'
  BY <1>1, <1>3, SameLinksFacts DEF HeldBy
<1>5. Clean'
  BY <1>1, <1>3, CleanKeeps DEF AllTokens
<1> HIDE DEF m
<1>6. ASSUME NEW x \in DOMAIN toDb, toDb'[x] = toDb[x]
      PROVE  Tokens(x)'
  BY <1>1, <1>3, <1>4, <1>6, OtherPeer, FewerSame
<1>7. CASE e \in bound
  <2>1. PICK p \in DOMAIN toDb :
            p = PeerOf(c) /\ link[c] = "up" /\ p[1] = c /\ ~Broken(p) /\ Bound(p)
    BY <1>1, <1>7, Connected DEF AllTokens, Bound
  <2> HIDE DEF c
  <2>2. /\ HeldBy(p)' /\ Lacks(toDb[p], "logout") /\ NoKeys(toDb[p])
        /\ Lacks(InCore(p), "loginSuccess") /\ AtMostOne(InCore(p), "loginSuccess")
        /\ \A d \in bound : CoreOf[d] = p[1] => d = e
    BY <1>4, <1>7, <2>1 DEF AllTokens, Tokens, Holds, c
  <2>3. ~Bound(p)' /\ InCore(p)' = InCore(p)
    BY <1>1, <1>3, <2>2, SameLinksFacts, <2>1 DEF InCore
  <2>4. toDb[p] \in Seq(DbPacket) /\ toDb'[p] = Append(toDb[p], m)
    BY <1>1, <1>7, <2>1 DEF ToDb, SessionInv, TypeOK, c
  <2>5. AtMostOne(toDb'[p], "logout") /\ NoKeys(toDb'[p])
    BY <1>1, <2>2, <2>4, FewerAppend
  <2>6. Tokens(p)'
    BY <2>2, <2>3, <2>5 DEF Tokens
  <2>7. \A x \in DOMAIN toDb : x # p => Tokens(x)'
    BY <1>2, <1>6, <2>1 DEF c
  <2> QED BY <1>2, <1>5, <2>6, <2>7 DEF AllTokens
<1> QED BY <1>2, <1>5, <1>6, <1>7 DEF AllTokens

\* Steps of the DB server that leave the account logged on with its peer.
LEMMA AuthTokens ==
    ASSUME SessionInv, AllTokens, QueryAuthLogin
    PROVE  AllTokens'
<1> DEFINE o == CHOOSE x \in Obj : x \notin Referenced(byKey, byLogin, logon)
           others == IF byLogin = None THEN object ELSE DeleteLoginData(byLogin)
<1>1. /\ UNCHANGED <<bound, link, gen, toDb, toCore, logon>>
      /\ object' = [others EXCEPT ![o] = NewLoginData(issued + 1)]
  BY DEF QueryAuthLogin, dbOnly, coreVars
<1>2. o \in Obj /\ logon # o
  BY FreeObject, Unreferenced DEF SessionInv, TypeOK
<1> HIDE DEF o
<1>3. ASSUME logon # None
      PROVE  /\ others[logon].peer = object[logon].peer
             /\ object' = [others EXCEPT ![o] = NewLoginData(issued + 1)]
             /\ \E S : others \in [Obj -> S]
  <2>1. /\ logon \in Obj /\ object[logon] \in LoginData
        /\ object \in [Obj -> LoginData \cup {None}]
    BY <1>3, LogonFacts
  <2>2. CASE byLogin = None
    BY <1>1, <2>1, <2>2
  <2>3. CASE byLogin # None
    <3>1. byLogin \in Obj /\ object[byLogin] \in LoginData
      BY <2>3, LogonFacts
    <3>2. others = [object EXCEPT ![byLogin] = [@ EXCEPT !.deleted = TRUE]]
      BY <1>3, <2>3 DEF DeleteLoginData
    <3> HIDE DEF others
    <3>3. /\ others \in [Obj -> LoginData \cup {None}]
          /\ others[byLogin].peer = object[byLogin].peer
          /\ logon # byLogin => others[logon] = object[logon]
      BY <2>1, <3>1, <3>2, DeletedFields
    <3> QED BY <1>1, <3>3
  <2> QED BY <2>2, <2>3
<1>4. logon # None => object'[logon].peer = object[logon].peer
  <2> HIDE DEF others
  <2>1. SUFFICES ASSUME logon # None
                 PROVE  object'[logon].peer = object[logon].peer
    OBVIOUS
  <2>2. logon \in Obj
    BY <2>1, LogonFacts
  <2> QED BY <1>2, <1>3, <2>1, <2>2
<1>5. SameLinks
  BY <1>1 DEF SameLinks
<1> QED BY <1>1, <1>4, <1>5, CoreFewerSame, DbFewerSame, NeutralStep

LEMMA QueryLoginByKeyTokens ==
    ASSUME SessionInv, AllTokens, NEW p, QueryLoginByKey(p)
    PROVE  AllTokens'
<1>1. /\ UNCHANGED <<bound, link, gen, object, logon>> /\ Packet(p, "loginByKey")
      /\ toCore' = toCore \/ ToCore(p, "loginAlready", Head(toDb[p]).desc)
  BY DEF QueryLoginByKey, dbOnly, coreVars, dataVars
<1>2. DbFewer /\ DOMAIN toDb' = DOMAIN toDb /\ p \in Peer
  BY <1>1, PacketFewer, PeerCore DEF SessionInv
<1>3. \A x \in Core : CoreFewer(x)
  BY <1>1, <1>2, CoreFewerSame, ToCoreFewer DEF SessionInv
<1>4. SameLinks
  BY <1>1, <1>2 DEF SameLinks
<1> QED BY <1>1, <1>2, <1>3, <1>4, NeutralStep

LEMMA ResultDroppedTokens ==
    ASSUME SessionInv, AllTokens, ResultDropped
    PROVE  AllTokens'
<1>1. UNCHANGED <<bound, link, gen, object, logon, toDb, toCore>>
  BY DEF ResultDropped, dbOnly, coreVars, dataVars
<1>2. SameLinks
  BY <1>1 DEF SameLinks
<1> QED BY <1>1, <1>2, CoreFewerSame, DbFewerSame, NeutralStep

LEMMA LoadPlayerFewer ==
    ASSUME SessionInv, NEW p \in Peer, NEW d,
           LoadPlayer(p, d) \/ UNCHANGED <<object, toCore>>
    PROVE  /\ \A x \in Core : CoreFewer(x)
           /\ logon # None => object'[logon].peer = object[logon].peer
<1>1. CASE UNCHANGED <<object, toCore>>
  BY <1>1, CoreFewerSame
<1>2. CASE /\ byLogin # None
           /\ object' = [object EXCEPT ![byLogin].play = TRUE]
           /\ ToCore(p, "playerLoadSuccess", d)
  <2>1. \A x \in Core : CoreFewer(x)
    BY <1>2, ToCoreFewer DEF SessionInv
  <2>2. /\ byLogin \in Obj /\ object[byLogin] \in LoginData
        /\ object \in [Obj -> LoginData \cup {None}]
        /\ logon # None => logon \in Obj
    BY <1>2, LogonFacts
  <2>3. /\ object'[byLogin] = [object[byLogin] EXCEPT !.play = TRUE]
        /\ \A x \in Obj : x # byLogin => object'[x] = object[x]
    BY <1>2, <2>2
  <2> QED BY <2>1, <2>2, <2>3, PlayFields
<1> QED BY <1>1, <1>2 DEF LoadPlayer

LEMMA PlayerLoadTokens ==
    ASSUME SessionInv, AllTokens,
           ResultPlayerLoad \/ \E p \in DOMAIN toDb : QueryPlayerLoad(p)
    PROVE  AllTokens'
<1>1. CASE ResultPlayerLoad
  <2>1. /\ UNCHANGED <<bound, link, gen, toDb, logon>>
        /\ Result("player") /\ queries' = Tail(queries)
        /\ LoadPlayer(Head(queries).peer, Head(queries).desc)
    BY <1>1 DEF ResultPlayerLoad, dbOnly, coreVars
  <2>2. Head(queries).peer \in Peer /\ SameLinks
    BY <2>1, ResultPeer DEF SameLinks
  <2> QED BY <2>1, <2>2, LoadPlayerFewer, DbFewerSame, NeutralStep
<1>2. ASSUME NEW p \in DOMAIN toDb, QueryPlayerLoad(p)
      PROVE  AllTokens'
  <2>1. /\ UNCHANGED <<bound, link, gen, logon>> /\ Packet(p, "playerLoad")
        /\ LoadPlayer(p, Head(toDb[p]).desc) \/ UNCHANGED <<object, toCore>>
    BY <1>2 DEF QueryPlayerLoad, dbOnly, coreVars
  <2>2. p \in Peer /\ DbFewer /\ DOMAIN toDb' = DOMAIN toDb
    BY <2>1, PacketFewer, PeerCore DEF SessionInv
  <2>3. SameLinks
    BY <2>1, <2>2 DEF SameLinks
  <2> QED BY <2>1, <2>2, <2>3, LoadPlayerFewer, NeutralStep
<1> QED BY <1>1, <1>2

\* A SETUP that names nobody changes nothing.
LEMMA QuerySetupTokens ==
    ASSUME SessionInv, AllTokens, NEW p, QuerySetup(p)
    PROVE  AllTokens'
<1>1. /\ UNCHANGED <<bound, link, gen, toCore>> /\ Packet(p, "setup")
  BY DEF QuerySetup, dbOnly, coreVars
<1>2. DbFewer /\ DOMAIN toDb' = DOMAIN toDb /\ p \in DOMAIN toDb
  BY <1>1, PacketFewer DEF SessionInv
<1>3. toDb[p] \in Seq(DbPacket) /\ toDb[p] # << >> /\ Head(toDb[p]).op = "setup"
  BY <1>1, <1>2 DEF Packet, SessionInv, TypeOK
<1>4. Head(toDb[p]).keys = << >>
  BY <1>2, <1>3 DEF AllTokens, Tokens, NoKeys
<1>5. SetupAll(<< >>, p)[0] = LoginState
  <2>1. << >> \in Seq(Key)
    OBVIOUS
  <2> QED BY <2>1, SetupSteps
<1>6. object' = object /\ logon' = logon
  BY <1>4, <1>5 DEF QuerySetup, LoginState
<1>7. SameLinks
  BY <1>1, <1>2 DEF SameLinks
<1> QED BY <1>1, <1>2, <1>6, <1>7, CoreFewerSame, NeutralStep

\* RESULT_LOGIN lets the account be logged on when nobody has it.
LEMMA ResultLoginTokens ==
    ASSUME SessionInv, AllTokens, ResultLogin
    PROVE  AllTokens'
<1>0. PICK p : p = Head(queries).peer
  OBVIOUS
<1> DEFINE e == Head(queries).desc
           m == [op |-> "loginSuccess", desc |-> e]
<1>1. /\ UNCHANGED <<bound, link, gen, toDb, byLogin>>
      /\ Result("login") /\ queries' = Tail(queries)
      /\ \/ /\ CanLogon
            /\ object' = [object EXCEPT ![byLogin].peer = p]
            /\ logon' = byLogin /\ ToCore(p, "loginSuccess", e)
         \/ ToCore(p, "loginAlready", e) /\ UNCHANGED <<object, logon>>
  BY <1>0 DEF ResultLogin, dbOnly, coreVars
<1>2. p \in Peer /\ p \in DOMAIN toDb /\ p[1] \in Core
  BY <1>0, <1>1, ResultPeer, PeerCore DEF SessionInv
<1>3. SameLinks
  BY <1>1 DEF SameLinks
<1>4. CASE ToCore(p, "loginAlready", e) /\ UNCHANGED <<object, logon>>
  BY <1>1, <1>2, <1>3, <1>4, ToCoreFewer, DbFewerSame, NeutralStep DEF SessionInv
<1>5. CASE /\ CanLogon
           /\ object' = [object EXCEPT ![byLogin].peer = p]
           /\ logon' = byLogin /\ ToCore(p, "loginSuccess", e)
  <2>1. /\ logon = None /\ byLogin # None /\ byLogin \in Obj /\ object[byLogin] \in LoginData
        /\ object \in [Obj -> LoginData \cup {None}]
    BY <1>5, LogonFacts DEF CanLogon
  <2>2. HeldBy(p)'
    <3>1. object'[byLogin] = [object[byLogin] EXCEPT !.peer = p]
      BY <1>5, <2>1
    <3> QED BY <1>2, <1>5, <2>1, <3>1, PeerFields DEF HeldBy
  <2>3. \A x \in DOMAIN toDb : ~Holds(x)
    BY <2>1 DEF AllTokens, Tokens, HeldBy
  <2>4. /\ toCore \in [Core -> Seq(CorePacket)] /\ toCore[p[1]] \in Seq(CorePacket)
        /\ toCore' = IF Broken(p) THEN toCore ELSE [toCore EXCEPT ![p[1]] = Append(@, m)]
        /\ m.op = "loginSuccess"
    BY <1>2, <1>5 DEF SessionInv, TypeOK, ToCore
  <2> HIDE DEF m
  <2>5. ASSUME NEW x \in DOMAIN toDb, Broken(x) \/ toCore'[x[1]] = toCore[x[1]]
        PROVE  Tokens(x)'
    <3>1. InCore(x)' = InCore(x) /\ (Bound(x)' <=> Bound(x))
      BY <1>1, <1>3, <2>5, SameLinksFacts DEF InCore, Bound
    <3>2. ~Holds(x)'
      BY <1>1, <2>3, <3>1 DEF Holds
    <3> QED BY <1>1, <1>3, <2>5, <3>2, OtherPeer, FewerSame
  <2>6. /\ \A c \in Core : link[c] = "down" /\ toCore[c] = << >> => toCore'[c] = << >>
    BY <1>2, <2>4 DEF Broken
  <2>7. Clean'
    BY <1>1, <1>3, <2>6, CleanKeeps DEF AllTokens
  <2>8. CASE Broken(p)
    BY <1>1, <2>4, <2>5, <2>7, <2>8 DEF AllTokens
  <2>9. CASE ~Broken(p)
    <3>1. /\ toCore'[p[1]] = Append(toCore[p[1]], m)
          /\ \A x \in Core : x # p[1] => toCore'[x] = toCore[x]
      BY <1>2, <2>4, <2>9
    <3>2. Lacks(toCore[p[1]], "loginSuccess") /\ Lacks(toDb[p], "logout") /\ ~Bound(p)
      BY <1>2, <2>3, <2>9 DEF Holds, InCore
    <3>3. AtMostOne(toCore'[p[1]], "loginSuccess")
      BY <2>4, <3>1, <3>2, FewerAppend
    <3>4. ~Bound(p)' /\ InCore(p)' = toCore'[p[1]]
      BY <1>1, <1>3, <2>9, <3>2, SameLinksFacts DEF Bound
    <3>5. Tokens(p)'
      BY <1>1, <1>2, <2>2, <3>2, <3>3, <3>4 DEF AllTokens, Tokens
    <3>6. ASSUME NEW x \in DOMAIN toDb, x # p
          PROVE  Broken(x) \/ toCore'[x[1]] = toCore[x[1]]
      <4>1. CASE x[1] = p[1]
        BY <2>9, <3>6, <4>1 DEF Broken
      <4>2. x[1] \in Core
        BY PeerCore DEF SessionInv
      <4> QED BY <3>1, <4>1, <4>2
    <3> QED BY <1>1, <2>5, <2>7, <3>5, <3>6 DEF AllTokens
  <2> QED BY <2>8, <2>9
<1> QED BY <1>1, <1>4, <1>5

\* QUERY_LOGOUT takes the account back from the peer that had it.
LEMMA QueryLogoutTokens ==
    ASSUME SessionInv, AllTokens, NEW p, QueryLogout(p)
    PROVE  AllTokens'
<1>1. UNCHANGED <<bound, link, gen, toCore>> /\ Packet(p, "logout")
  BY DEF QueryLogout, dbOnly, coreVars
<1>2. /\ DbFewer /\ DOMAIN toDb' = DOMAIN toDb /\ p \in DOMAIN toDb
      /\ ~Lacks(toDb[p], "logout")
      /\ AtMostOne(toDb[p], "logout") => Lacks(toDb'[p], "logout")
  BY <1>1, PacketFewer DEF SessionInv
<1>3. SameLinks
  BY <1>1, <1>2 DEF SameLinks
<1>4. HeldBy(p)
  BY <1>2 DEF AllTokens, Tokens, Holds
<1>5. \A x : InCore(x)' = InCore(x) /\ (Bound(x)' <=> Bound(x))
  BY <1>1, <1>3, SameLinksFacts DEF InCore, Bound
<1>6. ~Holds(p)'
  BY <1>2, <1>5 DEF AllTokens, Tokens, Holds
<1>7. ASSUME NEW x \in DOMAIN toDb, x # p
      PROVE  ~Holds(x)'
  <2>1. ~Holds(x)
    BY <1>4, <1>7 DEF AllTokens, Tokens, HeldBy
  <2>2. Lacks(toDb[x], "logout") => Lacks(toDb'[x], "logout")
    BY <1>2 DEF DbFewer, Fewer
  <2> QED BY <1>5, <2>1, <2>2 DEF Holds
<1>8. \A x \in DOMAIN toDb : Tokens(x)'
  BY <1>1, <1>2, <1>3, <1>6, <1>7, OtherPeer DEF DbFewer
<1>9. Clean'
  BY <1>1, <1>3, CleanKeeps DEF AllTokens
<1> QED BY <1>2, <1>8, <1>9 DEF AllTokens

-----------------------------------------------------------------------------

\* A core that crashes loses its clients; what it has sent counts on.
LEMMA CrashTokens ==
    ASSUME SessionInv, AllTokens, NEW c \in Core, Crash(c)
    PROVE  AllTokens'
<1>1. /\ bound' = bound \ {d \in Desc : CoreOf[d] = c}
      /\ link' = [link EXCEPT ![c] = "down"]
      /\ toCore' = [toCore EXCEPT ![c] = << >>]
      /\ UNCHANGED <<gen, toDb, object, logon>>
      /\ link \in [Core -> {"up", "down"}] /\ toCore \in [Core -> Seq(CorePacket)]
      /\ bound \subseteq Desc
  BY DEF Crash, dataVars, SessionInv, TypeOK
<1>2. ASSUME NEW x \in DOMAIN toDb
      PROVE  Tokens(x)'
  <2>1. x[1] \in Core
    BY PeerCore DEF SessionInv
  <2>2. IF x[1] = c THEN Broken(x)' ELSE Broken(x)' <=> Broken(x)
    BY <1>1, <2>1 DEF Broken, PeerOf
  <2>3. InCore(x)' = << >> \/ InCore(x)' = InCore(x)
    BY <1>1, <2>1, <2>2 DEF InCore
  <2>4. HeldBy(x) => HeldBy(x)'
    BY <1>1 DEF HeldBy
  <2>5. Bound(x)' => Bound(x)
    BY <1>1, <2>2 DEF Bound
  <2>6. Fewer(InCore(x), InCore(x)') /\ Fewer(toDb[x], toDb'[x])
    BY <1>1, <2>3, FewerSame, FewerNone
  <2> QED BY <1>1, <2>4, <2>5, <2>6, TokensFewer DEF AllTokens
<1>3. Clean'
  <2>1. \A x \in Core : PeerOf(x)' = PeerOf(x)
    BY <1>1 DEF PeerOf
  <2> QED BY <1>1, <2>1 DEF AllTokens, Clean
<1> QED BY <1>1, <1>2, <1>3 DEF AllTokens

\* A core that reconnects has no client with an account table.
LEMMA ReconnectTokens ==
    ASSUME SessionInv, AllTokens, NEW c \in Core, Reconnect(c)
    PROVE  AllTokens'
<1> DEFINE D == {d \in bound : CoreOf[d] = c}
<1>0. PICK p : p = <<c, gen[c] + 1>>
  OBVIOUS
<1>1. PICK m \in Setups(D) : AddPeer(p, m)
  BY <1>0 DEF Reconnect
<1>2. /\ link' = [link EXCEPT ![c] = "up"] /\ gen' = [gen EXCEPT ![c] = @ + 1]
      /\ link[c] = "down" /\ UNCHANGED <<bound, toCore, object, logon>>
      /\ link \in [Core -> {"up", "down"}] /\ gen \in [Core -> Nat]
  BY DEF Reconnect, coreVars, dataVars, SessionInv, TypeOK
<1>3. D = {} /\ toCore[c] = << >>
  BY <1>2 DEF AllTokens, Clean
<1>4. m.op = "setup" /\ m.keys = << >>
  BY <1>1, <1>3, SetupPacket
<1>5. /\ DOMAIN toDb' = DOMAIN toDb \cup {p}
      /\ toDb'[p] = <<m>> /\ \A x \in DOMAIN toDb : x # p => toDb'[x] = toDb[x]
  BY <1>1 DEF AddPeer
<1>6. /\ p[1] = c /\ p[2] = gen'[c] /\ PeerOf(c)' = p
      /\ \A x \in Core : x # c => PeerOf(x)' = PeerOf(x)
  BY <1>0, <1>2 DEF PeerOf
<1>7. p \notin DOMAIN toDb
  BY <1>0, <1>2 DEF AllTokens, Clean
<1>8. ~\E d \in bound : CoreOf[d] = c
  BY <1>3
<1> HIDE DEF D
<1>9. Tokens(p)'
  <2>1. InCore(p)' = << >> /\ ~Bound(p)'
    BY <1>2, <1>3, <1>6, <1>8 DEF InCore, Bound
  <2>2. Lacks(<<m>>, "logout") /\ AtMostOne(<<m>>, "logout") /\ NoKeys(<<m>>)
    BY <1>4 DEF Lacks, AtMostOne, NoKeys
  <2>3. Lacks(<< >>, "loginSuccess") /\ AtMostOne(<< >>, "loginSuccess")
    BY DEF Lacks, AtMostOne
  <2> QED BY <1>5, <2>1, <2>2, <2>3 DEF Tokens, Holds
<1>10. ASSUME NEW x \in DOMAIN toDb
       PROVE  Tokens(x)'
  <2>1. x[1] \in Core /\ x # p
    BY <1>7, PeerCore DEF SessionInv
  <2>2. IF x[1] = c THEN Broken(x) /\ Broken(x)' ELSE Broken(x)' <=> Broken(x)
    BY <1>2, <1>6, <2>1 DEF Broken
  <2>3. InCore(x)' = InCore(x) /\ (Bound(x)' <=> Bound(x))
    BY <1>2, <2>2 DEF InCore, Bound
  <2>4. HeldBy(x) => HeldBy(x)'
    BY <1>2 DEF HeldBy
  <2> QED BY <1>2, <1>5, <2>1, <2>3, <2>4, TokensFewer, FewerSame DEF AllTokens
<1>11. Clean'
  <2>1. \A x \in DOMAIN toDb' : x[2] <= gen'[x[1]]
    <3>1. ASSUME NEW x \in DOMAIN toDb
          PROVE  x[2] <= gen'[x[1]]
      <4>1. x[2] <= gen[x[1]] /\ x[1] \in Core /\ x[2] \in Nat
        BY PeerCore DEF AllTokens, Clean, SessionInv
      <4> QED BY <1>2, <4>1
    <3>2. p[2] <= gen'[p[1]]
      BY <1>2, <1>6
    <3> QED BY <1>5, <3>1, <3>2
  <2> QED BY <1>2, <1>5, <1>6, <2>1 DEF AllTokens, Clean
<1> QED BY <1>5, <1>9, <1>10, <1>11 DEF AllTokens

\* RemovePeer takes back the account of a connection that is broken.
LEMMA RemovePeerTokens ==
    ASSUME SessionInv, AllTokens, NEW p, RemovePeer(p)
    PROVE  AllTokens'
<1>1. /\ toDb' = PeersBut(p) /\ Broken(p) /\ p \in DOMAIN toDb
      /\ UNCHANGED <<bound, toCore, link, gen>>
      /\ HeldBy(p) \/ UNCHANGED <<object, logon>>
  BY DEF RemovePeer, coreVars, HeldBy
<1>2. /\ DOMAIN toDb' = DOMAIN toDb \ {p}
      /\ \A x \in DOMAIN toDb' : toDb'[x] = toDb[x]
  BY <1>1 DEF PeersBut
<1>3. ASSUME NEW x \in DOMAIN toDb'
      PROVE  Tokens(x)'
  <2>1. x \in DOMAIN toDb /\ x # p /\ toDb'[x] = toDb[x]
    BY <1>2
  <2>2. InCore(x)' = InCore(x) /\ (Bound(x)' <=> Bound(x))
    BY <1>1 DEF InCore, Bound, Broken, PeerOf
  <2>3. CASE HeldBy(p)
    <3>1. ~Holds(x)
      BY <2>1, <2>3 DEF AllTokens, Tokens, HeldBy
    <3>2. ~Holds(x)'
      BY <2>1, <2>2, <3>1 DEF Holds
    <3> QED BY <1>1, <2>1, <2>2, <3>2, TokensFewer, FewerSame DEF AllTokens
  <2>4. CASE UNCHANGED <<object, logon>>
    <3>1. HeldBy(x) => HeldBy(x)'
      BY <2>4 DEF HeldBy
    <3> QED BY <1>1, <2>1, <2>2, <3>1, TokensFewer, FewerSame DEF AllTokens
  <2> QED BY <1>1, <2>3, <2>4
<1>4. Clean'
  <2>1. \A c \in Core : PeerOf(c)' = PeerOf(c)
    BY <1>1 DEF PeerOf
  <2>2. \A c \in Core : link[c] # "down" => PeerOf(c) # p
    BY <1>1 DEF Broken, PeerOf
  <2> QED BY <1>1, <1>2, <2>1, <2>2 DEF AllTokens, Clean
<1> QED BY <1>3, <1>4 DEF AllTokens

LEMMA TokenInit == Init => TokenInv
<1> SUFFICES ASSUME Init PROVE AllTokens
  BY DEF TokenInv
<1>1. /\ DOMAIN toDb = {PeerOf(c) : c \in Core}
      /\ \A p \in DOMAIN toDb : toDb[p] = << >> /\ p[1] \in Core /\ InCore(p) = << >>
      /\ \A c \in Core : PeerOf(c) \in DOMAIN toDb /\ link[c] # "down"
      /\ \A p \in DOMAIN toDb : p[2] = 0 /\ gen[p[1]] = 0
  BY DEF Init, PeerOf, InCore
<1>2. Clean
  BY <1>1 DEF Clean
<1>3. ASSUME NEW p \in DOMAIN toDb
      PROVE  Tokens(p)
  <2>1. ~Bound(p) /\ toDb[p] = << >> /\ InCore(p) = << >>
    BY <1>1 DEF Init, Bound
  <2>2. \A op : Lacks(<< >>, op) /\ AtMostOne(<< >>, op)
    BY DEF Lacks, AtMostOne
  <2>3. NoKeys(<< >>)
    BY DEF NoKeys
  <2> QED BY <2>1, <2>2, <2>3 DEF Tokens, Holds
<1> QED BY <1>2, <1>3 DEF AllTokens

LEMMA TokenNext == SessionInv /\ TokenInv /\ [Next]_vars => TokenInv'
<1> SUFFICES ASSUME SessionInv, TokenInv, [Next]_vars, lost' = 0
             PROVE  AllTokens'
  BY DEF TokenInv
<1>1. CASE UNCHANGED vars
  <2>1. UNCHANGED <<bound, link, gen, object, logon, toDb, toCore, lost>>
    BY <1>1 DEF vars, coreVars, dataVars
  <2>2. SameLinks
    BY <2>1 DEF SameLinks
  <2> QED BY <2>1, <2>2, CoreFewerSame, DbFewerSame, NeutralStep DEF TokenInv
<1>2. ASSUME NEW d \in Desc,
             Connect(d) \/ LoginByKey(d) \/ CharacterSelect(d) \/ EnterGame(d)
                 \/ Close(d) \/ DisconnectEvent(d) \/ Destroy(d)
      PROVE  AllTokens'
  <2>1. lost = 0
    BY <1>2 DEF Connect, LoginByKey, CharacterSelect, EnterGame, Close, DisconnectEvent,
                Destroy, clientOnly, coreOnly
  <2> QED BY <1>2, <2>1, QuietClientStep, DestroyTokens DEF TokenInv
<1>3. ASSUME NEW c \in Core, FromDb(c) \/ P2PDisconnect(c)
      PROVE  AllTokens'
  <2>1. lost = 0
    BY <1>3 DEF FromDb, LoginSuccess, LoginAlready, PlayerLoad, P2PDisconnect, coreOnly
  <2> QED BY <1>3, <2>1, LoginSuccessTokens, QuietCoreStep DEF TokenInv, FromDb
<1>4. ASSUME NEW p \in DOMAIN toDb, FromPeer(p) \/ RemovePeer(p)
      PROVE  AllTokens'
  <2>1. lost = 0
    BY <1>4 DEF FromPeer, QueryLoginByKey, QueryPlayerLoad, QueryLogout, QuerySetup,
                RemovePeer, dbOnly
  <2> QED BY <1>4, <2>1, QueryLoginByKeyTokens, PlayerLoadTokens, QueryLogoutTokens,
             QuerySetupTokens, RemovePeerTokens DEF TokenInv, FromPeer
<1>5. ASSUME NEW c \in Core, Reconnect(c) \/ Crash(c)
      PROVE  AllTokens'
  <2>1. lost = 0
    BY <1>5 DEF Reconnect, Crash
  <2> QED BY <1>5, <2>1, ReconnectTokens, CrashTokens DEF TokenInv
<1>6. \A c \in Core : ~LoseLink(c)
  BY DEF LoseLink, SessionInv, TypeOK
<1>7. CASE QueryAuthLogin \/ QueryResult
  <2>1. lost = 0
    BY <1>7 DEF QueryAuthLogin, QueryResult, ResultDropped, ResultLogin, ResultPlayerLoad,
                dbOnly
  <2> QED BY <1>7, <2>1, AuthTokens, ResultDroppedTokens, ResultLoginTokens,
             PlayerLoadTokens DEF TokenInv, QueryResult
<1> QED BY <1>1, <1>2, <1>3, <1>4, <1>5, <1>6, <1>7, LoginAssumption DEF Next

\* A client that has the account is of the core of the peer that has it, and
\* this peer has one such client.
LEMMA TokensAreSessions ==
    ASSUME SessionInv, AllTokens
    PROVE  /\ \A d, e \in Sessions : d = e
           /\ Sessions # {} => logon # None
<1> DEFINE OfPeer(d, p) ==
               /\ p[1] = CoreOf[d] /\ HeldBy(p) /\ Tokens(p)
               /\ \/ d \in bound /\ Bound(p)
                  \/ \E i \in DOMAIN InCore(p) :
                         InCore(p)[i].op = "loginSuccess" /\ InCore(p)[i].desc = d
                  \/ \E i \in DOMAIN toDb[p] :
                         toDb[p][i].op = "logout" /\ toDb[p][i].desc = d
<1>0. ASSUME NEW d \in Sessions
      PROVE  /\ d \in Desc
             /\ \/ d \in bound
                \/ \E c \in Core : d \in InFlight(toCore[c], "loginSuccess")
                \/ \E p \in DOMAIN toDb : d \in InFlight(toDb[p], "logout")
  <2>1. bound \subseteq Desc /\ \A s, op : InFlight(s, op) \subseteq Desc
    BY DEF InFlight, SessionInv, TypeOK
  <2> DEFINE A == UNION {InFlight(toCore[c], "loginSuccess") : c \in Core}
             B == UNION {InFlight(toDb[p], "logout") : p \in DOMAIN toDb}
  <2>2. d \in (bound \cup A) \cup B
    BY DEF Sessions
  <2>3. d \in A => \E c \in Core : d \in InFlight(toCore[c], "loginSuccess")
    OBVIOUS
  <2>4. d \in B => \E p \in DOMAIN toDb : d \in InFlight(toDb[p], "logout")
    OBVIOUS
  <2> HIDE DEF A, B
  <2> QED BY <2>1, <2>2, <2>3, <2>4
<1>1. ASSUME NEW d \in Sessions
      PROVE  \E p \in DOMAIN toDb : OfPeer(d, p)
  <2>1. d \in Desc /\ CoreOf[d] \in Core
    BY <1>0, LoginAssumption
  <2>2. CASE d \in bound
    <3>1. PICK p \in DOMAIN toDb : p[1] = CoreOf[d] /\ ~Broken(p)
      BY <2>1, <2>2, Connected DEF AllTokens
    <3>2. Bound(p)
      BY <2>2, <3>1 DEF Bound
    <3> QED BY <2>2, <3>1, <3>2 DEF AllTokens, Tokens, Holds
  <2>3. CASE \E c \in Core : d \in InFlight(toCore[c], "loginSuccess")
    <3>1. PICK c \in Core : \E i \in DOMAIN toCore[c] :
                                toCore[c][i].op = "loginSuccess" /\ toCore[c][i].desc = d
      BY <2>3 DEF InFlight
    <3>2. Mentions(toCore[c], d) /\ toCore[c] # << >>
      BY <3>1 DEF Mentions
    <3>3. CoreOf[d] = c
      BY <2>1, <3>2 DEF SessionInv, Routed
    <3>4. PICK p \in DOMAIN toDb : p[1] = c /\ InCore(p) = toCore[c]
      BY <3>2, Connected DEF AllTokens
    <3>5. Holds(p)
      BY <3>1, <3>4 DEF Holds, Lacks
    <3> QED BY <3>1, <3>3, <3>4, <3>5 DEF AllTokens, Tokens
  <2>4. CASE \E p \in DOMAIN toDb : d \in InFlight(toDb[p], "logout")
    <3>1. PICK p \in DOMAIN toDb : \E i \in DOMAIN toDb[p] :
                                       toDb[p][i].op = "logout" /\ toDb[p][i].desc = d
      BY <2>4 DEF InFlight
    <3>2. CoreOf[d] = p[1]
      BY <2>1, <3>1 DEF Mentions, SessionInv, Routed
    <3>3. Holds(p)
      BY <3>1 DEF Holds, Lacks
    <3> QED BY <3>1, <3>2, <3>3 DEF AllTokens, Tokens
  <2> QED BY <1>0, <2>2, <2>3, <2>4
<1>2. ASSUME NEW d \in Sessions, NEW e \in Sessions
      PROVE  d = e
  <2> HIDE DEF OfPeer
  <2>1. PICK p \in DOMAIN toDb : OfPeer(d, p)
    BY <1>1
  <2>2. PICK q \in DOMAIN toDb : OfPeer(e, q)
    BY <1>1
  <2>3. p = q
    BY <2>1, <2>2 DEF OfPeer, HeldBy
  <2> QED BY <2>1, <2>2, <2>3 DEF OfPeer, Tokens, Lacks, AtMostOne
<1>3. Sessions # {} => logon # None
  BY <1>1 DEF HeldBy
<1> QED BY <1>2, <1>3

\* Of all clients on all cores one at most has the account, and the DB server
\* knows that it is logged on, in every interleaving of logins, late results,
\* kicks between cores, descriptors that close while an answer is on its way,
\* new login keys and crashes of cores - unless a connection breaks whose core
\* lives on.
THEOREM OneSessionAlways == Spec => []OneSession
<1>1. SessionInv /\ TokenInv => OneSession
  <2>1. SUFFICES ASSUME SessionInv, TokenInv, lost = 0
                 PROVE  Cardinality(Sessions) <= 1 /\ (Sessions # {} => logon # None)
    BY DEF OneSession
  <2>2. /\ \A d, e \in Sessions : d = e
        /\ Sessions # {} => logon # None
    BY <2>1, TokensAreSessions DEF TokenInv
  <2>3. Cardinality(Sessions) <= 1
    <3> HIDE DEF Sessions
    <3>1. CASE Sessions = {}
      BY <3>1, FS_EmptySet
    <3>2. CASE \E d : d \in Sessions
      <4>1. PICK d : d \in Sessions
        BY <3>2
      <4>2. Sessions = {d}
        BY <2>2, <4>1
      <4> QED BY <4>2, FS_Singleton
    <3> QED BY <3>1, <3>2
  <2> QED BY <2>2, <2>3
<1>2. Spec => []TokenInv
  <2>1. Init /\ [][Next]_vars => []TokenInv
    BY SessionInvariant, TokenInit, TokenNext, PTL DEF Spec
  <2> QED BY <2>1 DEF Spec
<1> QED BY <1>1, <1>2, SessionInvariant, PTL
=============================================================================
