------------------------- MODULE AdvisoryLockProofs -------------------------
(***************************************************************************)
(* Exclusion holds for every number of servers, connections, callers and   *)
(* keys.  By itself it is not inductive: IInv adds that at most one        *)
(* session holds a key, that callers use their own server's pool, and that *)
(* a session's count covers all the callers whose hold it is.              *)
(***************************************************************************)
EXTENDS AdvisoryLock, FiniteSetTheorems, TLAPS

(* The lock table starts empty and every operation on it is well typed.    *)
LEMMA TypeInit == Init => TypeOK
BY LockAssumption DEF Init, TypeOK, Stage, Inside

LEMMA LockedType ==
    ASSUME TypeOK, NEW c \in Conn, NEW k \in Key
    PROVE  /\ Locked(held, c, k) \in [Conn -> [Key -> Nat]]
           /\ Unlocked(held, c, k) \in [Conn -> [Key -> Nat]]
BY DEF TypeOK, Locked, Unlocked

LEMMA ClosedType ==
    ASSUME TypeOK, NEW S
    PROVE  Closed(held, S) \in [Conn -> [Key -> Nat]]
BY DEF TypeOK, Closed

LEMMA TypeStep == TypeOK /\ [Next]_vars => TypeOK'
<1> SUFFICES ASSUME TypeOK, [Next]_vars PROVE TypeOK'
    OBVIOUS
<1> USE LockAssumption
<1>1. ASSUME NEW g \in Caller, NEW k \in Key, Call(g, k) PROVE TypeOK'
    BY <1>1 DEF Call, TypeOK, Stage, Inside
<1>2. ASSUME NEW g \in Caller, NEW c \in Conn, SendLock(g, c) PROVE TypeOK'
    BY <1>2 DEF SendLock, TypeOK, Stage, Inside
<1>3. ASSUME NEW g \in Caller, NEW c \in Conn, Body(g, c) PROVE TypeOK'
    BY <1>3 DEF Body, TypeOK, Stage, Inside
<1>4. ASSUME NEW g \in Caller, NEW c \in Conn, Unlock(g, c) PROVE TypeOK'
    <2>1. key[g] \in Key
        BY <1>4 DEF Unlock, TypeOK
    <2>2. held' \in [Conn -> [Key -> Nat]]
        BY <1>4, <2>1, LockedType DEF Unlock
    <2>3. lost' \subseteq Caller
        BY <1>4 DEF Unlock, Holders, TypeOK
    <2>4. QED
        BY <1>4, <2>2, <2>3 DEF Unlock, TypeOK, Stage, Inside
<1>5. ASSUME NEW g \in Caller, Grant(g) PROVE TypeOK'
    <2>1. key[g] \in Key /\ conn[g] \in Conn
        BY <1>5 DEF Grant, TypeOK
    <2>2. held' \in [Conn -> [Key -> Nat]]
        BY <1>5, <2>1, LockedType DEF Grant
    <2>3. QED
        BY <1>5, <2>1, <2>2 DEF Grant, TypeOK, Stage, Inside
<1>6. ASSUME NEW g \in Caller, Victim(g) PROVE TypeOK'
    BY <1>6 DEF Victim, TypeOK, Stage, Inside
<1>7. ASSUME NEW c \in Conn, Recycle(c) PROVE TypeOK'
    <2>1. held' \in [Conn -> [Key -> Nat]]
        BY <1>7, ClosedType DEF Recycle
    <2>2. QED
        BY <1>7, <2>1 DEF Recycle, TypeOK, Stage, Inside
<1>8. ASSUME NEW s \in Server, Crash(s) PROVE TypeOK'
    <2>1. held' \in [Conn -> [Key -> Nat]]
        BY <1>8, ClosedType DEF Crash
    <2>2. QED
        BY <1>8, <2>1 DEF Crash, TypeOK, Stage, Inside
<1>9. CASE UNCHANGED vars
    BY <1>9 DEF vars, TypeOK, Stage, Inside
<1>10. QED
    BY <1>1, <1>2, <1>3, <1>4, <1>5, <1>6, <1>7, <1>8, <1>9 DEF Next, Proceed

(* Every variable keeps its type, and the stages of a caller agree with    *)
(* the connection it occupies and the one it was granted through           *)
(* (storage/postgres.go:76-97).                                            *)
THEOREM TypeCorrect == Spec => []TypeOK
BY TypeInit, TypeStep, PTL DEF Spec
-----------------------------------------------------------------------------
(* Closing a set of sessions, or taking or giving back one hold, says      *)
(* nothing of the other entries of the table.                              *)
LEMMA TableFacts ==
    ASSUME TypeOK, NEW c \in Conn, NEW k \in Key, NEW d \in Conn, NEW m \in Key
    PROVE  /\ Locked(held, c, k)[d][m] =
                IF d = c /\ m = k THEN held[d][m] + 1 ELSE held[d][m]
           /\ Unlocked(held, c, k)[d][m] =
                IF d = c /\ m = k /\ held[d][m] > 0
                THEN held[d][m] - 1 ELSE held[d][m]
BY DEF TypeOK, Locked, Unlocked

LEMMA ClosedFacts ==
    ASSUME TypeOK, NEW S, NEW d \in Conn, NEW m \in Key
    PROVE  Closed(held, S)[d][m] = IF d \in S THEN 0 ELSE held[d][m]
BY DEF TypeOK, Closed

(* A caller that was granted and did not lose its hold keeps its session's *)
(* count above zero.                                                       *)
LEMMA HolderCounts ==
    ASSUME IInv, NEW c \in Conn, NEW k \in Key, NEW g \in Holders(c, k)
    PROVE  held[c][k] > 0
<1>1. IsFiniteSet(Holders(c, k))
    BY LockAssumption, FS_Subset DEF Holders
<1>2. Cardinality(Holders(c, k)) # 0 /\ Cardinality(Holders(c, k)) \in Nat
    BY <1>1, FS_EmptySet, FS_CardinalityType
<1>3. held[c][k] \in Nat /\ Cardinality(Holders(c, k)) <= held[c][k]
    BY DEF IInv, TypeOK, Backed
<1>4. QED
    BY <1>2, <1>3

LEMMA ExclusionFollows == IInv => Exclusion
<1> SUFFICES ASSUME IInv, NEW g \in Caller, NEW h \in Caller,
                    Inside(g), Inside(h), key[g] = key[h], {g, h} \cap lost = {}
             PROVE  via[g] = via[h]
    BY DEF Exclusion
<1>1. key[g] \in Key /\ via[g] \in Conn /\ via[h] \in Conn
    BY DEF IInv, TypeOK, Inside
<1>2. g \in Holders(via[g], key[g]) /\ h \in Holders(via[h], key[g])
    BY DEF Holders
<1>3. held[via[g]][key[g]] > 0 /\ held[via[h]][key[g]] > 0
    BY <1>1, <1>2, HolderCounts
<1>4. QED
    BY <1>1, <1>3 DEF IInv, SoleSession
-----------------------------------------------------------------------------
(* Backed survives a step if no session's count falls and no set of        *)
(* holders grows.                                                          *)
LEMMA BackedKept ==
    ASSUME TypeOK, TypeOK', NEW c \in Conn, NEW k \in Key,
           Cardinality(Holders(c, k)) <= held[c][k],
           Holders(c, k)' \subseteq Holders(c, k),
           held'[c][k] >= held[c][k]
    PROVE  Cardinality(Holders(c, k)') <= held'[c][k]
<1>1. IsFiniteSet(Holders(c, k))
    BY LockAssumption, FS_Subset DEF Holders
<1>2. /\ IsFiniteSet(Holders(c, k)')
      /\ Cardinality(Holders(c, k)') <= Cardinality(Holders(c, k))
    BY <1>1, FS_Subset
<1>3. /\ Cardinality(Holders(c, k)) \in Nat
      /\ Cardinality(Holders(c, k)') \in Nat
      /\ held[c][k] \in Nat /\ held'[c][k] \in Nat
    BY <1>1, <1>2, FS_CardinalityType DEF TypeOK
<1>4. QED
    BY <1>2, <1>3

(* An entry of the table nobody holds backs any count.                     *)
LEMMA BackedEmpty ==
    ASSUME TypeOK', NEW c \in Conn, NEW k \in Key, Holders(c, k)' = {}
    PROVE  Cardinality(Holders(c, k)') <= held'[c][k]
BY FS_EmptySet DEF TypeOK
-----------------------------------------------------------------------------
LEMMA InitIInv == Init => IInv
<1> SUFFICES ASSUME Init PROVE IInv
    OBVIOUS
<1>1. TypeOK
    BY TypeInit
<1>2. SoleSession /\ OwnPool
    BY LockAssumption DEF Init, SoleSession, OwnPool, Inside
<1>3. \A c \in Conn, k \in Key : Holders(c, k) = {}
    BY DEF Init, Holders, Inside
<1>4. Backed
    <2> SUFFICES ASSUME NEW c \in Conn, NEW k \in Key
                 PROVE  Cardinality(Holders(c, k)) <= held[c][k]
        BY DEF Backed
    <2>1. Cardinality(Holders(c, k)) = 0
        BY <1>3, FS_EmptySet
    <2>2. held[c][k] \in Nat
        BY <1>1 DEF TypeOK
    <2>3. QED
        BY <2>1, <2>2
<1>5. QED
    BY <1>1, <1>2, <1>4 DEF IInv

(* A step that leaves the lock table alone and lets nobody in.             *)
LEMMA QuietStep ==
    ASSUME IInv, TypeOK', OwnPool', held' = held,
           \A c \in Conn, k \in Key : Holders(c, k)' \subseteq Holders(c, k)
    PROVE  IInv'
<1>1. SoleSession'
    BY DEF IInv, SoleSession
<1>2. Backed'
    <2> SUFFICES ASSUME NEW c \in Conn, NEW k \in Key
                 PROVE  Cardinality(Holders(c, k)') <= held'[c][k]
        BY DEF Backed
    <2>1. held'[c][k] >= held[c][k]
        BY DEF IInv, TypeOK
    <2>2. QED
        BY <2>1, BackedKept DEF IInv, Backed
<1>3. QED
    BY <1>1, <1>2 DEF IInv

(* pg_advisory_lock returns: one more holder, one more hold.               *)
LEMMA GrantStep ==
    ASSUME IInv, TypeOK', NEW g \in Caller, Grant(g)
    PROVE  IInv'
<1> DEFINE C == conn[g]
           K == key[g]
<1>1. C \in Conn /\ K \in Key /\ held' = Locked(held, C, K)
    BY DEF Grant, IInv, TypeOK
<1>2. OwnPool'
    BY LockAssumption DEF Grant, IInv, OwnPool, TypeOK, Inside
<1>3. SoleSession'
    <2> SUFFICES ASSUME NEW k \in Key, NEW c \in Conn, NEW d \in Conn,
                        held'[c][k] > 0, held'[d][k] > 0
                 PROVE  c = d
        BY DEF SoleSession
    <2>1. \A e \in Conn \ {C} : held[e][K] = 0
        BY DEF Grant, Grantable, IInv, TypeOK
    <2>2. QED
        BY <1>1, <2>1, TableFacts DEF IInv, TypeOK, SoleSession
<1>4. Backed'
    <2> SUFFICES ASSUME NEW c \in Conn, NEW k \in Key
                 PROVE  Cardinality(Holders(c, k)') <= held'[c][k]
        BY DEF Backed
    <2>1. CASE c = C /\ k = K
        <3>1. /\ IsFiniteSet(Holders(c, k))
              /\ Cardinality(Holders(c, k)) \in Nat
            BY LockAssumption, FS_Subset, FS_CardinalityType DEF Holders
        <3>2. Holders(c, k)' \subseteq Holders(c, k) \cup {g}
            BY <2>1 DEF Grant, Holders, Inside
        <3>3. /\ IsFiniteSet(Holders(c, k) \cup {g})
              /\ Cardinality(Holders(c, k) \cup {g}) <= Cardinality(Holders(c, k)) + 1
            BY <3>1, FS_AddElement
        <3>4. Cardinality(Holders(c, k)') <= Cardinality(Holders(c, k) \cup {g})
            BY <3>2, <3>3, FS_Subset
        <3>5. /\ Cardinality(Holders(c, k)') \in Nat
              /\ Cardinality(Holders(c, k) \cup {g}) \in Nat
            BY <3>2, <3>3, FS_Subset, FS_CardinalityType
        <3>6. held'[c][k] = held[c][k] + 1 /\ held[c][k] \in Nat
            BY <1>1, <2>1, TableFacts DEF IInv, TypeOK
        <3>7. Cardinality(Holders(c, k)) <= held[c][k]
            BY DEF IInv, Backed
        <3>8. QED
            BY <3>1, <3>3, <3>4, <3>5, <3>6, <3>7
    <2>2. CASE ~(c = C /\ k = K)
        <3>1. held'[c][k] = held[c][k] /\ held[c][k] \in Nat
            BY <1>1, <2>2, TableFacts DEF IInv, TypeOK
        <3>2. Holders(c, k)' \subseteq Holders(c, k)
            BY <2>2 DEF Grant, Holders, Inside, IInv, TypeOK
        <3>3. QED
            BY <3>1, <3>2, BackedKept DEF IInv, Backed
    <2>3. QED
        BY <2>1, <2>2
<1>5. QED
    BY <1>2, <1>3, <1>4 DEF IInv

(* pg_advisory_unlock, perhaps in a session the hold is not in.            *)
LEMMA UnlockStep ==
    ASSUME IInv, TypeOK', NEW g \in Caller, NEW c \in Conn, Unlock(g, c)
    PROVE  IInv'
<1> DEFINE K == key[g]
<1>1. /\ K \in Key /\ via[g] \in Conn
      /\ Inside(g)
      /\ held' = Unlocked(held, c, K)
    BY DEF Unlock, IInv, TypeOK, Inside
<1>2. \A d \in Conn, m \in Key : held[d][m] \in Nat /\ held'[d][m] \in Nat
    BY DEF IInv, TypeOK
<1>3. \A d \in Conn, m \in Key : held'[d][m] <= held[d][m]
    BY <1>1, <1>2, TableFacts DEF IInv
<1>4. OwnPool'
    BY DEF Unlock, IInv, OwnPool, TypeOK, Inside
<1>5. SoleSession'
    <2> SUFFICES ASSUME NEW m \in Key, NEW d \in Conn, NEW e \in Conn,
                        held'[d][m] > 0, held'[e][m] > 0
                 PROVE  d = e
        BY DEF SoleSession
    <2>1. held[d][m] > 0 /\ held[e][m] > 0
        BY <1>2, <1>3
    <2>2. QED
        BY <2>1 DEF IInv, SoleSession
<1>6. \A d \in Conn, m \in Key : Holders(d, m)' \subseteq Holders(d, m) \ {g}
    BY DEF Unlock, Holders, Inside, IInv, TypeOK
<1>7. Backed'
    <2> SUFFICES ASSUME NEW d \in Conn, NEW m \in Key
                 PROVE  Cardinality(Holders(d, m)') <= held'[d][m]
        BY DEF Backed
    <2>1. CASE held'[d][m] >= held[d][m]
        BY <1>6, <2>1, BackedKept DEF IInv, Backed
    <2>2. CASE ~(held'[d][m] >= held[d][m])
        <3>1. /\ d = c /\ m = K
              /\ held[d][m] > 0 /\ held'[d][m] = held[d][m] - 1
            BY <1>1, <1>2, <2>2, TableFacts DEF IInv
        <3>2. CASE g \in lost
            <4>1. Holders(d, m)' = {}
                BY <1>6, <3>1, <3>2 DEF Unlock, Holders
            <4>2. QED
                BY <4>1, BackedEmpty
        <3>3. CASE g \notin lost
            <4>1. g \in Holders(via[g], K)
                BY <1>1, <3>3 DEF Holders
            <4>2. via[g] = c
                BY <1>1, <3>1, <4>1, HolderCounts DEF IInv, SoleSession
            <4>3. IsFiniteSet(Holders(d, m))
                BY LockAssumption, FS_Subset DEF Holders
            <4>4. /\ IsFiniteSet(Holders(d, m) \ {g})
                  /\ Cardinality(Holders(d, m) \ {g}) = Cardinality(Holders(d, m)) - 1
                BY <3>1, <4>1, <4>2, <4>3, FS_RemoveElement
            <4>5. Cardinality(Holders(d, m)') <= Cardinality(Holders(d, m) \ {g})
                BY <1>6, <4>4, FS_Subset
            <4>6. /\ Cardinality(Holders(d, m)') \in Nat
                  /\ Cardinality(Holders(d, m)) \in Nat
                BY <1>6, <4>3, <4>4, FS_Subset, FS_CardinalityType
            <4>7. Cardinality(Holders(d, m)) <= held[d][m]
                BY DEF IInv, Backed
            <4>8. QED
                BY <1>2, <3>1, <4>4, <4>5, <4>6, <4>7
        <3>4. QED
            BY <3>2, <3>3
    <2>3. QED
        BY <2>1, <2>2
<1>8. QED
    BY <1>4, <1>5, <1>7 DEF IInv

(* Sessions close: everybody granted through them loses the hold.          *)
LEMMA CloseStep ==
    ASSUME IInv, TypeOK', OwnPool', NEW S, held' = Closed(held, S),
           \A c \in Conn, k \in Key :
              Holders(c, k)' \subseteq IF c \in S THEN {} ELSE Holders(c, k)
    PROVE  IInv'
<1>1. SoleSession'
    <2> SUFFICES ASSUME NEW k \in Key, NEW c \in Conn, NEW d \in Conn,
                        held'[c][k] > 0, held'[d][k] > 0
                 PROVE  c = d
        BY DEF SoleSession
    <2>1. held[c][k] > 0 /\ held[d][k] > 0
        BY ClosedFacts DEF IInv
    <2>2. QED
        BY <2>1 DEF IInv, SoleSession
<1>2. Backed'
    <2> SUFFICES ASSUME NEW c \in Conn, NEW k \in Key
                 PROVE  Cardinality(Holders(c, k)') <= held'[c][k]
        BY DEF Backed
    <2>1. CASE c \in S
        BY <2>1, BackedEmpty
    <2>2. CASE c \notin S
        <3>1. held'[c][k] = held[c][k] /\ held[c][k] \in Nat
            BY <2>2, ClosedFacts DEF IInv, TypeOK
        <3>2. QED
            BY <2>2, <3>1, BackedKept DEF IInv, Backed
    <2>3. QED
        BY <2>1, <2>2
<1>3. QED
    BY <1>1, <1>2 DEF IInv

LEMMA IInvStep == IInv /\ [Next]_vars => IInv'
<1> SUFFICES ASSUME IInv, [Next]_vars PROVE IInv'
    OBVIOUS
<1> USE LockAssumption
<1>1. TypeOK /\ TypeOK'
    BY TypeStep DEF IInv
<1>2. ASSUME NEW g \in Caller, NEW k \in Key, Call(g, k) PROVE IInv'
    <2>1. OwnPool'
        BY <1>2 DEF Call, IInv, OwnPool, TypeOK, Inside
    <2>2. \A c \in Conn, m \in Key : Holders(c, m)' \subseteq Holders(c, m)
        BY <1>2 DEF Call, Holders, Inside, IInv, TypeOK
    <2>3. QED
        BY <1>1, <1>2, <2>1, <2>2, QuietStep DEF Call
<1>3. ASSUME NEW g \in Caller, NEW c \in Conn, SendLock(g, c) PROVE IInv'
    <2>1. OwnPool'
        BY <1>3 DEF SendLock, CanUse, IInv, OwnPool, TypeOK, Inside
    <2>2. \A d \in Conn, m \in Key : Holders(d, m)' \subseteq Holders(d, m)
        BY <1>3 DEF SendLock, Holders, Inside, IInv, TypeOK
    <2>3. QED
        BY <1>1, <1>3, <2>1, <2>2, QuietStep DEF SendLock
<1>4. ASSUME NEW g \in Caller, NEW c \in Conn, Body(g, c) PROVE IInv'
    <2>1. OwnPool'
        BY <1>4 DEF Body, IInv, OwnPool, TypeOK, Inside
    <2>2. \A d \in Conn, m \in Key : Holders(d, m)' \subseteq Holders(d, m)
        BY <1>4 DEF Body, Holders, Inside, IInv, TypeOK
    <2>3. QED
        BY <1>1, <1>4, <2>1, <2>2, QuietStep DEF Body
<1>5. ASSUME NEW g \in Caller, NEW c \in Conn, Unlock(g, c) PROVE IInv'
    BY <1>1, <1>5, UnlockStep
<1>6. ASSUME NEW g \in Caller, Grant(g) PROVE IInv'
    BY <1>1, <1>6, GrantStep
<1>7. ASSUME NEW g \in Caller, Victim(g) PROVE IInv'
    <2>1. OwnPool'
        BY <1>7 DEF Victim, IInv, OwnPool, TypeOK, Inside
    <2>2. \A d \in Conn, m \in Key : Holders(d, m)' \subseteq Holders(d, m)
        BY <1>7 DEF Victim, Holders, Inside, IInv, TypeOK
    <2>3. QED
        BY <1>1, <1>7, <2>1, <2>2, QuietStep DEF Victim
<1>8. ASSUME NEW c \in Conn, Recycle(c) PROVE IInv'
    <2>1. OwnPool'
        BY <1>8 DEF Recycle, IInv, OwnPool, Inside
    <2>2. \A d \in Conn, m \in Key :
             Holders(d, m)' \subseteq IF d \in {c} THEN {} ELSE Holders(d, m)
        BY <1>8 DEF Recycle, Holders, Inside
    <2>3. QED
        BY <1>1, <1>8, <2>1, <2>2, CloseStep DEF Recycle
<1>9. ASSUME NEW s \in Server, Crash(s) PROVE IInv'
    <2>1. OwnPool'
        BY <1>9 DEF Crash, IInv, OwnPool, TypeOK, Inside
    <2>2. \A d \in Conn, m \in Key : Holders(d, m)' \subseteq
             IF d \in {c \in Conn : PoolOf[c] = s} THEN {} ELSE Holders(d, m)
        BY <1>9 DEF Crash, Holders, Inside, IInv, TypeOK, OwnPool
    <2>3. QED
        BY <1>1, <1>9, <2>1, <2>2, CloseStep DEF Crash
<1>10. CASE UNCHANGED vars
    <2>1. OwnPool'
        BY <1>10 DEF vars, IInv, OwnPool, Inside
    <2>2. \A d \in Conn, m \in Key : Holders(d, m)' \subseteq Holders(d, m)
        BY <1>10 DEF vars, Holders, Inside
    <2>3. QED
        BY <1>1, <1>10, <2>1, <2>2, QuietStep DEF vars
<1>11. QED
    BY <1>2, <1>3, <1>4, <1>5, <1>6, <1>7, <1>8, <1>9, <1>10 DEF Next, Proceed

(* A key is held by one session at most, and a session's count is at least *)
(* the number of callers whose hold it is, whatever sessions the unlocks   *)
(* run in (storage/postgres.go:76-97).                                     *)
THEOREM InvariantHolds == Spec => []IInv
BY InitIInv, IInvStep, PTL DEF Spec

(* Two callers are inside with one key together only through one and the   *)
(* same connection, unless a session was closed under one of them: servers *)
(* exclude each other, goroutines of one server need not                   *)
(* (storage/postgres.go:76-97).                                            *)
THEOREM ExclusionHolds == Spec => []Exclusion
BY InvariantHolds, ExclusionFollows, PTL

=============================================================================
