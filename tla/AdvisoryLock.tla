---------------------------- MODULE AdvisoryLock ----------------------------
(***************************************************************************)
(* storage.Store.WithAdvisoryLock: how the goroutines of several servers   *)
(* use PostgreSQL's advisory locks through their connection pools.         *)
(*                                                                         *)
(* WithAdvisoryLock runs pg_advisory_lock with pool.Exec, then the         *)
(* caller's function, then pg_advisory_unlock with pool.Exec again.  Each  *)
(* pool.Exec takes any free connection of the pool and gives it back when  *)
(* the statement ends, whereas the lock belongs to the session (the        *)
(* connection) it was taken in.                                            *)
(*                                                                         *)
(* A caller goes through                                                   *)
(*                                                                         *)
(*   idle -> calling -> blocked -> inside -> leaving -> idle               *)
(*                                                                         *)
(* waiting for a connection, waiting in pg_advisory_lock, running fn, and  *)
(* about to run the deferred unlock.                                       *)
(***************************************************************************)
EXTENDS LockTable, FiniteSets

CONSTANTS Server,        \* server processes sharing the database
          Conn,          \* pool connections, all servers together
          Caller,        \* goroutines that call WithAdvisoryLock
          Key,           \* advisory lock keys
          PoolOf,        \* PoolOf[c]: the server whose pool holds c
          ServerOf,      \* ServerOf[g]: the server g runs in
          Recyclable,    \* connections the pool may close and reopen
          MaxHeld,       \* no call for a key a session holds this often
          NoConn, NoKey

ASSUME LockAssumption ==
    /\ PoolOf \in [Conn -> Server]
    /\ ServerOf \in [Caller -> Server]
    /\ Recyclable \subseteq Conn
    /\ IsFiniteSet(Caller)
    /\ MaxHeld \in Nat
    /\ NoConn \notin Conn /\ NoKey \notin Key

VARIABLES held,     \* the lock table of PostgreSQL
          pc,       \* where each caller is
          key,      \* the key each caller asked for
          conn,     \* the connection a caller blocked in pg_advisory_lock occupies
          via,      \* history: the connection each caller was granted through
          lost      \* history: callers inside whose hold is gone from the table

vars == <<held, pc, key, conn, via, lost>>

Stage == {"idle", "calling", "blocked", "inside", "leaving"}

(* Between the return of pg_advisory_lock and that of the unlock.          *)
Inside(g) == pc[g] \in {"inside", "leaving"}

TypeOK ==
    /\ held \in [Conn -> [Key -> Nat]]
    /\ pc \in [Caller -> Stage]
    /\ key \in [Caller -> Key \cup {NoKey}]
    /\ conn \in [Caller -> Conn \cup {NoConn}]
    /\ via \in [Caller -> Conn \cup {NoConn}]
    /\ lost \subseteq Caller
    /\ \A g \in Caller : /\ pc[g] # "idle" => key[g] \in Key
                         /\ pc[g] = "blocked" <=> conn[g] \in Conn
                         /\ Inside(g) => via[g] \in Conn

Init ==
    /\ held = [c \in Conn |-> [k \in Key |-> 0]]
    /\ pc = [g \in Caller |-> "idle"]
    /\ key = [g \in Caller |-> NoKey]
    /\ conn = [g \in Caller |-> NoConn]
    /\ via = [g \in Caller |-> NoConn]
    /\ lost = {}
-----------------------------------------------------------------------------
(* pool.Exec may use c for g: c is in the pool of g's server and no        *)
(* statement is running in it.                                             *)
CanUse(g, c) == /\ PoolOf[c] = ServerOf[g]
                /\ \A h \in Caller : conn[h] # c

(* Callers whose hold on k was taken in c and is still in the lock table.  *)
Holders(c, k) == {g \in Caller \ lost : Inside(g) /\ via[g] = c /\ key[g] = k}

(* The one session that holds k, if a caller blocked on k waits for it.    *)
WaitsFor(c, d) == \E g \in Caller : /\ conn[g] = c
                                    /\ d # c
                                    /\ held[d][key[g]] > 0

(* Sessions on a cycle of waits, which PostgreSQL's deadlock detector      *)
(* breaks by failing the statement of one of them.                         *)
Deadlocked == {c \in Conn : \E S \in SUBSET Conn :
                 /\ c \in S
                 /\ \A d \in S : \E e \in S : WaitsFor(d, e)
                 /\ \A e \in S : \E d \in S : WaitsFor(d, e)}

(* A goroutine enters WithAdvisoryLock(ctx, k, fn).                        *)
Call(g, k) ==
    /\ pc[g] = "idle"
    /\ \A c \in Conn : held[c][k] < MaxHeld
    /\ pc' = [pc EXCEPT ![g] = "calling"]
    /\ key' = [key EXCEPT ![g] = k]
    /\ UNCHANGED <<held, conn, via, lost>>

(* AcquireAdvisoryLock: pool.Exec sends pg_advisory_lock through c.        *)
SendLock(g, c) ==
    /\ pc[g] = "calling"
    /\ CanUse(g, c)
    /\ pc' = [pc EXCEPT ![g] = "blocked"]
    /\ conn' = [conn EXCEPT ![g] = c]
    /\ UNCHANGED <<held, key, via, lost>>

(* Mutant: pg_try_advisory_lock, whose result nobody looks at.             *)
TryLock(g) ==
    /\ pc[g] = "blocked"
    /\ held' = IF Grantable(held, conn[g], key[g])
               THEN Locked(held, conn[g], key[g]) ELSE held
    /\ pc' = [pc EXCEPT ![g] = "inside"]
    /\ via' = [via EXCEPT ![g] = conn[g]]
    /\ conn' = [conn EXCEPT ![g] = NoConn]
    /\ UNCHANGED <<key, lost>>

(* pg_advisory_lock returns; pool.Exec gives the connection back and fn    *)
(* starts.                                                                 *)
Grant(g) ==
    /\ pc[g] = "blocked"
    /\ Grantable(held, conn[g], key[g])
    /\ held' = Locked(held, conn[g], key[g])
    /\ pc' = [pc EXCEPT ![g] = "inside"]
    /\ via' = [via EXCEPT ![g] = conn[g]]
    /\ conn' = [conn EXCEPT ![g] = NoConn]
    /\ UNCHANGED <<key, lost>>

(* Mutant: a failed statement does not give its connection back.           *)
VictimKeepsConn(g) ==
    /\ pc[g] = "blocked"
    /\ conn[g] \in Deadlocked
    /\ pc' = [pc EXCEPT ![g] = "idle"]
    /\ key' = [key EXCEPT ![g] = NoKey]
    /\ UNCHANGED <<held, conn, via, lost>>

(* The deadlock detector fails the statement of g: WithAdvisoryLock        *)
(* returns the error and fn does not run.                                  *)
Victim(g) ==
    /\ pc[g] = "blocked"
    /\ conn[g] \in Deadlocked
    /\ pc' = [pc EXCEPT ![g] = "idle"]
    /\ conn' = [conn EXCEPT ![g] = NoConn]
    /\ key' = [key EXCEPT ![g] = NoKey]
    /\ UNCHANGED <<held, via, lost>>

(* fn runs its statements, which need a connection of the pool too, and    *)
(* returns.                                                                *)
Body(g, c) ==
    /\ pc[g] = "inside"
    /\ CanUse(g, c)
    /\ pc' = [pc EXCEPT ![g] = "leaving"]
    /\ UNCHANGED <<held, key, conn, via, lost>>

(* Mutant: pg_advisory_unlock_all instead of pg_advisory_unlock.           *)
UnlockAll(g, c) ==
    /\ pc[g] = "leaving"
    /\ CanUse(g, c)
    /\ held' = Closed(held, {c})
    /\ pc' = [pc EXCEPT ![g] = "idle"]
    /\ key' = [key EXCEPT ![g] = NoKey]
    /\ via' = [via EXCEPT ![g] = NoConn]
    /\ lost' = lost \ {g}
    /\ UNCHANGED conn

(* The deferred ReleaseAdvisoryLock: pg_advisory_unlock through c, which   *)
(* need not be the connection the lock was taken in; its error is dropped. *)
(* If the hold of g was already lost and c holds the key, then what is     *)
(* taken away is the hold of another caller.                               *)
Unlock(g, c) ==
    /\ pc[g] = "leaving"
    /\ CanUse(g, c)
    /\ held' = Unlocked(held, c, key[g])
    /\ pc' = [pc EXCEPT ![g] = "idle"]
    /\ key' = [key EXCEPT ![g] = NoKey]
    /\ via' = [via EXCEPT ![g] = NoConn]
    /\ lost' = (lost \cup (IF g \in lost THEN Holders(c, key[g]) ELSE {})) \ {g}
    /\ UNCHANGED conn

(* Mutant: the pool keeps its connections open for ever.                   *)
NeverRecycle(c) == FALSE

(* The pool closes an unused connection that is too old or too long idle   *)
(* and opens another in its place: the session's locks are gone.           *)
Recycle(c) ==
    /\ c \in Recyclable
    /\ \A g \in Caller : conn[g] # c
    /\ held' = Closed(held, {c})
    /\ lost' = lost \cup {g \in Caller : Inside(g) /\ via[g] = c}
    /\ UNCHANGED <<pc, key, conn, via>>

(* A server process dies and is started again: its goroutines are gone and *)
(* PostgreSQL closes its sessions.                                         *)
Crash(s) ==
    LET Dead == {g \in Caller : ServerOf[g] = s}
        Clear(f, null) == [g \in Caller |-> IF g \in Dead THEN null ELSE f[g]]
    IN  /\ held' = Closed(held, {c \in Conn : PoolOf[c] = s})
        /\ pc' = Clear(pc, "idle")
        /\ key' = Clear(key, NoKey)
        /\ conn' = Clear(conn, NoConn)
        /\ via' = Clear(via, NoConn)
        /\ lost' = lost \ Dead

(* What g does once it has called, whichever stage it is at.               *)
Proceed(g) == \/ \E c \in Conn : SendLock(g, c) \/ Body(g, c) \/ Unlock(g, c)
              \/ Grant(g)
              \/ Victim(g)

Next == \/ \E g \in Caller : Proceed(g) \/ \E k \in Key : Call(g, k)
        \/ \E c \in Conn : Recycle(c)
        \/ \E s \in Server : Crash(s)

Spec == Init /\ [][Next]_vars
-----------------------------------------------------------------------------
(***************************************************************************)
(* Fairness.  The goroutine scheduler runs what can run; pgxpool hands its *)
(* connections out in the order they were asked for, PostgreSQL grants a   *)
(* lock in the order it was asked for, and its deadlock detector runs      *)
(* after deadlock_timeout: a caller that can proceed again and again does. *)
(***************************************************************************)
FairSpec == Spec /\ \A g \in Caller : SF_vars(Proceed(g))

(* pgxpool closes a connection at the latest when MaxConnLifetime has      *)
(* passed and it is not in use.                                            *)
RecyclingSpec == FairSpec /\ \A c \in Recyclable : SF_vars(Recycle(c))
-----------------------------------------------------------------------------
(* Two callers run fn under the same key at the same time only if they     *)
(* were granted through the same connection, or if the session of one was  *)
(* closed, or its hold released by such a caller, under it.  As a          *)
(* connection belongs to one pool, two servers never both check and insert *)
(* a lease for one address while their sessions live                       *)
(* (storage/postgres.go:76-97, dhcp/allocator.go:273-349).                 *)
Exclusion ==
    \A g, h \in Caller :
        /\ Inside(g) /\ Inside(h)
        /\ key[g] = key[h]
        /\ {g, h} \cap lost = {}
        => via[g] = via[h]

(* Every call of WithAdvisoryLock returns: no DHCP handler is left waiting *)
(* for a lock, or for a connection other waiters occupy, for ever          *)
(* (storage/postgres.go:79,85,90-97).                                      *)
CallsReturn == \A g \in Caller : pc[g] = "calling" ~> pc[g] = "idle"
-----------------------------------------------------------------------------
(***************************************************************************)
(* The inductive invariant behind Exclusion.                               *)
(***************************************************************************)
(* At most one session holds a key.                                        *)
SoleSession == \A k \in Key : \A c, d \in Conn :
                  held[c][k] > 0 /\ held[d][k] > 0 => c = d

(* A session's count covers every caller whose hold it is: an unlock never *)
(* takes away the hold of a caller still inside.                           *)
Backed == \A c \in Conn, k \in Key : Cardinality(Holders(c, k)) <= held[c][k]

(* A caller uses the connections of its own server's pool only.            *)
OwnPool == \A g \in Caller :
              /\ conn[g] \in Conn => PoolOf[conn[g]] = ServerOf[g]
              /\ Inside(g) => PoolOf[via[g]] = ServerOf[g]

IInv == TypeOK /\ SoleSession /\ OwnPool /\ Backed

=============================================================================
