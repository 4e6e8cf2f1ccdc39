----------------------------- MODULE LockTable -----------------------------
(***************************************************************************)
(* PostgreSQL's table of session-level advisory locks, as far as           *)
(* storage/postgres.go uses it.  The server is outside the repository: the *)
(* operators say what pg_advisory_lock and pg_advisory_unlock do to the    *)
(* session they run in.                                                    *)
(*                                                                         *)
(*   held[c][k]   how many times session c holds key k.  A session may     *)
(*                take a key it already holds: the holds are counted.      *)
(***************************************************************************)
EXTENDS Naturals

(* pg_advisory_lock(k) in session c returns only when no other session     *)
(* holds k.                                                                *)
Grantable(held, c, k) == \A d \in DOMAIN held \ {c} : held[d][k] = 0

Locked(held, c, k) == [held EXCEPT ![c][k] = @ + 1]

(* pg_advisory_unlock(k) in a session that does not hold k only raises a   *)
(* warning; the caller gets no error.                                      *)
Unlocked(held, c, k) == [held EXCEPT ![c][k] = IF @ > 0 THEN @ - 1 ELSE 0]

(* A session that ends loses every advisory lock it holds.                 *)
Closed(held, S) == [c \in DOMAIN held |->
                      IF c \in S THEN [k \in DOMAIN held[c] |-> 0] ELSE held[c]]

=============================================================================
