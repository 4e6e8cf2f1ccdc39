----------------------------- MODULE LeaseStore -----------------------------
(***************************************************************************)
(* The leases table and the statements storage/leases.go runs on it.       *)
(*                                                                         *)
(* UNIQUE(ip, subnet) makes the table of one subnet a function from        *)
(* addresses to rows.  Times are kept as distances from now, so that a     *)
(* long run of the server needs no ever growing clock:                     *)
(*                                                                         *)
(*   ttl   expires_at - now, not below -Oldest                             *)
(*   age   now - updated_at, not above Retention + 1; every UPDATE resets  *)
(*         it, because of the trigger update_leases_updated_at             *)
(***************************************************************************)
EXTENDS Integers, Sequences, FiniteSets

CONSTANTS MAC,          \* client hardware addresses
          IP,           \* the addresses of the subnet
          RowId,        \* values of the BIGSERIAL column id
          NoRow,
          LeaseTime,    \* the subnet's lease duration, in ticks
          Retention,    \* rows are kept this long once expired or released
          Oldest,       \* how far past its expiry a row is still told apart
          ClaimLimit    \* LIMIT of GetExpiredLeases; 10 in the code

ASSUME StoreAssumption ==
    /\ IsFiniteSet(IP) /\ RowId \subseteq Nat
    /\ LeaseTime \in Nat \ {0} /\ Retention \in Nat
    /\ Oldest \in Nat \ {0} /\ ClaimLimit \in Nat \ {0}

LeaseState == {"active", "expired", "released", "declined"}

Lease == [id : RowId, mac : MAC, state : LeaseState,
          ttl : -Oldest .. LeaseTime, age : 0 .. Retention + 1]

Tables == [IP -> Lease \cup {NoRow}]

ASSUME NoRowAssumption == NoRow \notin Lease /\ NoRow \notin MAC

Rows(t) == {ip \in IP : t[ip] # NoRow}

(* (l *Lease) IsActive: active and expires_at after now.                   *)
IsActive(lease) == lease.state = "active" /\ lease.ttl > 0

(* The address of the row GetLeaseByMAC returns: state = 'active', the     *)
(* latest expires_at first.  No row: the set is empty.                     *)
GetLeaseByMAC(t, mac) ==
    LET Mine == {ip \in Rows(t) : t[ip].mac = mac /\ t[ip].state = "active"}
    IN  {ip \in Mine : \A x \in Mine : t[x].ttl <= t[ip].ttl}

(* What GetExpiredLeases may return for a range of addresses: at most      *)
(* ClaimLimit rows, in the order of expires_at, rows with the same         *)
(* expires_at in any order.                                                *)
GetExpiredLeases(t, range) ==
    LET Old == {ip \in Rows(t) \cap range : t[ip].state \in {"expired", "released"}}
        n == IF Cardinality(Old) <= ClaimLimit THEN Cardinality(Old) ELSE ClaimLimit
    IN  {q \in [1 .. n -> Old] :
           /\ \A i, j \in 1 .. n : i < j => q[i] # q[j] /\ t[q[i]].ttl <= t[q[j]].ttl
           /\ \A x \in Old \ {q[i] : i \in 1 .. n} :
                 \A i \in 1 .. n : t[q[i]].ttl <= t[x].ttl}

(* Mutant: the INSERT has ON CONFLICT DO UPDATE.                           *)
Upsert(t, ip) == TRUE

(* INSERT INTO leases: fails on the unique constraint if the address has a *)
(* row, in whatever state.                                                 *)
CanCreate(t, ip) == t[ip] = NoRow

CreateLease(t, ip, id, mac) ==
    [t EXCEPT ![ip] = [id |-> id, mac |-> mac, state |-> "active",
                       ttl |-> LeaseTime, age |-> 0]]

(* UPDATE ... WHERE id = leaseID: no row is not an error.                  *)
RenewLease(t, id) ==
    [ip \in IP |-> IF t[ip] # NoRow /\ t[ip].id = id
                   THEN [t[ip] EXCEPT !.state = "active", !.ttl = LeaseTime, !.age = 0]
                   ELSE t[ip]]

(* UPDATE ... SET state WHERE ip = ... AND subnet = ...: whoever owns the  *)
(* row and whatever its state; no row is not an error.                     *)
SetState(t, ip, state) ==
    IF t[ip] = NoRow THEN t
    ELSE [t EXCEPT ![ip] = [@ EXCEPT !.state = state, !.age = 0]]

(* Mutant: RELEASE deletes the row.                                        *)
DeleteReleased(t, ip) == [t EXCEPT ![ip] = NoRow]

ReleaseLease(t, ip) == SetState(t, ip, "released")
DeclineLease(t, ip) == SetState(t, ip, "declined")

(* ExpireOldLeases and ExpireLeases run the same statement.                *)
ExpireLeases(t) ==
    [ip \in IP |-> IF t[ip] # NoRow /\ t[ip].state = "active" /\ t[ip].ttl < 0
                   THEN [t[ip] EXCEPT !.state = "expired", !.age = 0]
                   ELSE t[ip]]

(* DELETE the expired and released rows not touched for Retention.         *)
DeleteOldLeases(t) ==
    [ip \in IP |-> IF /\ t[ip] # NoRow
                      /\ t[ip].state \in {"expired", "released"}
                      /\ t[ip].age > Retention
                   THEN NoRow ELSE t[ip]]

(* One tick later.                                                         *)
Later(t) ==
    [ip \in IP |-> IF t[ip] = NoRow THEN NoRow
                   ELSE [t[ip] EXCEPT
                           !.ttl = IF @ > -Oldest THEN @ - 1 ELSE @,
                           !.age = IF @ <= Retention THEN @ + 1 ELSE @]]

=============================================================================
