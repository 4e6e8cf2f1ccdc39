----------------------------- MODULE Assignment -----------------------------
(***************************************************************************)
(* What the DHCP servers promise about the addresses of a subnet, however  *)
(* many servers, handlers, workers and failures there are: an address      *)
(* belongs to one client at a time, an assignment in force is never taken  *)
(* away, and an address changes hands only by being forgotten in between.  *)
(***************************************************************************)
CONSTANTS Party, Address,
          Reserved,     \* Reserved[m]: the address set aside for m, or none
          Nobody

VARIABLES owner,        \* owner[x]: the client x belongs to, or Nobody
          inForce       \* the addresses whose owner may use them now

vars == <<owner, inForce>>

Init == /\ owner = [x \in Address |-> Nobody]
        /\ inForce = {}

(* An address nobody owns goes to a client, unless it is set aside for     *)
(* another one.                                                            *)
Assign(m, x) ==
    /\ owner[x] = Nobody
    /\ \A n \in Party \ {m} : Reserved[n] # x
    /\ owner' = [owner EXCEPT ![x] = m]
    /\ inForce' = inForce \cup {x}

(* The owner of x renews it, also after it had ended.                      *)
Extend(x) ==
    /\ owner[x] # Nobody
    /\ inForce' = inForce \cup {x}
    /\ UNCHANGED owner

(* Assignments end: they expire, or are released or declined.              *)
End(S) ==
    /\ inForce' = inForce \ S
    /\ UNCHANGED owner

(* Old assignments that are not in force are forgotten.                    *)
Forget(S) ==
    /\ S \cap inForce = {}
    /\ owner' = [x \in Address |-> IF x \in S THEN Nobody ELSE owner[x]]
    /\ UNCHANGED inForce

Next == \/ \E m \in Party, x \in Address : Assign(m, x)
        \/ \E x \in Address : Extend(x)
        \/ \E S \in SUBSET Address : End(S) \/ Forget(S)

Spec == Init /\ [][Next]_vars

=============================================================================
