---------------------------- MODULE MCDhcpServer ----------------------------
(***************************************************************************)
(* Instances of DhcpServer: two servers, each with one session, or one     *)
(* server with two; one or two packets in flight.                          *)
(***************************************************************************)
EXTENDS DhcpServer, TLC

CONSTANTS a, b, ca, cb, p1, p2, i1, i2, i3, m1, m2, m3

PoolOfDef == [c \in Conn |-> IF c = ca \/ b \notin Server THEN a ELSE b]
ServerOfDef == [p \in Handler |-> IF p = p1 \/ b \notin Server THEN a ELSE b]

(* One pool holds every address, or there are two with two and one, or two *)
(* that overlap, which nothing forbids.                                    *)
OnePool == <<IP>>
TwoPools == <<{i1}, {i2, i3}>>
Overlapping == <<{i1, i2}, {i2}>>

(* Every client may ask for every address or for none; or two clients come *)
(* back with the same address.                                             *)
Anything == MAC \X (IP \cup {NoIP})
SameAddress == {m1, m2} \X {i1}

NobodyReserved == [m \in MAC |-> NoIP]
ReservedDef == [m \in MAC |-> IF m = m3 THEN i3 ELSE NoIP]

(* Clients and addresses are interchangeable when there is one pool and no *)
(* reservation; handlers are when they run in one server.                  *)
Clients == Permutations(MAC)
ClientsAddresses == Permutations(MAC) \cup Permutations(IP)
AllOfOneServer == Permutations(MAC) \cup Permutations(IP) \cup Permutations(Handler)

(* So are two servers, each with its handler and its session, once their   *)
(* workers run alike; of three clients, the two without a reservation.     *)
ServersClients ==
    Permutations({m1, m2}) \cup
      {[x \in {a, b, ca, cb, p1, p2} |->
          CASE x = a -> b [] x = b -> a [] x = ca -> cb [] x = cb -> ca
            [] x = p1 -> p2 [] x = p2 -> p1]}
=============================================================================
