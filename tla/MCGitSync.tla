------------------------------ MODULE MCGitSync ------------------------------
(***************************************************************************)
(* Instances of GitSync: one server with its poller and one API request.   *)
(***************************************************************************)
EXTENDS GitSync

CONSTANTS s1, poll, api, m1, m2, i1, i2, i3, n1, n2, t1, t2

ServerOfDef == [p \in Syncer |-> s1]

File(valid, nets, res) == [valid |-> valid, nets |-> nets, res |-> res]
For(m, i, n, t) == [mac |-> m, ip |-> i, net |-> n, text |-> t]

(* Two reservations; a network that does not parse, another address for    *)
(* one client and no usable one for the other; another subnet and text for *)
(* the first client, and an entry for none.                                *)
History == <<File(TRUE, {n1}, <<For(m1, i1, n1, t1), For(m2, i2, n1, t1)>>),
             File(TRUE, {n1, Bad}, <<For(m2, i3, Bad, t1), For(m1, i3, n1, t1)>>),
             File(TRUE, {n2}, <<For(Bad, i2, n2, t1), For(m1, i3, n2, t2)>>)>>

(* An address that is moved from one client to another.                    *)
Moved == <<File(TRUE, {n1}, <<For(m1, i1, n1, t1)>>),
           File(TRUE, {n1}, <<For(m2, i1, n1, t1)>>)>>
=============================================================================
