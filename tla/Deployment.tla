----------------------------- MODULE Deployment -----------------------------
(***************************************************************************)
(* What the synchronisation promises about the configuration each server   *)
(* runs, however many syncs, servers and failures there are: it is the one *)
(* of config.yaml, or a published one that can be used, whole, and never   *)
(* newer than what the server has fetched.  It is the last one fetched     *)
(* when it is put into force, unless syncs of the server have got in each  *)
(* other's way since it started. Whether a server can change what it runs  *)
(* is decided when it starts.                                              *)
(***************************************************************************)
EXTENDS Naturals

CONSTANTS Server,
          Last,         \* versions are numbered 1 .. Last, 0 is config.yaml
          Usable        \* the versions that can be put into force

VARIABLES published, fetched, inForce, muddled,
          able          \* the servers that can change what they run

vars == <<published, fetched, inForce, muddled, able>>

Init == /\ published = 1
        /\ fetched = [s \in Server |-> 1]
        /\ inForce = [s \in Server |-> 0]
        /\ muddled = {}
        /\ able \in SUBSET Server

Publish == /\ published < Last
           /\ published' = published + 1
           /\ UNCHANGED <<fetched, inForce, muddled, able>>

Fetch(s) == /\ fetched' = [fetched EXCEPT ![s] = published]
            /\ UNCHANGED <<published, inForce, muddled, able>>

Deploy(s, v) ==
    /\ s \in able
    /\ v \in Usable
    /\ v <= fetched[s]
    /\ s \notin muddled => v = fetched[s]
    /\ inForce' = [inForce EXCEPT ![s] = v]
    /\ UNCHANGED <<published, fetched, muddled, able>>

(* A second sync starts in s before the first is over.                     *)
Muddle(s) == /\ muddled' = muddled \cup {s}
             /\ UNCHANGED <<published, fetched, inForce, able>>

Restart(s) == /\ inForce' = [inForce EXCEPT ![s] = 0]
              /\ muddled' = muddled \ {s}
              /\ able' \in {able \cup {s}, able \ {s}}
              /\ UNCHANGED <<published, fetched>>

Next == \/ Publish
        \/ \E s \in Server : \/ Fetch(s) \/ Muddle(s) \/ Restart(s)
                             \/ \E v \in 1 .. Last : Deploy(s, v)

Spec == Init /\ [][Next]_vars

=============================================================================
