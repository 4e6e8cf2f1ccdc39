---------------------------- MODULE ActivityFeed ----------------------------
(***************************************************************************)
(* What the activity page promises its reader, however many handlers,      *)
(* connections and losses there are: its list grows at the end, by one     *)
(* event that has been numbered, that it has not shown, and that no event  *)
(* of the same publisher in the list is after; it shrinks at its beginning *)
(* only, when it is full, and is emptied only as a whole.                  *)
(***************************************************************************)
EXTENDS Integers, Sequences, Functions

CONSTANTS Publisher,
          Nobody,       \* who publishes the event that opens a connection
          Window        \* events the list has room for

VARIABLES numbered,     \* events have the numbers 1 .. numbered
          list

vars == <<numbered, list>>

Init == numbered = 0 /\ list = <<>>

Number == numbered' = numbered + 1 /\ UNCHANGED list

(* e may come after the events of s.                                       *)
Follows(e, s) ==
    \A a \in Range(s) : Nobody \notin {a.by, e.by} =>
        a.id # e.id /\ (a.by = e.by => a.id < e.id)

Show(e) ==
    /\ \/ e = [id |-> 0, by |-> Nobody]
       \/ e.id \in 1 .. numbered /\ e.by \in Publisher
    /\ Follows(e, list)
    /\ list' = Append(IF Len(list) < Window THEN list ELSE Tail(list), e)
    /\ UNCHANGED numbered

Clear == list' = <<>> /\ UNCHANGED numbered

Next == \/ Number \/ Clear
        \/ \E p \in Publisher \cup {Nobody}, n \in 0 .. numbered :
              Show([id |-> n, by |-> p])

Spec == Init /\ [][Next]_vars

=============================================================================
