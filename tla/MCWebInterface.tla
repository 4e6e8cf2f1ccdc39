--------------------------- MODULE MCWebInterface ---------------------------
(***************************************************************************)
(* Instances of WebInterface: one tab whose user goes to every page; and a *)
(* tab with the Git page beside one in which the user logs in and out.     *)
(***************************************************************************)
EXTENDS WebInterface, TLC

CONSTANTS t1, t2

Everywhere == [t \in Tab |-> Page]
SideBySide == [t \in Tab |-> IF t = t1 THEN {"git"} ELSE {"activity"}]

Interchangeable == Permutations(Token)
=============================================================================
