--------------------------- MODULE MCAdvisoryLock ---------------------------
(***************************************************************************)
(* Instances of AdvisoryLock: server a has one caller and a pool of one or *)
(* two connections, server b has two callers and one connection.           *)
(***************************************************************************)
EXTENDS AdvisoryLock

CONSTANTS a, b, a1, a2, b1, g1, g2, g3, k1, k2

PoolOfDef == [c \in Conn |-> IF c = b1 THEN b ELSE a]
ServerOfDef == [g \in Caller |-> IF g = g1 THEN a ELSE b]
=============================================================================
