-------------------------- MODULE MCActivityStream --------------------------
(***************************************************************************)
(* Instances of ActivityStream: two publishers, and places for the         *)
(* connection of the page and for one that is on its way out.              *)
(***************************************************************************)
EXTENDS ActivityStream
=============================================================================
