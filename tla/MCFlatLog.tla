----------------------------- MODULE MCFlatLog -----------------------------
(***************************************************************************)
(* An instance of FlatLog for TLC: a ring of four characters that wraps,   *)
(* and one of the length the mask takes for 0.                             *)
(***************************************************************************)
EXTENDS FlatLog

=============================================================================
