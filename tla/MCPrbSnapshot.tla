--------------------------- MODULE MCPrbSnapshot ---------------------------
(***************************************************************************)
(* Instances of PrbSnapshot for TLC.                                       *)
(***************************************************************************)
EXTENDS PrbSnapshot

MCTextLens == {0, 1, 3}
=============================================================================
