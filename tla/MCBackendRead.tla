--------------------------- MODULE MCBackendRead ---------------------------
(***************************************************************************)
(* Instances of BackendRead for TLC: reads of up to two steps and a rest,  *)
(* inside the memory, across its end and behind it, with a guest that      *)
(* writes while they go on.                                                *)
(***************************************************************************)
EXTENDS BackendRead

MCStarts == {2, 8, 10}
MCLine == [b \in {"qmp", "libvirt"} |-> IF b = "qmp" THEN 1 ELSE 2]

=============================================================================
