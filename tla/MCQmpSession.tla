---------------------------- MODULE MCQmpSession ----------------------------
(***************************************************************************)
(* Instances of QmpSession for TLC.  Two sizes of memory reads, so that a   *)
(* stale answer may be shorter or longer than the wanted one; ReadMax = 2   *)
(* splits every dump answer over several xreads.                            *)
(***************************************************************************)
EXTENDS QmpSession

MCPartSizes == {1, 2}
=============================================================================
