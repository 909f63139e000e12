---------------------------- MODULE MCKvmDmesg ----------------------------
(***************************************************************************)
(* An instance of KvmDmesg for TLC: every pair of paths, told apart by     *)
(* their first MaxHead bytes.                                              *)
(***************************************************************************)
EXTENDS KvmDmesg

=============================================================================
