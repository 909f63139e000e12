--------------------------- MODULE MCGuestClient ---------------------------
(***************************************************************************)
(* An instance of GuestClient for TLC: any sequence of calls of client.h.  *)
(***************************************************************************)
EXTENDS GuestClient

=============================================================================
