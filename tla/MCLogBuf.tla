------------------------------ MODULE MCLogBuf ------------------------------
(***************************************************************************)
(* Instances of LogBuf for TLC: rings of 8 units, and of 16, which the     *)
(* mask of log_buf_len turns into 0.                                       *)
(***************************************************************************)
EXTENDS LogBuf

MCSmall == {8}
MCBoth == {8, 16}
MCTextLens == {0, 1, 2}
MCStack == {0, 3, 9}
MCHeapLens == {0, 3}
MCHeapTexts == {1}

=============================================================================
