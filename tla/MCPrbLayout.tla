---------------------------- MODULE MCPrbLayout ----------------------------
(***************************************************************************)
(* An instance of PrbLayout for TLC: the layout of a 64-bit kernel, with   *)
(* its keys in the kernel's order, in the opposite order between other     *)
(* lines, and without one of them.                                         *)
(***************************************************************************)
EXTENDS PrbLayout

MCLayout == ("SIZE(printk_info)" :> 88) @@ ("SIZE(prb_desc)" :> 24)
    @@ ("SIZE(printk_ringbuffer)" :> 80) @@ ("desc_ring" :> 0) @@ ("text_data_ring" :> 40)
    @@ ("count_bits" :> 0) @@ ("descs" :> 8) @@ ("infos" :> 16) @@ ("head_id" :> 24)
    @@ ("tail_id" :> 32) @@ ("size_bits" :> 0) @@ ("data" :> 8)

Decimal(n) == IF n < 10 THEN <<ToString(n)>> ELSE <<ToString(n \div 10), ToString(n % 10)>>
LineOf(key) == <<key>> \o Decimal(MCLayout[key]) \o <<"newline">>

KeyOrder == <<"SIZE(printk_ringbuffer)", "desc_ring", "text_data_ring", "count_bits", "descs",
              "infos", "head_id", "tail_id", "SIZE(prb_desc)", "SIZE(printk_info)",
              "size_bits", "data">>

Lines(keys) == FoldLeft(LAMBDA s, key : s \o LineOf(key), <<>>, keys)
Spaced(keys) == FoldLeft(LAMBDA s, key : s \o <<"other", "newline">> \o LineOf(key), <<>>, keys)

MCNotes == {Lines(KeyOrder), Spaced(Reverse(KeyOrder)), Lines(Tail(KeyOrder))}

=============================================================================
