---------------------------- MODULE MCAddrTrans ----------------------------
(***************************************************************************)
(* An instance of AddrTrans for TLC: 64 addresses, pages of 4, tables of 2 *)
(* entries.  The upper half is the kernel image.                           *)
(***************************************************************************)
EXTENDS AddrTrans

MCFileRegs == [cr3 |-> 2, idtr |-> 6]

\* Tables on pages 1 to 5, the image above them; with a KASLR offset of 24 the
\* image lies below its link address minus the offset, and phys_base wraps.
MCTables == {p \in [{"pgd", "pud", "pmd", "ptbl"} -> 1..5] :
                \A l, h \in DOMAIN p : p[l] = p[h] => l = h}
MCGuests ==
    {x \in [kaslr : {0, 4, 24}, base : {0, 24, 28, 62}, offset : {16, 20},
            hasOffset : BOOLEAN, idtr : {2, 6, 8, 22, 58}, page : MCTables,
            pti : BOOLEAN, user : BOOLEAN, huge : BOOLEAN] :
        /\ (IdtLink + x.kaslr - Start + x.base) % 64 \in 24..63
        /\ x.idtr % P = (IdtLink + x.kaslr - Start + x.base) % P
        /\ x.hasOffset \/ x.offset = DefaultOffset
        /\ x.pti => x.page["pgd"] % 2 = 0
        /\ x.user => x.pti}

=============================================================================
