----------------------------- MODULE AddrTrans -----------------------------
(***************************************************************************)
(* How kvm-dmesg finds out where the guest's kernel is (main.c,            *)
(* derive_kaslr_offset and x86_64_post_reloc), and how get_symbol_data and *)
(* readmem translate addresses from then on.                               *)
(*                                                                         *)
(* CR3 and IDTR are asked for, the page tables are walked to the interrupt *)
(* descriptor table, its first gate gives the run-time address of the      *)
(* divide error handler, and the differences to System.map give the two    *)
(* offsets.  Every readmem may fail, and no caller looks at its result.    *)
(*                                                                         *)
(* Addresses are modulo W, a page has P of them, a table B entries.  An    *)
(* entry is reduced to the page it points to; 0 is an entry not present.   *)
(***************************************************************************)
EXTENDS Integers

CONSTANTS
    P, B,          \* addresses per page, entries per table
    Start,         \* __START_KERNEL_map
    DefaultOffset, \* PAGE_OFFSET_2_6_27
    IdtLink, DivLink, OffsetLink,  \* idt_table, the divide error handler and
                   \* page_offset_base in System.map
    FileRegs,      \* what file_get_registers makes up
    Guests,        \* the guests looked at (see Guest)
    Junk           \* entry found in a page that is no table, or in fresh memory

W == P * B * B * B * B
Pages == 0..((W \div P) - 1)
Levels == {"pgd", "pud", "pmd", "ptbl"}

\* A guest: KASLR offset, phys_base and page_offset of its kernel, its IDTR, the
\* pages of the tables that map it, whether the table of processes is doubled
\* for page table isolation, whether CR3 is that of user mode, and whether the
\* table is mapped by a large page.
Guest == [kaslr : 0..(W - 1), base : 0..(W - 1), offset : 0..(W - 1),
          hasOffset : BOOLEAN, idtr : 0..(W - 1), page : [Levels -> Pages \ {0}],
          pti : BOOLEAN, user : BOOLEAN, huge : BOOLEAN]

\* The kernel's own translation of addresses of its image.
Phys(x, v) == (v - Start + x.base) % W

ASSUME AddrAssumption ==
    /\ P \in Nat \ {0} /\ B \in Nat \ {0} /\ Start \in 0..(W - 1)
    /\ DefaultOffset \in 0..(Start - 1)
    /\ IdtLink \in Start..(W - 1) /\ DivLink \in Start..(W - 1)
    /\ OffsetLink \in Start..(W - 1)
    /\ FileRegs \in [cr3 : Pages, idtr : 0..(W - 1)]
    /\ Junk \in Pages
    /\ Guests \subseteq Guest
    /\ \A x \in Guests :
          /\ \A s \in {IdtLink, DivLink, OffsetLink} : s + x.kaslr < W
          /\ x.offset < Start /\ (~ x.hasOffset => x.offset = DefaultOffset)
          /\ x.idtr % P = Phys(x, IdtLink + x.kaslr) % P
          /\ \A l, h \in Levels : x.page[l] = x.page[h] => l = h
          /\ \A l \in Levels : x.page[l] # Phys(x, IdtLink + x.kaslr) \div P
          /\ x.pti => x.page["pgd"] % 2 = 0
          /\ x.user => x.pti

VARIABLES
    g,            \* the guest
    pc,           \* where the program is
    regs,         \* CR3 (its page) and IDTR as read
    tab,          \* machdep->pgd, pud, pmd and ptbl
    last,         \* last_pgd_read, ..., as pages
    entry,        \* the entry found in the table before
    idtr_paddr, vec0,
    kaslr_offset, phys_base, page_offset,
    failed        \* a readmem or get_registers failed, or made something up

vars == <<g, pc, regs, tab, last, entry, idtr_paddr, vec0,
          kaslr_offset, phys_base, page_offset, failed>>

\* What an entry of a table of level l maps, the level below, and the place in it.
Reach(l) == IF l = "pgd" THEN P * B * B * B ELSE IF l = "pud" THEN P * B * B
            ELSE IF l = "pmd" THEN P * B ELSE P
Below(l) == IF l = "pgd" THEN "pud" ELSE IF l = "pud" THEN "pmd"
            ELSE IF l = "pmd" THEN "ptbl" ELSE "gate"
Index(l, v) == (v \div Reach(l)) % B

\* Guest memory: the four tables map idtr; with a large page the entry of the
\* third points to the data itself.  User mode sees a table without the kernel.
Data == Phys(g, IdtLink + g.kaslr) \div P
Target(l) == IF l = "ptbl" \/ (l = "pmd" /\ g.huge) THEN Data ELSE g.page[Below(l)]
Table(p) ==
    [i \in 0..(B - 1) |->
        IF \E l \in Levels : p = g.page[l]
        THEN LET l == CHOOSE h \in Levels : p = g.page[h]
             IN  IF i = Index(l, g.idtr) THEN Target(l) ELSE 0
        ELSE Junk]
Gate(a) == IF a = Phys(g, IdtLink + g.kaslr) THEN DivLink + g.kaslr ELSE Junk
Fresh == [i \in 0..(B - 1) |-> Junk]

-----------------------------------------------------------------------------
(***************************************************************************)
(* Translation of addresses.                                               *)
(***************************************************************************)

\* readmem of a KVADDR: the image of the kernel, or else the direct map.
readmem(addr) == IF addr >= Start THEN (addr - Start + phys_base) % W
                                  ELSE (addr - page_offset) % W

\* kt->relocate is the negated offset; it is only used when it is not zero.
relocate == (0 - kaslr_offset) % W
get_symbol_data(link) ==
    readmem(IF kaslr_offset # 0 THEN (link - relocate) % W ELSE link)

-----------------------------------------------------------------------------
(***************************************************************************)
(* Steps of the program.                                                   *)
(***************************************************************************)

\* x86_64_init.
Init ==
    /\ g \in Guests
    /\ pc = "regs"
    /\ regs = [cr3 |-> 0, idtr |-> 0]
    /\ tab = [l \in Levels |-> Fresh]
    /\ last = [l \in Levels |-> 0]
    /\ entry = 0 /\ idtr_paddr = 0 /\ vec0 = 0
    /\ kaslr_offset = 0 /\ phys_base = 0 /\ page_offset = DefaultOffset
    /\ failed = FALSE

\* What the monitor shows of the guest's registers.
Shown == [cr3 |-> IF g.user THEN g.page["pgd"] + 1 ELSE g.page["pgd"], idtr |-> g.idtr]

\* libvirt_get_registers stores the registers whose lines it finds, and succeeds
\* without them too; qmp_get_registers stops at the first one it lacks.  Neither
\* result is looked at.
libvirt_get_registers(lines) == [r \in {"cr3", "idtr"} |-> IF r \in lines THEN Shown[r] ELSE 0]

get_cr3_idtr ==
    /\ pc = "regs"
    /\ \E lines \in SUBSET {"cr3", "idtr"} :
          /\ regs' = libvirt_get_registers(lines)
          /\ failed' = (lines # {"cr3", "idtr"})
    /\ pc' = "pgd"
    /\ UNCHANGED <<g, tab, last, entry, idtr_paddr, vec0,
                   kaslr_offset, phys_base, page_offset>>

\* For a file of guest memory the registers are constants of the program.
file_get_registers ==
    /\ pc = "regs"
    /\ regs' = FileRegs
    /\ failed' = TRUE
    /\ pc' = "pgd"
    /\ UNCHANGED <<g, tab, last, entry, idtr_paddr, vec0,
                   kaslr_offset, phys_base, page_offset>>

\* Page p is read into the table of level l, or the read fails.
Read(l, p) == \/ tab' = [tab EXCEPT ![l] = Table(p)] /\ failed' = failed
              \/ tab' = tab /\ failed' = TRUE

\* Mutant: the tag is set before it is compared.
Fill_TagFirst(l, p) == UNCHANGED <<tab, failed>>

\* FILL_PUD, FILL_PMD, FILL_PTBL: nothing is read if the tag says it is there.
Fill(l, p) == IF p = last[l] THEN UNCHANGED <<tab, failed>> ELSE Read(l, p)

\* Mutant: the PCID is cut off, the bit of the user table is not.
PgdPage_KeepsUserBit(cr3) == cr3

\* CR3_PCID_MASK cuts off the offset in the page, PTI_USER_PGTABLE_MASK the
\* lowest bit of its number.
PgdPage(cr3) == cr3 - (cr3 % 2)

\* The table of processes is read without a look at the tag.
ReadPgd ==
    /\ pc = "pgd"
    /\ LET p == PgdPage(regs.cr3)
       IN  last' = [last EXCEPT !["pgd"] = p] /\ Read("pgd", p)
    /\ entry' = tab'["pgd"][Index("pgd", regs.idtr)]
    /\ pc' = "pud"
    /\ UNCHANGED <<g, regs, idtr_paddr, vec0, kaslr_offset, phys_base, page_offset>>

\* x86_64_pud_offset, x86_64_pmd_offset and x86_64_pte_offset.
Walk ==
    /\ pc \in {"pud", "pmd", "ptbl"}
    /\ Fill(pc, entry)
    /\ last' = [last EXCEPT ![pc] = entry]
    /\ entry' = tab'[pc][Index(pc, regs.idtr)]
    /\ pc' = Below(pc)
    /\ UNCHANGED <<g, regs, idtr_paddr, vec0, kaslr_offset, phys_base, page_offset>>

\* The end of x86_64_kvtop, and get_vec0_addr: gate is what the stack holds if it
\* cannot be read.
get_vec0_addr ==
    /\ pc = "gate"
    /\ idtr_paddr' = entry * P + (regs.idtr % P)
    /\ \/ vec0' = Gate(idtr_paddr') /\ failed' = failed
       \/ vec0' = Junk /\ failed' = TRUE
    /\ pc' = "calc"
    /\ UNCHANGED <<g, regs, tab, last, entry, kaslr_offset, phys_base, page_offset>>

\* The rest of calc_kaslr_offset and of derive_kaslr_offset.
calc_kaslr_offset ==
    /\ pc = "calc"
    /\ kaslr_offset' = (vec0 - DivLink) % W
    /\ phys_base' = (idtr_paddr - (IdtLink + kaslr_offset' - Start)) % W
    /\ pc' = "post"
    /\ UNCHANGED <<g, regs, tab, last, entry, idtr_paddr, vec0, page_offset, failed>>

\* Mutant: the offset of 2.6.27 is kept.
PageOffset_Default == DefaultOffset

\* What is found where get_symbol_data looks for page_offset_base.
PageOffset == IF get_symbol_data(OffsetLink) = Phys(g, OffsetLink + g.kaslr)
              THEN g.offset ELSE Junk

x86_64_post_reloc ==
    /\ pc = "post"
    /\ \/ /\ ~ g.hasOffset
          /\ UNCHANGED <<page_offset, failed>>
       \/ /\ g.hasOffset
          /\ page_offset' = PageOffset /\ failed' = failed
       \/ /\ g.hasOffset
          /\ page_offset' = page_offset /\ failed' = TRUE
    /\ pc' = "ready"
    /\ UNCHANGED <<g, regs, tab, last, entry, idtr_paddr, vec0, kaslr_offset, phys_base>>

\* From now on addresses are translated.
Translate == pc = "ready" /\ UNCHANGED vars

Next == get_cr3_idtr \/ file_get_registers \/ ReadPgd \/ Walk \/ get_vec0_addr \/ calc_kaslr_offset
        \/ x86_64_post_reloc \/ Translate
Spec == Init /\ [][Next]_vars

-----------------------------------------------------------------------------
(***************************************************************************)
(* Properties.                                                             *)
(***************************************************************************)

\* Every variable has its type; addresses and offsets stay in their width.
TypeOK ==
    /\ g \in Guests
    /\ pc \in {"regs", "pgd", "pud", "pmd", "ptbl", "gate", "calc", "post", "ready"}
    /\ regs \in [cr3 : Nat, idtr : 0..(W - 1)]
    /\ tab \in [Levels -> [0..(B - 1) -> Pages]] /\ last \in [Levels -> Nat]
    /\ {idtr_paddr, vec0, kaslr_offset, phys_base, page_offset} \subseteq 0..(W - 1)

\* The guests the walk is right for: the table of processes lies on an even page
\* (isolation doubles it; without it the masked bit may belong to the address)
\* and the descriptor table is mapped by a small page.
Supported == g.page["pgd"] % 2 = 0 /\ ~ g.huge

\* When nothing failed, every symbol of System.map is translated to the physical
\* address the guest's kernel has it at, wherever KASLR put the image, even
\* when phys_base is "negative" and with the CR3 of user mode.
SymbolsExact ==
    pc = "ready" /\ ~ failed /\ Supported =>
        \A link \in Start..(W - 1 - g.kaslr) :
            get_symbol_data(link) = Phys(g, link + g.kaslr)

\* And every pointer of the kernel into its direct map to the address it maps.
DirectMapExact ==
    pc = "ready" /\ ~ failed /\ Supported =>
        \A p \in 0..(Start - 1 - g.offset) : readmem(g.offset + p) = p

\* A table buffer holds the page its last_*_read tag names, so that a FILL_* that
\* trusts the tag finds what it would have read.  The tag 0 of a buffer never
\* filled and a failed read are the exceptions.
TagsAreTrue ==
    ~ failed => \A l \in Levels : last[l] # 0 => tab[l] = Table(last[l])

=============================================================================
