----------------------------- MODULE SymbolMap -----------------------------
(***************************************************************************)
(* What the rest of kvm-dmesg relies on when it looks up a kernel symbol:  *)
(* a partial function from names to addresses that only grows.  A name     *)
(* that resolves keeps its address, and a later duplicate changes nothing. *)
(***************************************************************************)
EXTENDS Integers

CONSTANTS Needed, Values

VARIABLE map

Init == map = [n \in {} |-> 0]

Resolve(n, v) ==
    /\ n \notin DOMAIN map
    /\ map' = [x \in DOMAIN map \cup {n} |-> IF x = n THEN v ELSE map[x]]

Next == \E n \in Needed, v \in Values : Resolve(n, v)

Spec == Init /\ [][Next]_map

=============================================================================
