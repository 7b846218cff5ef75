-------------------------------- MODULE Heap --------------------------------
(***************************************************************************)
(* What a caller of c_malloc and c_free (src/tlpi/c7/7.2.c) relies on: a   *)
(* grant is a pointer and the number of bytes asked for, grants never      *)
(* share a byte or a pointer, and a grant lasts until it is given back.    *)
(***************************************************************************)
EXTENDS Naturals

CONSTANTS Pointers, \* the addresses a grant may start at
          Sizes     \* the sizes a caller asks for

VARIABLE grants     \* set of <<pointer, size>>

(* The bytes of a grant. *)
Bytes(g) == g[1] .. g[1] + g[2] - 1

Init == grants = {}

Alloc(p, n) ==
    /\ \A g \in grants : g[1] # p /\ Bytes(g) \cap Bytes(<<p, n>>) = {}
    /\ grants' = grants \cup {<<p, n>>}

Free(g) == grants' = grants \ {g}

Next == \/ \E p \in Pointers, n \in Sizes : Alloc(p, n)
        \/ \E g \in grants : Free(g)

Spec == Init /\ [][Next]_grants
=============================================================================
