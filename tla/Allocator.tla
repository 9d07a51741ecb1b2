------------------------------ MODULE Allocator ------------------------------
(***************************************************************************)
(* What the kernel's heap promises its callers: every grant is an extent   *)
(* of the heap that no other grant overlaps, and a grant changes only when *)
(* its owner frees or resizes it.                                          *)
(***************************************************************************)
EXTENDS Naturals

CONSTANT HeapTotal       \* the bytes of the heap

VARIABLE grants          \* the extents out: [ptr, len], the bytes asked for

Disjoint(g, h) == g.ptr + g.len <= h.ptr \/ h.ptr + h.len <= g.ptr

(* g lies in the heap and beside every one of others.                      *)
Fresh(g, others) == /\ g.ptr + g.len <= HeapTotal
                    /\ \A h \in others : Disjoint(g, h)

Alloc(g) == /\ Fresh(g, grants)
            /\ grants' = grants \cup {g}

Free(g) == grants' = grants \ {g}

(* A reallocation moves or resizes one grant and touches no other; the new *)
(* extent may lie over the old one.                                        *)
Realloc(old, new) == /\ Fresh(new, grants \ {old})
                     /\ grants' = (grants \ {old}) \cup {new}

AllocInit == grants = {}

(* Any extent will do, so the one granted is read off the step.            *)
AllocNext == \/ \E g \in grants' \ grants : Alloc(g)
             \/ \E g \in grants : Free(g)
             \/ \E old \in grants, new \in grants' \ grants : Realloc(old, new)

AllocSpec == AllocInit /\ [][AllocNext]_grants
=============================================================================
