-------------------------- MODULE MCMemoryFreeList --------------------------
(***************************************************************************)
(* MemoryFreeList for model checking: three nodes.                         *)
(***************************************************************************)
EXTENDS MemoryFreeList

CONSTANTS n1, n2, n3

MCNodes == {n1, n2, n3}

=============================================================================
