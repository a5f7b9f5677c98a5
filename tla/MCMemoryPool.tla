---------------------------- MODULE MCMemoryPool ----------------------------
(***************************************************************************)
(* MemoryPool for model checking: the slabs and threads are model values,  *)
(* and the sets of inputs that are not plain sets of model values are      *)
(* defined here and substituted in the .cfg files.                         *)
(***************************************************************************)
EXTENDS MemoryPool

CONSTANTS s1, s2, s3, t1, t2

\* Class 0 has two chunks of 2 bytes in a slab of 4 bytes; class 1 has one
\* chunk of 3 bytes and leaves the last byte of the slab unused.
MCAllocSizes == <<2, 3>>

\* 0 and 4 are the two sizes allocate() refuses.
MCRequestSizes == {0, 2, 3, 4}
MCValidRequests == {2, 3}
MCSmallRequests == {2}

\* Class ids, as victims and receivers; -1 is Slab::kInvalidClassId.
MCClass0 == {0}
MCBothClasses == {0, 1}
MCPool == {-1}
MCPoolOrClass0 == {-1, 0}
MCPoolOrClass1 == {-1, 1}
MCAnyReceiver == {-1, 0, 1}
\* 2 is past the last class: the pool has classes 0 and 1.
MCPoolOrNoSuchClass == {-1, 2}
MCPoolOrClass0OrNoSuchClass == {-1, 0, 2}
MCAnyVictim == {-1, 0, 1}

MCResize == {"kResize"}
MCRebalance == {"kRebalance"}
MCBothModes == {"kResize", "kRebalance"}

MCNoHint == {NULL}
MCAnyHint == Slabs \cup {NULL}

SymSlabs2 == Permutations({s1, s2})
SymSlabs3 == Permutations({s1, s2, s3})
SymThreads == Permutations({t1, t2})
SymSlabs2Threads == SymSlabs2 \cup SymThreads
SymSlabs3Threads == SymSlabs3 \cup SymThreads

=============================================================================
