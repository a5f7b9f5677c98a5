----------------------------- MODULE SlabRelease -----------------------------
(***************************************************************************)
(* The release of slabs as the users of AllocationClass are promised it    *)
(* (the comments on startSlabRelease(), abortSlabRelease() and             *)
(* completeSlabRelease() in AllocationClass.h): a slab a class holds is    *)
(* released at once, or marked, drained by the free() of its chunks and    *)
(* then released; a release can be given up until the slab is drained and  *)
(* no longer.                                                              *)
(***************************************************************************)
CONSTANT Slabs

VARIABLE phase   \* phase[s]: where slab s is in its release

Phases == {"absent", "inactive", "starting", "draining", "drained"}

Init == phase = [s \in Slabs |-> "absent"]

\* What one step may do to a slab.
Moves ==
    {<<"absent", "inactive">>,      \* addSlab(): a class takes the slab
     <<"inactive", "absent">>,      \* no active allocation: released when picked
     <<"inactive", "starting">>,    \* startSlabRelease() marks the slab
     <<"starting", "inactive">>,    \* SlabReleaseAborted: shouldAbortFn() said so
     <<"starting", "draining">>,    \* the context is returned, with active allocations
     <<"starting", "drained">>,     \* ... or with all of them freed meanwhile
     <<"draining", "drained">>,     \* the last active allocation is freed
     <<"draining", "inactive">>,    \* abortSlabRelease(): the slab stays
     <<"drained", "absent">>}       \* completeSlabRelease(): the slab leaves

\* One slab moves in a step.
Next ==
    \E s \in Slabs :
        /\ <<phase[s], phase'[s]>> \in Moves
        /\ \A r \in Slabs \ {s} : phase'[r] = phase[r]

Spec == Init /\ [][Next]_phase

=============================================================================
