---------------------------- MODULE PoolContract ----------------------------
(***************************************************************************)
(* What a memory pool promises its callers and the SlabAllocator, without  *)
(* classes, free lists, counters or locks.                                 *)
(*                                                                         *)
(* The pool owns slabs, never more than its capacity, and lends chunks of  *)
(* the slabs it owns.  A chunk is lent to one caller at a time, and a slab *)
(* goes back to the SlabAllocator only when no chunk of it is lent.        *)
(* Module MemoryPool implements this specification: see Contract there.    *)
(***************************************************************************)
EXTENDS Naturals, FiniteSets

CONSTANTS
    Slabs,      \* the slabs of the SlabAllocator
    Chunks,     \* the chunks of the slabs: records with a field slab
    Capacity    \* the number of slabs the pool may own

VARIABLES
    owned,      \* the slabs the pool owns
    lent        \* the chunks callers may use

contractVars == <<owned, lent>>

Init ==
    /\ owned = {}
    /\ lent = {}

\* The SlabAllocator gives the pool a slab.
Acquire(s) ==
    /\ s \notin owned
    /\ Cardinality(owned) < Capacity
    /\ owned' = owned \cup {s}
    /\ UNCHANGED lent

\* The pool gives a slab back: no caller uses memory of it.
Surrender(s) ==
    /\ s \in owned
    /\ \A ch \in lent : ch.slab # s
    /\ owned' = owned \ {s}
    /\ UNCHANGED lent

\* A caller is lent a chunk nobody uses, of a slab the pool owns.
Lend(ch) ==
    /\ ch \notin lent
    /\ ch.slab \in owned
    /\ lent' = lent \cup {ch}
    /\ UNCHANGED owned

\* A caller gives a chunk back.
Return(ch) ==
    /\ ch \in lent
    /\ lent' = lent \ {ch}
    /\ UNCHANGED owned

Next ==
    \/ \E s \in Slabs : Acquire(s) \/ Surrender(s)
    \/ \E ch \in Chunks : Lend(ch) \/ Return(ch)

Spec == Init /\ [][Next]_contractVars

=============================================================================
