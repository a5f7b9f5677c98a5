--------------------------- MODULE MemoryFreeList ---------------------------
(***************************************************************************)
(* class MemoryFreeList of include/cachelib_memory_allocator/              *)
(* AllocationClass.h: the list of freed allocations of an allocation       *)
(* class, with the pointers head and tail of the list and next and prev of *)
(* every node (MemoryAllocInfo_) as the state.                             *)
(*                                                                         *)
(* The list is used under the lock_ of its class: a member function is one *)
(* step.  A node stands for the allocation its field memory names.  The    *)
(* fields next and prev of a node are not initialised before the node is   *)
(* pushed for the first time: they start with any value.                   *)
(*                                                                         *)
(* "expected" is not state of the program.  It is the list a caller        *)
(* expects: the nodes it has pushed and neither popped nor released, the   *)
(* oldest first.  A caller pushes only a node it expects not to be listed  *)
(* (an allocation is freed once) and releases only a node it expects to be *)
(* listed.                                                                 *)
(***************************************************************************)
EXTENDS Naturals, Sequences, FiniteSets, SequencesExt

CONSTANTS
    Nodes,       \* the MemoryAllocInfo_ objects
    NULL,        \* the null pointer
    Released     \* the nodes callers pass to release()

ASSUME NULL \notin Nodes /\ Released \subseteq Nodes

VARIABLES
    head,        \* MemoryFreeList::head
    tail,        \* MemoryFreeList::tail
    next,        \* next[n]: MemoryAllocInfo_::next of node n
    prev,        \* prev[n]: MemoryAllocInfo_::prev of node n
    expected     \* the list callers expect

listVars == <<head, tail, next, prev, expected>>

Pointers == Nodes \cup {NULL}

\* MemoryFreeList(): head = 0; tail = 0;
Init ==
    /\ head = NULL
    /\ tail = NULL
    /\ next \in [Nodes -> Pointers]
    /\ prev \in [Nodes -> Pointers]
    /\ expected = <<>>

\* The nodes reached from n by next, at most "fuel" of them.
RECURSIVE NodesFrom(_, _)
NodesFrom(n, fuel) ==
    IF n = NULL \/ fuel = 0 THEN <<>> ELSE <<n>> \o NodesFrom(next[n], fuel - 1)

\* The list as a walk from head sees it.  A walk that meets more nodes than
\* there are has met one twice.
Listed == NodesFrom(head, Cardinality(Nodes) + 1)

\* empty()
Empty == head = NULL

\* front()
FrontNode == head

\* push_front(mem).  "cleared" is mem->next after the first statement.
Push(mem, cleared) ==
    /\ mem \notin ToSet(expected)
    /\ IF head = NULL
       THEN /\ head' = mem
            /\ tail' = mem
            /\ next' = [next EXCEPT ![mem] = cleared]
            /\ prev' = [prev EXCEPT ![mem] = NULL]
       ELSE /\ next' = [next EXCEPT ![mem] = cleared, ![tail] = mem]
            /\ prev' = [prev EXCEPT ![mem] = tail]
            /\ tail' = mem
            /\ UNCHANGED head
    /\ expected' = Append(expected, mem)

\* push_front() without "mem->next = 0".
PushFrontKeepsNext(mem) == Push(mem, next[mem])

\* The node is appended to the tail.
PushFront(mem) == Push(mem, NULL)

\* pop_front(), where "rest" is the new head of a list that is not empty.
Pop(rest) ==
    /\ head' = IF ~Empty THEN rest ELSE head
    /\ expected' = IF expected # <<>> THEN Tail(expected) ELSE expected
    /\ UNCHANGED <<tail, next, prev>>

\* pop_front() that empties the list, as release() of the head does.
PopFrontDropsList == Pop(NULL)

\* if (head != 0) head = head->next;
PopFront == Pop(next[FrontNode])

\* release(mem), where newPrev and newNext are what its two assignments leave
\* in mem->prev and mem->next.  The head takes the whole list with it.
Unlink(mem, newPrev, newNext) ==
    /\ mem \in ToSet(expected)
    /\ IF head = mem
       THEN /\ head' = NULL
            /\ UNCHANGED <<next, prev>>
       ELSE /\ prev' = [prev EXCEPT ![mem] = newPrev]
            /\ next' = [next EXCEPT ![mem] = newNext]
            /\ UNCHANGED head
    /\ expected' = SelectSeq(expected, LAMBDA n : n # mem)
    /\ UNCHANGED tail

\* if (mem->prev != 0) mem->prev = mem->next;
PrevAfterRelease(mem) == IF prev[mem] # NULL THEN next[mem] ELSE NULL

\* release() with its two assignments the other way round: mem->next gets
\* the old mem->prev.
ReleaseNextFirst(mem) ==
    LET n == IF next[mem] # NULL THEN prev[mem] ELSE NULL
    IN  Unlink(mem, IF prev[mem] # NULL THEN n ELSE NULL, n)

\* Any other node than the head gets its next in prev, and then its prev,
\* which is its next by now, in next.
Release(mem) ==
    Unlink(mem, PrevAfterRelease(mem),
           IF next[mem] # NULL THEN PrevAfterRelease(mem) ELSE NULL)

Next ==
    \/ \E mem \in Nodes : PushFront(mem)
    \/ PopFront
    \/ \E mem \in Released : Release(mem)

Spec == Init /\ [][Next]_listVars

-----------------------------------------------------------------------------
(* Properties *)

\* The list is the list its callers expect: front() is the allocation freed
\* longest ago, empty() holds exactly when every freed allocation was handed
\* out again, and no allocation is listed twice or lost.  With release() it
\* says that a released node is listed no more and every other node still is.
ListIsExpected == Listed = expected

\* While the list is not empty, tail names its last node and that node has no
\* successor: push_front() appends behind what tail names, so a tail that is
\* not the last node would cut the list or tie it into a ring.  pop_front()
\* leaves tail alone, also when it takes the last node.
TailIsLastNode ==
    ~Empty => /\ tail # NULL
              /\ tail = Last(Listed)
              /\ next[tail] = NULL

\* release() never puts a node into the list and never changes the order of
\* one: the walk from head after release(mem) is the beginning of the walk
\* before it.  It writes head and the two pointers of mem only, and what it
\* writes to mem->next is null or what was there, also for a node whose prev
\* and next are stale.
ReleaseOnlyCuts ==
    [][\A mem \in Released : Release(mem) => IsPrefix(Listed', Listed)]_listVars

=============================================================================
