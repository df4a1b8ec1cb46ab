----------------------------- MODULE SampleLender -----------------------------
(***************************************************************************)
(* What the allocators of SurfaceAllocator promise to the codec and the    *)
(* renderer: a pool of samples that are lent to one holder at a time, and  *)
(* only while the pool is open.  While it is open a sample of the pool     *)
(* leaves the free list only to be lent and comes back to it, so that none *)
(* of them is lost; a sample that is held outlives the closing of the pool *)
(* and the opening of the next one.                                        *)
(***************************************************************************)
CONSTANT Sample

VARIABLES
    open,           \* samples are lent
    pool,           \* the samples of the pool
    free,           \* those that wait to be lent
    lent            \* samples that somebody holds, some of them of an earlier pool
vars == <<open, pool, free, lent>>

Init == open = FALSE /\ pool = {} /\ free = {} /\ lent = {}

Lend ==
    \E s \in free :
        /\ open
        /\ free' = free \ {s} /\ lent' = lent \cup {s}
        /\ UNCHANGED <<open, pool>>

\* A sample of an earlier pool may be given up instead, and the last one to come back to a
\* closed pool takes the others with it.
Return ==
    \E s \in lent :
        /\ lent' = lent \ {s}
        /\ UNCHANGED open
        /\ \/ free' = free \cup {s} /\ UNCHANGED pool
           \/ s \notin pool /\ UNCHANGED <<free, pool>>
           \/ ~open /\ free' = {} /\ pool' = {}

\* A sample of an earlier pool is lent, returned and given up at once.
Spend ==
    \E s \in free \ pool :
        /\ open
        /\ free' = free \ {s}
        /\ UNCHANGED <<open, pool, lent>>

\* The pool that is closing goes on, or there is a new one, none of which is held already.
Open ==
    /\ ~open /\ open' = TRUE
    /\ \/ UNCHANGED <<pool, free, lent>>
       \/ /\ lent' \subseteq lent
          /\ pool' \subseteq Sample /\ free' \subseteq pool' /\ pool' \subseteq free' \cup lent'
          /\ free' \cap lent' = {}

\* The free samples are given up at once, or with the last of those that are held.
Close ==
    /\ open' = FALSE
    /\ \/ UNCHANGED <<pool, free, lent>>
       \/ lent' \subseteq lent /\ pool' = {} /\ free' = {}

Next == Lend \/ Return \/ Spend \/ Open \/ Close
Spec == Init /\ [][Next]_vars
=============================================================================
