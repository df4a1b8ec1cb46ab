------------------------ MODULE SurfaceAllocator_proofs ------------------------
(***************************************************************************)
(* Theorems about SurfaceAllocator, for every pool size, every number of   *)
(* surfaces the codec holds, and both decoders.                            *)
(*                                                                         *)
(* Every operation of the allocator is described by two values that no     *)
(* decommit changes: Lent, the samples that are not free, and Surplus, the *)
(* references on the allocator that neither a commit nor a sample explains.*)
(***************************************************************************)
EXTENDS SurfaceAllocator, FiniteSetTheorems, TLAPS

Lent(a) == a.live \ a.free

CommitRef(a) == IF a.committed \/ a.pending THEN 1 ELSE 0

Surplus(a) == a.refs - CommitRef(a) - RefsOf(Cardinality(a.live))

Sound(a) ==
    /\ a \in Allocator
    /\ IsFiniteSet(a.live)
    /\ a.free \subseteq a.live
    /\ ~(a.committed /\ a.pending)

\* b is what an operation that lends nothing and takes nothing back makes of a.
Settles(a, b) ==
    /\ Sound(b)
    /\ b.live \subseteq a.live
    /\ Lent(b) = Lent(a)
    /\ Surplus(b) = Surplus(a)

LEMMA DifferenceFacts ==
  ASSUME NEW S, IsFiniteSet(S), NEW T \in SUBSET S
  PROVE  /\ IsFiniteSet(T) /\ IsFiniteSet(S \ T)
         /\ Cardinality(S) \in Nat /\ Cardinality(T) \in Nat /\ Cardinality(T) <= Cardinality(S)
         /\ Cardinality(S \ T) = Cardinality(S) - Cardinality(T)
  <1>1. IsFiniteSet(T) /\ Cardinality(T) <= Cardinality(S)
    BY FS_Subset
  <1>2. Cardinality(S) \in Nat /\ Cardinality(T) \in Nat
    BY <1>1, FS_CardinalityType
  <1>3. IsFiniteSet(S \ T) /\ Cardinality(S \ T) = Cardinality(S) - Cardinality(S \cap T)
    BY FS_Difference, Zenon
  <1>4. S \cap T = T  OBVIOUS
  <1> QED  BY <1>1, <1>2, <1>3, <1>4

LEMMA RefsFacts ==
  ASSUME NEW n \in Nat, NEW m \in Nat
  PROVE  /\ RefsOf(n) \in Nat
         /\ RefsOf(n + m) = RefsOf(n) + RefsOf(m)
         /\ n <= m => RefsOf(m - n) = RefsOf(m) - RefsOf(n)
         /\ RefsOf(0) = 0
  BY DEF RefsOf

LEMMA PoolFacts ==
  ASSUME NEW g, NEW c
  PROVE  /\ IsFiniteSet(PoolSamples(g, c))
         /\ Cardinality(PoolSamples(g, c)) = Count
  <1> DEFINE I == 0 .. Count - 1
             f == [i \in I |-> [gen |-> g, idx |-> i, ctx |-> c]]
  <1>1. IsFiniteSet(I) /\ Cardinality(I) = Count
    BY CountAssumption, FS_Interval
  <1>2. f \in Bijection(I, PoolSamples(g, c))
    <2>1. f \in [I -> PoolSamples(g, c)]  BY DEF PoolSamples
    <2>2. \A i, j \in I : f[i] = f[j] => i = j
      <3> TAKE i \in I, j \in I
      <3>1. f[i].idx = i /\ f[j].idx = j  OBVIOUS
      <3> QED  BY <3>1
    <2>3. \A s \in PoolSamples(g, c) : \E i \in I : f[i] = s  BY DEF PoolSamples
    <2> QED  BY <2>1, <2>2, <2>3 DEF Bijection, Injection, Surjection, IsInjective
  <1> QED  BY <1>1, <1>2, FS_Bijection DEF ExistsBijection

LEMMA PoolType ==
  ASSUME NEW g \in 1 .. MaxGens, NEW c \in Nat
  PROVE  PoolSamples(g, c) \subseteq Sample
  BY CountAssumption, GensAssumption DEF PoolSamples, Sample

-----------------------------------------------------------------------------
(***************************************************************************)
(* The operations of the allocator.                                        *)
(***************************************************************************)
LEMMA FreeFacts ==
  ASSUME NEW a, Sound(a)
  PROVE  /\ Settles(a, Free(a))
         /\ Free(a).free = {} /\ Free(a).live = Lent(a)
         /\ Free(a).committed = a.committed /\ Free(a).pending = a.pending
  <1> DEFINE b == Free(a)
  <1>1. /\ b.free = {} /\ b.live = a.live \ a.free
        /\ b.committed = a.committed /\ b.pending = a.pending
        /\ b.refs = a.refs - RefsOf(Cardinality(a.free))
    BY DEF Free, Sound, Allocator
  <1>2. IsFiniteSet(a.live) /\ a.free \in SUBSET a.live  BY DEF Sound
  <1>3. /\ IsFiniteSet(a.live \ a.free)
        /\ Cardinality(a.live) \in Nat /\ Cardinality(a.free) \in Nat
        /\ Cardinality(a.free) <= Cardinality(a.live)
        /\ Cardinality(a.live \ a.free) = Cardinality(a.live) - Cardinality(a.free)
    BY <1>2, DifferenceFacts, Zenon
  <1>4. /\ IsFiniteSet(b.live)
        /\ Cardinality(b.live) = Cardinality(a.live) - Cardinality(a.free)
    <2> HIDE DEF b
    <2> QED  BY <1>1, <1>3
  <1>5. RefsOf(Cardinality(a.free)) \in Nat
    BY <1>3, RefsFacts
  <1>6. b \in Allocator
    <2> DEFINE n == RefsOf(Cardinality(a.free))
    <2>1. n \in Int  BY <1>5
    <2>2. /\ a \in Allocator /\ a.live \ a.free \in SUBSET Sample /\ {} \in SUBSET Sample
          /\ a.refs - n \in Int
      BY <2>1 DEF Sound, Allocator
    <2>5. b = [a EXCEPT !.free = {}, !.live = @ \ a.free, !.allocated = 0, !.ctx = 0, !.refs = @ - n]
      BY DEF Free, NoCtx
    <2>3. b = [committed |-> a.committed, pending |-> a.pending, free |-> {}, allocated |-> 0,
               ctx |-> 0, refs |-> a.refs - n, live |-> a.live \ a.free]
      <3> HIDE DEF n, b
      <3> QED  BY <2>5, <2>2 DEF Allocator
    <2>4. a.committed \in BOOLEAN /\ a.pending \in BOOLEAN  BY <2>2 DEF Allocator
    <2> HIDE DEF n, b
    <2> QED  BY <2>2, <2>3, <2>4 DEF Allocator
  <1>7. Surplus(b) = Surplus(a)
    <2>1. RefsOf(Cardinality(b.live)) = RefsOf(Cardinality(a.live)) - RefsOf(Cardinality(a.free))
      <3> HIDE DEF b
      <3> QED  BY <1>3, <1>4, RefsFacts
    <2>2. RefsOf(Cardinality(a.live)) \in Nat /\ a.refs \in Int /\ CommitRef(a) \in {0, 1}
      BY <1>3, RefsFacts DEF Sound, Allocator, CommitRef
    <2> HIDE DEF b
    <2> QED  BY <1>1, <1>5, <2>1, <2>2 DEF Surplus, CommitRef
  <1> QED  BY <1>1, <1>4, <1>6, <1>7 DEF Settles, Sound, Lent

\* Giving up the reference of the commit when the samples are freed.
LEMMA ReleasedFacts ==
  ASSUME NEW a, Sound(a), a.committed \/ a.pending,
         NEW b, b = [a EXCEPT !.committed = FALSE, !.pending = FALSE]
  PROVE  /\ Settles(a, Release(Free(b)))
         /\ Release(Free(b)).free = {}
         /\ ~Release(Free(b)).committed /\ ~Release(Free(b)).pending
  <1> DEFINE f == Free(b)
             r == Release(f)
  <1>1. /\ Sound(b) /\ b.live = a.live /\ b.free = a.free /\ b.refs = a.refs
        /\ ~b.committed /\ ~b.pending
    BY DEF Sound, Allocator
  <1>2. /\ Settles(b, f) /\ f.free = {} /\ f.live = Lent(b)
        /\ f.committed = b.committed /\ f.pending = b.pending
    BY <1>1, FreeFacts
  <1>3. Sound(f)  BY <1>2 DEF Settles
  <1>4. /\ r.live = f.live /\ r.free = f.free /\ r.refs = f.refs - 1
        /\ r.committed = f.committed /\ r.pending = f.pending /\ r \in Allocator
    BY <1>3 DEF Release, Sound, Allocator
  <1>5. /\ RefsOf(Cardinality(a.live)) \in Nat /\ RefsOf(Cardinality(f.live)) \in Nat
        /\ a.refs \in Int /\ f.refs \in Int
    BY <1>3, RefsFacts, FS_CardinalityType DEF Sound, Allocator
  <1>6. Surplus(b) = a.refs - RefsOf(Cardinality(a.live))
        /\ Surplus(a) = a.refs - 1 - RefsOf(Cardinality(a.live))
    BY <1>1, <1>5 DEF Surplus, CommitRef
  <1>7. Surplus(f) = f.refs - RefsOf(Cardinality(f.live))
        /\ Surplus(r) = f.refs - 1 - RefsOf(Cardinality(f.live))
    <2> HIDE DEF r, f
    <2> QED  BY <1>1, <1>2, <1>4, <1>5 DEF Surplus, CommitRef
  <1>8. Surplus(f) = Surplus(b)  BY <1>2 DEF Settles
  <1>9. Surplus(r) = Surplus(a)  BY <1>5, <1>6, <1>7, <1>8
  <1>10. Sound(r)  BY <1>1, <1>2, <1>3, <1>4 DEF Sound
  <1>11. r.live \subseteq a.live /\ Lent(r) = Lent(a)
    BY <1>1, <1>2, <1>4 DEF Lent, Settles
  <1> QED  BY <1>1, <1>2, <1>4, <1>9, <1>10, <1>11 DEF Settles

\* Decommitting neither loses a sample nor the count of references.
LEMMA DecommitFacts ==
  ASSUME NEW a, Sound(a)
  PROVE  /\ Settles(a, Decommitted(a))
         /\ ~Decommitted(a).committed
  <1>1. CASE ~a.committed /\ ~a.pending
    BY <1>1 DEF Decommitted, Settles
  <1>2. CASE (a.committed \/ a.pending) /\ Cardinality(a.free) < a.allocated
    <2> DEFINE b == [a EXCEPT !.committed = FALSE, !.pending = TRUE]
    <2>1. Decommitted(a) = b  BY <1>2 DEF Decommitted
    <2>2. /\ Sound(b) /\ b.live = a.live /\ b.free = a.free /\ b.refs = a.refs
          /\ ~b.committed /\ b.pending
      BY DEF Sound, Allocator
    <2>3. Surplus(b) = Surplus(a)  BY <1>2, <2>2 DEF Surplus, CommitRef
    <2> QED  BY <2>1, <2>2, <2>3 DEF Settles, Lent
  <1>3. CASE (a.committed \/ a.pending) /\ ~(Cardinality(a.free) < a.allocated)
    <2>1. Decommitted(a) = Release(Free([a EXCEPT !.committed = FALSE, !.pending = FALSE]))
      BY <1>3 DEF Decommitted
    <2> QED  BY <1>3, <2>1, ReleasedFacts
  <1> QED  BY <1>1, <1>2, <1>3

LEMMA PendingOnly ==
  ASSUME NEW a, Sound(a), a.pending
  PROVE  [a EXCEPT !.pending = FALSE] = [a EXCEPT !.committed = FALSE, !.pending = FALSE]
  BY DEF Sound, Allocator

\* Forcing a decommit frees what is back and leaves what is out.
LEMMA ForceFacts ==
  ASSUME NEW a, Sound(a)
  PROVE  Settles(a, ForceDecommitted(a))
  <1>1. CASE a.committed \/ ~a.pending
    BY <1>1 DEF ForceDecommitted, Settles
  <1>2. CASE ~a.committed /\ a.pending
    BY <1>2, ReleasedFacts, PendingOnly DEF ForceDecommitted
  <1> QED  BY <1>1, <1>2

\* A sample that comes back under the lock is no longer lent.
LEMMA ReturnFacts ==
  ASSUME NEW a, Sound(a), NEW s \in Lent(a)
  PROVE  /\ Sound(Returned(a, s))
         /\ Returned(a, s).live \subseteq a.live
         /\ Lent(Returned(a, s)) = Lent(a) \ {s}
         /\ Surplus(Returned(a, s)) = Surplus(a)
  <1> DEFINE b == [a EXCEPT !.free = @ \cup {s}]
  <1>1. /\ Sound(b) /\ b.live = a.live /\ b.free = a.free \cup {s} /\ b.refs = a.refs
        /\ b.committed = a.committed /\ b.pending = a.pending
    BY DEF Sound, Allocator, Lent
  <1>2. Lent(b) = Lent(a) \ {s} /\ Surplus(b) = Surplus(a)
    BY <1>1 DEF Lent, Surplus, CommitRef
  <1>3. CASE ~(b.pending /\ Cardinality(b.free) = b.allocated)
    BY <1>1, <1>2, <1>3 DEF Returned
  <1>4. CASE b.pending /\ Cardinality(b.free) = b.allocated
    <2>1. Returned(a, s) = Release(Free([b EXCEPT !.pending = FALSE]))
      BY <1>4 DEF Returned
    <2>2. [b EXCEPT !.pending = FALSE] = [b EXCEPT !.committed = FALSE, !.pending = FALSE]
      BY <1>1, <1>4, PendingOnly
    <2>3. Settles(b, Release(Free([b EXCEPT !.pending = FALSE])))
      <3> HIDE DEF b
      <3> QED  BY <1>1, <1>4, <2>2, ReleasedFacts, Zenon
    <2> HIDE DEF b
    <2> QED  BY <1>1, <1>2, <2>1, <2>3 DEF Settles
  <1> QED  BY <1>3, <1>4

\* The new samples are free, and each brings its reference.
LEMMA FilledFacts ==
  ASSUME NEW a, Sound(a), a.free = {}, NEW g \in 1 .. MaxGens, NEW c \in Nat,
         PoolSamples(g, c) \cap a.live = {}
  PROVE  /\ Sound(Filled(a, g, c))
         /\ Filled(a, g, c).live = a.live \cup PoolSamples(g, c)
         /\ Lent(Filled(a, g, c)) = Lent(a)
         /\ Surplus(Filled(a, g, c)) = Surplus(a)
         /\ Filled(a, g, c).committed = a.committed /\ Filled(a, g, c).pending = a.pending
  <1> DEFINE new == PoolSamples(g, c)
             b == Filled(a, g, c)
  <1>1. IsFiniteSet(new) /\ Cardinality(new) \in Nat /\ new \subseteq Sample
    BY PoolFacts, PoolType, CountAssumption
  <1>2. /\ b.free = new /\ b.live = a.live \cup new
        /\ b.refs = a.refs + RefsOf(Cardinality(new))
        /\ b.committed = a.committed /\ b.pending = a.pending
    BY DEF Filled, Sound, Allocator
  <1>3. RefsOf(Cardinality(new)) \in Nat /\ RefsOf(Cardinality(a.live)) \in Nat
        /\ Cardinality(a.live) \in Nat /\ a.refs \in Int
    BY <1>1, RefsFacts, FS_CardinalityType DEF Sound, Allocator
  <1>4. b \in Allocator
    <2>1. (IF D3D11 THEN Count ELSE -1) \in Int  BY CountAssumption
    <2>2. a.free \cup new \in SUBSET Sample /\ new \in SUBSET Sample /\ a.live \cup new \in SUBSET Sample
      BY <1>1 DEF Sound, Allocator
    <2>3. a.refs + RefsOf(Cardinality(new)) \in Int  BY <1>3
    <2> HIDE DEF new
    <2> QED  BY <2>1, <2>2, <2>3 DEF Filled, Sound, Allocator, new
  <1>5. IsFiniteSet(b.live) /\ Cardinality(b.live) = Cardinality(a.live) + Cardinality(new)
    <2>1. a.live \cap new = {}  OBVIOUS
    <2> QED  BY <1>1, <1>2, <1>3, <2>1, FS_Union, FS_EmptySet DEF Sound
  <1>6. RefsOf(Cardinality(b.live)) = RefsOf(Cardinality(a.live)) + RefsOf(Cardinality(new))
    BY <1>1, <1>3, <1>5, RefsFacts
  <1>7. Surplus(b) = Surplus(a)
    BY <1>2, <1>3, <1>6 DEF Surplus, CommitRef
  <1>8. Lent(b) = Lent(a)  BY <1>2 DEF Lent
  <1> QED  BY <1>2, <1>4, <1>5, <1>7, <1>8 DEF Sound
\* The last reference to a sample of another frames context deletes it.
LEMMA LateFacts ==
  ASSUME NEW a, Sound(a), NEW s \in Lent(a), D3D11,
         NEW b, b = Release([a EXCEPT !.live = @ \ {s}])
  PROVE  /\ Sound(b)
         /\ b.live = a.live \ {s}
         /\ Lent(b) = Lent(a) \ {s}
         /\ Surplus(b) = Surplus(a)
  <1>1. /\ b.free = a.free /\ b.live = a.live \ {s} /\ b.refs = a.refs - 1
        /\ b.committed = a.committed /\ b.pending = a.pending
        /\ b \in Allocator
    <2> DEFINE c == [a EXCEPT !.live = @ \ {s}]
    <2>1. /\ a \in Allocator /\ a.live \ {s} \in SUBSET Sample /\ a.refs - 1 \in Int
      BY DEF Sound, Allocator
    <2>2. /\ c.free = a.free /\ c.live = a.live \ {s} /\ c.refs = a.refs
          /\ c.committed = a.committed /\ c.pending = a.pending /\ c \in Allocator
      BY <2>1 DEF Allocator
    <2>3. b = [c EXCEPT !.refs = @ - 1]  BY DEF Release
    <2> HIDE DEF c
    <2> QED  BY <2>1, <2>2, <2>3 DEF Allocator
  <1>2. /\ IsFiniteSet(b.live) /\ Cardinality(b.live) = Cardinality(a.live) - 1
        /\ Cardinality(a.live) \in Nat /\ a.refs \in Int
    <2>1. IsFiniteSet(a.live) /\ s \in a.live /\ a.refs \in Int  BY DEF Sound, Lent, Allocator
    <2>2. /\ IsFiniteSet(a.live \ {s}) /\ Cardinality(a.live) \in Nat
          /\ Cardinality(a.live \ {s}) = Cardinality(a.live) - 1
      BY <2>1, FS_RemoveElement, FS_CardinalityType
    <2> QED  BY <1>1, <2>1, <2>2
  <1>3. Surplus(b) = Surplus(a)
    BY <1>1, <1>2 DEF Surplus, CommitRef, RefsOf
  <1> QED  BY <1>1, <1>2, <1>3 DEF Sound, Lent

\* A sample that GetBuffer takes is lent.
LEMMA TakeFacts ==
  ASSUME NEW a, Sound(a), NEW s \in a.free,
         NEW b, b = [a EXCEPT !.free = @ \ {s}]
  PROVE  /\ Sound(b)
         /\ b.live = a.live
         /\ Lent(b) = Lent(a) \cup {s}
         /\ Surplus(b) = Surplus(a)
  BY DEF Sound, Lent, Allocator, Surplus, CommitRef

-----------------------------------------------------------------------------
(***************************************************************************)
(* The inductive invariant, and what it says of the allocator.             *)
(***************************************************************************)
IInv == TypeOK /\ Conserved /\ RefsMatch

LEMMA InvFacts ==
  ASSUME IInv
  PROVE  /\ Sound(al)
         /\ Lent(al) = Held
         /\ Surplus(al) = Owners
         /\ Owners \in Int
  <1> USE DEF IInv
  <1>1. Sound(al) /\ Lent(al) = Held  BY DEF TypeOK, Conserved, Sound, Lent
  <1>2. Owners \in Int  BY DEF Owners
  <1>3. RefsOf(Cardinality(al.live)) \in Nat
    BY <1>1, FS_CardinalityType, RefsFacts DEF Sound
  <1>4. Surplus(al) = Owners
    BY <1>2, <1>3 DEF RefsMatch, Surplus, CommitRef
  <1> QED  BY <1>1, <1>2, <1>4

\* What a step has to show: the samples lent are those held, in one place each,
\* and the surplus is what the owners account for.
LEMMA Reestablished ==
  ASSUME IInv, backend' = backend, Sound(al'), Lent(al') = Held', Surplus(al') = Owners',
         \A t \in Threads : returning'[t] \cap (dec' \cup ren') = {},
         \A t, u \in Threads : t # u => returning'[t] \cap returning'[u] = {}
  PROVE  Conserved' /\ RefsMatch'
  <1>1. al'.free \subseteq al'.live  BY DEF Sound
  <1>2. Conserved'
    BY <1>1 DEF Conserved, Lent
  <1>3. /\ RefsOf(Cardinality(al'.live)) = (RefsOf(Cardinality(al.live)))'
        /\ RefsOf(Cardinality(al'.live)) \in Nat
        /\ al'.refs \in Int
    <2>1. IsFiniteSet(al'.live) /\ al'.refs \in Int  BY DEF Sound, Allocator
    <2>2. Cardinality(al'.live) \in Nat  BY <2>1, FS_CardinalityType
    <2>3. RefsOf(Cardinality(al'.live)) = (RefsOf(Cardinality(al.live)))'  BY DEF RefsOf, D3D11
    <2> QED  BY <2>1, <2>2, <2>3, RefsFacts
  <1>4. Owners' \in Int  BY DEF Owners
  <1>5. RefsMatch'
    <2>1. al'.refs - CommitRef(al') - RefsOf(Cardinality(al'.live)) = Owners'  BY DEF Surplus
    <2>2. CommitRef(al') = IF al'.committed \/ al'.pending THEN 1 ELSE 0  BY DEF CommitRef
    <2>3. al'.refs = Owners' + CommitRef(al') + RefsOf(Cardinality(al'.live))
      BY <1>3, <1>4, <2>1, <2>2
    <2> QED  BY <1>3, <2>2, <2>3 DEF RefsMatch
  <1> QED  BY <1>2, <1>5

\* When nobody's hold changes and the allocator only settles.
LEMMA HeldKept ==
  ASSUME IInv, backend' = backend, Settles(al, al'), dec' = dec, ren' = ren, returning' = returning,
         Owners' = Owners
  PROVE  /\ Conserved' /\ RefsMatch' /\ Sound(al')
         /\ dec' \cup ren' \cup UNION {returning'[t] : t \in Threads} \subseteq al'.live
  <1>1. Sound(al') /\ Lent(al') = Held' /\ Surplus(al') = Owners'
    BY InvFacts DEF Settles, Held
  <1>2. /\ \A t \in Threads : returning'[t] \cap (dec' \cup ren') = {}
        /\ \A t, u \in Threads : t # u => returning'[t] \cap returning'[u] = {}
    BY DEF IInv, Conserved
  <1> QED  BY <1>1, <1>2, Reestablished DEF Lent, Held

-----------------------------------------------------------------------------
(***************************************************************************)
(* Commit.                                                                 *)
(***************************************************************************)
\* What Alloc, and so Commit, may do to the allocator and the codec's samples.
Acceptable(o) ==
    /\ o.ready \in BOOLEAN
    /\ o.gen \in gen .. MaxGens /\ o.pool \in 0 .. o.gen
    /\ o.dec \subseteq dec
    /\ Sound(o.al)
    /\ \A s \in o.al.live : s.gen \in 1 .. o.gen
    /\ Lent(o.al) = o.dec \cup ren \cup UNION {returning[t] : t \in Threads}
    /\ Surplus(o.al) = Surplus(al)

LEMMA AcceptableFacts ==
  ASSUME NEW ok \in BOOLEAN, NEW a, NEW d, NEW g, NEW p, NEW r \in BOOLEAN,
         g \in gen .. MaxGens, p \in 0 .. g, d \subseteq dec,
         Sound(a), \A s \in a.live : s.gen \in 1 .. g,
         Lent(a) = d \cup ren \cup UNION {returning[t] : t \in Threads},
         Surplus(a) = Surplus(al)
  PROVE  Acceptable(Outcome(ok, a, d, g, p, r))
  BY DEF Acceptable, Outcome

LEMMA AllocD3D11Facts ==
  ASSUME IInv, ~al.committed, ~al.pending, D3D11, NEW o \in AllocD3D11(al)
  PROVE  Acceptable(o) /\ ~o.al.committed /\ ~o.al.pending
  <1> DEFINE b == Free(al)
  <1>1. /\ Settles(al, b) /\ b.free = {} /\ ~b.committed /\ ~b.pending
    BY InvFacts, FreeFacts
  <1>2. /\ Lent(b) = dec \cup ren \cup UNION {returning[t] : t \in Threads}
        /\ Surplus(b) = Surplus(al) /\ Sound(b)
        /\ \A s \in b.live : s.gen \in 1 .. gen
    BY <1>1, InvFacts DEF Settles, Held, IInv, TypeOK
  <1>3. gen \in gen .. MaxGens /\ pool \in 0 .. gen /\ ready \in BOOLEAN
    BY GensAssumption DEF IInv, TypeOK
  <1> HIDE DEF b
  <1>4. ASSUME NEW ok \in BOOLEAN, o = Outcome(ok, b, dec, gen, pool, ready)
        PROVE  Acceptable(o) /\ ~o.al.committed /\ ~o.al.pending
    <2>1. Acceptable(Outcome(ok, b, dec, gen, pool, ready))
      BY <1>2, <1>3, AcceptableFacts
    <2>2. o.al = b  BY <1>4 DEF Outcome
    <2> QED  BY <1>1, <1>4, <2>1, <2>2
  <1>5. ASSUME pool # 0, NEW c \in Addresses, \A s \in b.live : s.gen # pool,
               o = Outcome(TRUE, Filled(b, pool, c), dec, gen, pool, ready)
        PROVE  Acceptable(o) /\ ~o.al.committed /\ ~o.al.pending
    <2> DEFINE f == Filled(b, pool, c)
    <2>1. pool \in 1 .. MaxGens /\ c \in Nat
      BY <1>5, AddressAssumption, GensAssumption DEF IInv, TypeOK
    <2>2. PoolSamples(pool, c) \cap b.live = {}
      BY <1>5 DEF PoolSamples
    <2>3. /\ Sound(f) /\ f.live = b.live \cup PoolSamples(pool, c)
          /\ Lent(f) = Lent(b) /\ Surplus(f) = Surplus(b)
          /\ f.committed = b.committed /\ f.pending = b.pending
      BY <1>1, <1>2, <2>1, <2>2, FilledFacts
    <2>4. \A s \in f.live : s.gen \in 1 .. gen
      <3>1. pool \in 1 .. gen  BY <1>3, <1>5 DEF IInv, TypeOK
      <3>2. \A s \in PoolSamples(pool, c) : s.gen = pool  BY DEF PoolSamples
      <3> HIDE DEF f
      <3> QED  BY <1>2, <2>3, <3>1, <3>2
    <2> HIDE DEF f
    <2>5. Acceptable(Outcome(TRUE, f, dec, gen, pool, ready))
      BY <1>2, <1>3, <2>3, <2>4, AcceptableFacts
    <2>6. o = Outcome(TRUE, f, dec, gen, pool, ready)  BY <1>5 DEF f
    <2>7. o.al = f  BY <2>6 DEF Outcome
    <2> QED  BY <1>1, <2>3, <2>5, <2>6, <2>7
  <1>6. \/ \E ok \in BOOLEAN : o = Outcome(ok, b, dec, gen, pool, ready)
        \/ /\ pool # 0
           /\ \E c \in Addresses : /\ \A s \in b.live : s.gen # pool
                                   /\ o = Outcome(TRUE, Filled(b, pool, c), dec, gen, pool, ready)
    BY DEF AllocD3D11, b
  <1> QED  BY <1>4, <1>5, <1>6

LEMMA FlushedFacts ==
  ASSUME IInv, ~D3D11, NEW a, Sound(a), Lent(a) = Held,
         NEW b, b = [a EXCEPT !.free = FlushedFree(a)]
  PROVE  /\ Sound(b) /\ b.live = a.live /\ Surplus(b) = Surplus(a)
         /\ b.committed = a.committed /\ b.pending = a.pending
         /\ Lent(b) = FlushedDec \cup ren \cup UNION {returning[t] : t \in Threads}
  <1>1. /\ a \in Allocator /\ Sound(a) /\ a.free \subseteq a.live /\ Lent(a) = Held
    BY DEF Sound
  <1>2. dec \subseteq a.live /\ dec \cap a.free = {}
    BY <1>1 DEF Lent, Held
  <1>3. FlushedFree(a) \subseteq a.live
    BY <1>1, <1>2 DEF FlushedFree
  <1>4. /\ b.live = a.live /\ b.free = FlushedFree(a) /\ b.refs = a.refs
        /\ b.committed = a.committed /\ b.pending = a.pending /\ b \in Allocator
    BY <1>1, <1>3 DEF Allocator
  <1>5. Sound(b)  BY <1>1, <1>3, <1>4 DEF Sound
  <1>6. Surplus(b) = Surplus(a)  BY <1>4 DEF Surplus, CommitRef
  <1>7. Lent(b) = FlushedDec \cup ren \cup UNION {returning[t] : t \in Threads}
    <2> DEFINE back == UNION {returning[t] : t \in Threads}
    <2>1. \A t \in Threads : returning[t] \cap (dec \cup ren) = {}  BY DEF IInv, Conserved
    <2>2. ASSUME NEW s \in back PROVE s \notin dec
      <3>1. PICK t \in Threads : s \in returning[t]  OBVIOUS
      <3> QED  BY <2>1, <3>1
    <2>3. a.live \ a.free = dec \cup ren \cup back
      BY <1>1 DEF Lent, Held
    <2> HIDE DEF back
    <2>4. CASE ready
      BY <1>1, <1>4, <2>2, <2>3, <2>4 DEF Lent, FlushedFree, FlushedDec, back
    <2>5. CASE ~ready
      <3>1. FlushedFree(a) = a.free /\ FlushedDec = dec
        BY <2>5 DEF FlushedFree, FlushedDec
      <3> QED  BY <1>4, <2>3, <3>1 DEF Lent, back
    <2> QED  BY <2>4, <2>5
  <1> QED  BY <1>4, <1>5, <1>6, <1>7

LEMMA AllocDXVA2Facts ==
  ASSUME IInv, ~al.committed, ~al.pending, ~D3D11, NEW o \in AllocDXVA2(al)
  PROVE  Acceptable(o) /\ ~o.al.committed /\ ~o.al.pending
  <1> DEFINE a == [al EXCEPT !.free = FlushedFree(al)]
             b == Free(a)
  <1>1. Sound(al) /\ Lent(al) = Held  BY InvFacts
  <1>2. /\ Sound(a) /\ a.live = al.live /\ Surplus(a) = Surplus(al)
        /\ ~a.committed /\ ~a.pending
        /\ Lent(a) = FlushedDec \cup ren \cup UNION {returning[t] : t \in Threads}
    BY <1>1, FlushedFacts
  <1> HIDE DEF a
  <1>3. Settles(a, b) /\ b.free = {} /\ ~b.committed /\ ~b.pending
    BY <1>2, FreeFacts
  <1>4. /\ Lent(b) = FlushedDec \cup ren \cup UNION {returning[t] : t \in Threads}
        /\ Surplus(b) = Surplus(al) /\ Sound(b)
        /\ \A s \in b.live : s.gen \in 1 .. gen
        /\ FlushedDec \subseteq dec
    BY <1>2, <1>3 DEF Settles, IInv, TypeOK, FlushedDec
  <1>5. gen \in gen .. MaxGens /\ pool \in 0 .. gen /\ ready \in BOOLEAN
    BY GensAssumption DEF IInv, TypeOK
  <1>6. /\ Lent(al) = dec \cup ren \cup UNION {returning[t] : t \in Threads}
        /\ Sound(al) /\ \A s \in al.live : s.gen \in 1 .. gen
    BY InvFacts DEF Held, IInv, TypeOK
  <1> HIDE DEF b
  <1>7. CASE o = Outcome(FALSE, al, dec, gen, pool, ready)
    <2>1. Acceptable(Outcome(FALSE, al, dec, gen, pool, ready))
      BY <1>5, <1>6, AcceptableFacts
    <2> QED  BY <1>7, <2>1 DEF Outcome
  <1>8. ASSUME NEW r \in BOOLEAN, o = Outcome(FALSE, b, FlushedDec, gen, pool, r)
        PROVE  Acceptable(o) /\ ~o.al.committed /\ ~o.al.pending
    <2>1. Acceptable(Outcome(FALSE, b, FlushedDec, gen, pool, r))
      BY <1>4, <1>5, AcceptableFacts
    <2>2. o.al = b  BY <1>8 DEF Outcome
    <2> QED  BY <1>3, <1>8, <2>1, <2>2
  <1>9. ASSUME NEW g \in {gen + 1} \cap 1 .. MaxGens,
               o = Outcome(TRUE, Filled(b, g, g), FlushedDec, g, g, TRUE)
        PROVE  Acceptable(o) /\ ~o.al.committed /\ ~o.al.pending
    <2> DEFINE f == Filled(b, g, g)
    <2>1. g = gen + 1 /\ g \in 1 .. MaxGens /\ g \in Nat /\ gen \in Nat
      BY GensAssumption DEF IInv, TypeOK
    <2>2. PoolSamples(g, g) \cap b.live = {}
      <3>1. \A s \in b.live : s.gen # g  BY <1>4, <2>1
      <3> QED  BY <3>1 DEF PoolSamples
    <2>3. /\ Sound(f) /\ f.live = b.live \cup PoolSamples(g, g)
          /\ Lent(f) = Lent(b) /\ Surplus(f) = Surplus(b)
          /\ f.committed = b.committed /\ f.pending = b.pending
      BY <1>3, <1>4, <2>1, <2>2, FilledFacts
    <2> HIDE DEF f
    <2>4. \A s \in f.live : s.gen \in 1 .. g
      <3>1. \A s \in PoolSamples(g, g) : s.gen = g  BY DEF PoolSamples
      <3> QED  BY <1>4, <2>1, <2>3, <3>1
    <2>5. g \in gen .. MaxGens /\ g \in 0 .. g  BY <2>1, GensAssumption
    <2>6. Acceptable(Outcome(TRUE, f, FlushedDec, g, g, TRUE))
      BY <1>4, <2>3, <2>4, <2>5, AcceptableFacts
    <2>7. o = Outcome(TRUE, f, FlushedDec, g, g, TRUE)  BY <1>9 DEF f
    <2>8. o.al = f  BY <2>7 DEF Outcome
    <2> QED  BY <1>3, <2>3, <2>6, <2>7, <2>8
  <1>10. \/ o = Outcome(FALSE, al, dec, gen, pool, ready)
         \/ \E r \in BOOLEAN : o = Outcome(FALSE, b, FlushedDec, gen, pool, r)
         \/ \E g \in {gen + 1} \cap 1 .. MaxGens :
               o = Outcome(TRUE, Filled(b, g, g), FlushedDec, g, g, TRUE)
    BY <1>5 DEF AllocDXVA2, a, b
  <1> QED  BY <1>7, <1>8, <1>9, <1>10

LEMMA CommitFacts ==
  ASSUME IInv, NEW o \in CommitOutcomes
  PROVE  Acceptable(o)
  <1>1. gen \in gen .. MaxGens /\ pool \in 0 .. gen /\ ready \in BOOLEAN
    BY GensAssumption DEF IInv, TypeOK
  <1>2. /\ Lent(al) = dec \cup ren \cup UNION {returning[t] : t \in Threads}
        /\ Sound(al) /\ \A s \in al.live : s.gen \in 1 .. gen
    BY InvFacts DEF Held, IInv, TypeOK
  <1>3. CASE al.committed
    <2>1. o = Outcome(TRUE, al, dec, gen, pool, ready)  BY <1>3 DEF CommitOutcomes
    <2> QED  BY <1>1, <1>2, <2>1, AcceptableFacts
  <1>4. CASE ~al.committed /\ al.pending
    <2> DEFINE b == [al EXCEPT !.committed = TRUE, !.pending = FALSE]
    <2>1. o = Outcome(TRUE, b, dec, gen, pool, ready)  BY <1>4 DEF CommitOutcomes
    <2>2. /\ b.live = al.live /\ b.free = al.free /\ b.refs = al.refs
          /\ b.committed /\ ~b.pending /\ b \in Allocator
      BY <1>2 DEF Sound, Allocator
    <2> HIDE DEF b
    <2>3. Sound(b) /\ Lent(b) = Lent(al) /\ Surplus(b) = Surplus(al)
      BY <1>2, <1>4, <2>2 DEF Sound, Lent, Surplus, CommitRef
    <2>4. \A s \in b.live : s.gen \in 1 .. gen  BY <1>2, <2>2
    <2> QED  BY <1>1, <1>2, <2>1, <2>3, <2>4, AcceptableFacts
  <1>5. CASE ~al.committed /\ ~al.pending
    <2>1. PICK p \in (IF D3D11 THEN AllocD3D11(al) ELSE AllocDXVA2(al)) : o = Committed(p)
      BY <1>5 DEF CommitOutcomes
    <2>2. Acceptable(p) /\ ~p.al.committed /\ ~p.al.pending
      BY <1>5, AllocD3D11Facts, AllocDXVA2Facts
    <2>3. DOMAIN p = {"ok", "al", "dec", "gen", "pool", "ready"}
      BY DEF AllocD3D11, AllocDXVA2, Outcome
    <2>4. CASE ~p.ok
      <3>1. /\ o.al = p.al /\ o.dec = p.dec /\ o.gen = p.gen /\ o.pool = p.pool /\ o.ready = p.ready
        BY <2>1, <2>4 DEF Committed
      <3> QED  BY <2>2, <3>1 DEF Acceptable
    <2>5. CASE p.ok
      <3> DEFINE b == [p.al EXCEPT !.committed = TRUE, !.refs = @ + 1]
      <3>0. o = [p EXCEPT !.al = b]  BY <2>1, <2>5 DEF Committed
      <3>1. /\ o.al = b /\ o.dec = p.dec /\ o.gen = p.gen /\ o.pool = p.pool /\ o.ready = p.ready
        <4> HIDE DEF b
        <4> QED  BY <2>3, <3>0
      <3>2. p.al \in Allocator /\ p.al.refs + 1 \in Int  BY <2>2 DEF Acceptable, Sound, Allocator
      <3>3. /\ b.live = p.al.live /\ b.free = p.al.free /\ b.refs = p.al.refs + 1
            /\ b.committed /\ ~b.pending /\ b \in Allocator
        BY <2>2, <3>2 DEF Allocator
      <3> HIDE DEF b
      <3>4. Sound(b) /\ Lent(b) = Lent(p.al)
        BY <2>2, <3>3 DEF Acceptable, Sound, Lent
      <3>5. RefsOf(Cardinality(p.al.live)) \in Nat
        BY <2>2, FS_CardinalityType, RefsFacts DEF Acceptable, Sound
      <3>6. Surplus(b) = Surplus(p.al)
        BY <2>2, <3>2, <3>3, <3>5 DEF Surplus, CommitRef, Allocator
      <3> QED  BY <2>2, <3>1, <3>3, <3>4, <3>6 DEF Acceptable
    <2> QED  BY <2>4, <2>5
  <1> QED  BY <1>3, <1>4, <1>5

-----------------------------------------------------------------------------
(***************************************************************************)
(* The kinds of step.                                                      *)
(***************************************************************************)
\* The types of what the allocator does not depend on.
Numbers == gen \in 0 .. MaxGens /\ pool \in 0 .. gen
Pipes == worker \in {"none", "idle", "get"} /\ queued \in 0 .. QueueMax
Places ==
    /\ mode \in {"hw", "failed", "sw", "reinit"}
    /\ pcS \in {"idle", "decode", "flush", "create", "decommit", "check", "force", "commit", "get",
                "join", "push"}
    /\ why \in {"buffer", "format", "segment", "type", "fallback"}
    /\ app \in {"running", "stopping", "stopped", "disconnected", "released"}
    /\ flushing \in {"no", "begin", "end", "codec"}
Flags == ready \in BOOLEAN
Control == Numbers /\ Flags /\ Places /\ Pipes

Back == UNION {returning[t] : t \in Threads}

LEMMA Step ==
  ASSUME IInv, backend' = backend, Control', Sound(al'), Lent(al') = dec' \cup ren' \cup Back',
         Surplus(al') = Owners', \A s \in al'.live : s.gen \in 1 .. gen',
         NEW S, returning' \in [Threads -> AtMostOne(S)],
         \A t \in Threads : returning'[t] \cap (dec' \cup ren') = {},
         \A t, u \in Threads : t # u => returning'[t] \cap returning'[u] = {}
  PROVE  IInv'
  <1>1. Lent(al') = Held'  BY DEF Held, Back
  <1>2. Conserved' /\ RefsMatch'  BY <1>1, Reestablished
  <1>3. dec' \subseteq al'.live /\ ren' \subseteq al'.live  BY DEF Lent
  <1>4. returning' \in [Threads -> AtMostOne(al'.live)]
    <2>1. ASSUME NEW t \in Threads PROVE returning'[t] \in AtMostOne(al'.live)
      <3>1. returning'[t] \subseteq Back'  BY <2>1 DEF Back
      <3>2. returning'[t] \subseteq al'.live  BY <3>1 DEF Lent
      <3> QED  BY <3>2 DEF AtMostOne
    <2> QED  BY <2>1
  <1>5. backend' \in Backends  BY DEF IInv, TypeOK
  <1>6. TypeOK'
    BY <1>3, <1>4, <1>5 DEF TypeOK, Control, Numbers, Flags, Places, Pipes, Sound
  <1> QED  BY <1>2, <1>6 DEF IInv

LEMMA Before ==
  ASSUME IInv
  PROVE  /\ Control /\ Sound(al) /\ Lent(al) = dec \cup ren \cup Back /\ Surplus(al) = Owners
         /\ \A s \in al.live : s.gen \in 1 .. gen
         /\ returning \in [Threads -> AtMostOne(al.live)]
         /\ \A t \in Threads : returning[t] \cap (dec \cup ren) = {}
         /\ \A t, u \in Threads : t # u => returning[t] \cap returning[u] = {}
         /\ gen \in Nat /\ MaxGens \in Nat
  BY InvFacts, GensAssumption DEF IInv, TypeOK, Conserved, Control, Numbers, Flags, Places, Pipes, Held,
      Back

\* A step that leaves the samples and the allocator alone.
LEMMA ControlStep ==
  ASSUME IInv, UNCHANGED <<backend, al, dec, ren, returning, app>>, gen' \in gen .. MaxGens, Control'
  PROVE  IInv'
  <1>1. Back' = Back /\ Owners' = Owners  BY DEF Back, Owners, D3D11
  <1>2. \A s \in al'.live : s.gen \in 1 .. gen'  BY Before
  <1> QED  BY <1>1, <1>2, Before, Step

\* A step in which the allocator only settles.
LEMMA SettleStep ==
  ASSUME IInv, UNCHANGED <<backend, dec, ren, returning, gen>>, Settles(al, al'),
         Owners' = Owners, Control'
  PROVE  IInv'
  <1>1. Back' = Back  BY DEF Back
  <1>2. \A s \in al'.live : s.gen \in 1 .. gen'  BY Before DEF Settles
  <1>3. Sound(al') /\ Lent(al') = dec' \cup ren' \cup Back' /\ Surplus(al') = Owners'
    BY <1>1, Before DEF Settles
  <1> QED  BY <1>2, <1>3, Before, Step

\* A step that commits the allocator.
LEMMA CommitStep ==
  ASSUME IInv, NEW o \in CommitOutcomes, Apply(o), UNCHANGED <<backend, ren, returning>>,
         Owners' = Owners, Places', Pipes'
  PROVE  IInv'
  <1>1. Acceptable(o)  BY CommitFacts
  <1>2. al' = o.al /\ dec' = o.dec /\ gen' = o.gen /\ pool' = o.pool /\ ready' = o.ready
    BY DEF Apply
  <1>3. Control'  BY <1>1, <1>2, Before DEF Acceptable, Control, Numbers, Flags
  <1>4. Back' = Back  BY DEF Back
  <1>5. /\ Sound(al') /\ Lent(al') = dec' \cup ren' \cup Back' /\ Surplus(al') = Owners'
        /\ \A s \in al'.live : s.gen \in 1 .. gen'
    BY <1>1, <1>2, <1>4, Before DEF Acceptable, Back
  <1>6. \A t \in Threads : returning'[t] \cap (dec' \cup ren') = {}
    BY <1>1, <1>2, Before DEF Acceptable
  <1> QED  BY <1>3, <1>5, <1>6, Before, Step

\* A step in which one sample is taken from the free list or given back.
LEMMA SampleStep ==
  ASSUME IInv, UNCHANGED <<backend, gen, app>>, Control', Sound(al'), al'.live \subseteq al.live,
         Surplus(al') = Surplus(al), Lent(al') = dec' \cup ren' \cup Back',
         returning' \in [Threads -> AtMostOne(al.live)],
         \A t \in Threads : returning'[t] \cap (dec' \cup ren') = {},
         \A t, u \in Threads : t # u => returning'[t] \cap returning'[u] = {}
  PROVE  IInv'
  <1>1. Owners' = Owners  BY DEF Owners, D3D11
  <1>2. \A s \in al'.live : s.gen \in 1 .. gen'  BY Before
  <1> QED  BY <1>1, <1>2, Before, Step

-----------------------------------------------------------------------------
(***************************************************************************)
(* The last reference to a sample goes: s is held by nobody else.          *)
(***************************************************************************)
LEMMA LastReleaseStep ==
  ASSUME IInv, NEW t \in Threads, NEW s \in dec \cup ren, returning[t] = {}, LastRelease(t, s),
         UNCHANGED <<backend, gen, app>>, Control',
         dec' \cup ren' = (dec \cup ren) \ {s}
  PROVE  IInv'
  <1>1. s \in Lent(al) /\ s \in al.live /\ \A u \in Threads : s \notin returning[u]
    BY Before DEF Lent
  <1>2. \A u \in Threads : returning[u] \cap (dec' \cup ren') = {}
    BY Before
  <1>3. CASE LateSample(s)
    <2>1. D3D11 /\ al' = Release([al EXCEPT !.live = @ \ {s}]) /\ returning' = returning
      BY <1>3 DEF LastRelease, LateSample
    <2>2. /\ Sound(al') /\ al'.live = al.live \ {s} /\ Lent(al') = Lent(al) \ {s}
          /\ Surplus(al') = Surplus(al)
      BY <1>1, <2>1, Before, LateFacts
    <2>3. s \notin Back /\ Back' = Back  BY <1>1, <2>1 DEF Back
    <2>4. Lent(al') = dec' \cup ren' \cup Back'  BY <2>2, <2>3, Before
    <2> QED  BY <1>2, <2>1, <2>2, <2>4, Before, SampleStep
  <1>4. CASE ~LateSample(s)
    <2>1. al' = al /\ returning' = [returning EXCEPT ![t] = {s}]
      BY <1>4 DEF LastRelease
    <2>2. Back' = Back \cup {s}
      <3>1. \A u \in Threads : returning'[u] = IF u = t THEN {s} ELSE returning[u]
        BY <2>1, Before
      <3>2. ASSUME NEW x \in Back PROVE x \in Back'
        <4>1. PICK u \in Threads : x \in returning[u]  BY DEF Back
        <4>2. x \in returning'[u]  BY <3>1, <4>1
        <4> QED  BY <4>2 DEF Back
      <3>3. s \in Back'  BY <3>1 DEF Back
      <3>4. ASSUME NEW x \in Back' PROVE x \in Back \cup {s}
        <4>1. PICK u \in Threads : x \in returning'[u]  BY DEF Back
        <4>2. x = s \/ x \in returning[u]  BY <3>1, <4>1
        <4> QED  BY <4>2 DEF Back
      <3> QED  BY <3>2, <3>3, <3>4
    <2>3. Lent(al') = dec' \cup ren' \cup Back'  BY <2>1, <2>2, Before
    <2>4. returning' \in [Threads -> AtMostOne(al.live)]
      BY <1>1, <2>1, Before DEF AtMostOne
    <2>5. \A u \in Threads : returning'[u] \cap (dec' \cup ren') = {}
      BY <1>2, <2>1, Before
    <2>6. \A u, v \in Threads : u # v => returning'[u] \cap returning'[v] = {}
      BY <1>1, <2>1, Before
    <2>7. Sound(al') /\ al'.live \subseteq al.live /\ Surplus(al') = Surplus(al)
      BY <2>1, Before
    <2> QED  BY <2>3, <2>4, <2>5, <2>6, <2>7, SampleStep
  <1> QED  BY <1>3, <1>4

LEMMA DropFrameStep ==
  ASSUME IInv, NEW t \in Threads, NEW s \in dec, DropFrame(t, s)
  PROVE  IInv'
  <1> USE DEF DropFrame, decoderVars, streamVars, appVars
  <1>1. Control'  BY Before DEF Control, Numbers, Flags, Places, Pipes, pipeVars
  <1>2. CASE s \in ren
    <2>1. /\ UNCHANGED <<backend, al, ren, returning, gen, app>> /\ dec' = dec \ {s}
      BY <1>2
    <2>2. Back' = Back /\ dec' \cup ren' = dec \cup ren  BY <1>2, <2>1 DEF Back
    <2>3. Lent(al') = dec' \cup ren' \cup Back'  BY <2>1, <2>2, Before
    <2> QED  BY <1>1, <2>1, <2>2, <2>3, Before, SampleStep
  <1>3. CASE s \notin ren
    BY <1>1, <1>3, LastReleaseStep
  <1> QED  BY <1>2, <1>3

LEMMA RendererStep ==
  ASSUME IInv, NEW s \in ren, RendererReleases(s)
  PROVE  IInv'
  <1> USE DEF RendererReleases, decoderVars, streamVars, appVars
  <1>1. Control'  BY Before DEF Control, Numbers, Flags, Places, Pipes, pipeVars
  <1>2. CASE s \in dec
    <2>1. /\ UNCHANGED <<backend, al, dec, returning, gen, app>> /\ ren' = ren \ {s}
      BY <1>2
    <2>2. Back' = Back /\ dec' \cup ren' = dec \cup ren  BY <1>2, <2>1 DEF Back
    <2>3. Lent(al') = dec' \cup ren' \cup Back'  BY <2>1, <2>2, Before
    <2> QED  BY <1>1, <2>1, <2>2, <2>3, Before, SampleStep
  <1>3. CASE s \notin dec
    <2>1. "render" \in Threads  BY DEF Threads
    <2> QED  BY <1>1, <1>3, <2>1, LastReleaseStep
  <1> QED  BY <1>2, <1>3

LEMMA ReleaseBufferStep ==
  ASSUME IInv, NEW t \in Threads, ReleaseBuffer(t)
  PROVE  IInv'
  <1>1. PICK s \in returning[t] : al' = Returned(al, s)  BY DEF ReleaseBuffer
  <1>2. /\ returning' = [returning EXCEPT ![t] = {}]
        /\ UNCHANGED <<backend, dec, ren, gen, app>>
    BY DEF ReleaseBuffer, decoderVars, appVars
  <1>3. Control'  BY Before
    DEF Control, Numbers, Flags, Places, Pipes, ReleaseBuffer, decoderVars, streamVars,
        pipeVars, appVars
  <1>4. s \in Lent(al) /\ s \notin dec \cup ren  BY Before DEF Back
  <1>5. /\ Sound(al') /\ al'.live \subseteq al.live /\ Lent(al') = Lent(al) \ {s}
        /\ Surplus(al') = Surplus(al)
    <2>1. Sound(al)  BY Before
    <2>2. /\ Sound(Returned(al, s)) /\ Returned(al, s).live \subseteq al.live
          /\ Lent(Returned(al, s)) = Lent(al) \ {s} /\ Surplus(Returned(al, s)) = Surplus(al)
      BY <1>4, <2>1, ReturnFacts, Zenon
    <2> QED  BY <1>1, <2>2, Zenon
  <1>6. returning[t] = {s}  BY Before DEF AtMostOne
  <1>7. Back' = Back \ {s}
    <2>1. \A u \in Threads : returning'[u] = IF u = t THEN {} ELSE returning[u]
      BY <1>2, Before
    <2>2. ASSUME NEW x \in Back' PROVE x \in Back \ {s}
      <3>1. PICK u \in Threads : x \in returning'[u]  BY DEF Back
      <3>2. u # t /\ x \in returning[u]  BY <2>1, <3>1
      <3>3. x # s  BY <3>2, Before
      <3> QED  BY <3>2, <3>3 DEF Back
    <2>3. ASSUME NEW x \in Back \ {s} PROVE x \in Back'
      <3>1. PICK u \in Threads : x \in returning[u]  BY DEF Back
      <3>2. x \in returning'[u]  BY <1>6, <2>1, <3>1
      <3> QED  BY <3>2 DEF Back
    <2> QED  BY <2>2, <2>3
  <1>8. Lent(al') = dec' \cup ren' \cup Back'  BY <1>2, <1>4, <1>5, <1>7, Before
  <1>9. /\ returning' \in [Threads -> AtMostOne(al.live)]
        /\ \A u \in Threads : returning'[u] \cap (dec' \cup ren') = {}
        /\ \A u, v \in Threads : u # v => returning'[u] \cap returning'[v] = {}
    BY <1>2, Before DEF AtMostOne
  <1> QED  BY <1>2, <1>3, <1>5, <1>8, <1>9, SampleStep

-----------------------------------------------------------------------------
(***************************************************************************)
(* The actions of the streaming thread and of the application.             *)
(***************************************************************************)
LEMMA GetBufferStep ==
  ASSUME IInv, GetBuffer
  PROVE  IInv'
  <1>1. PICK s \in al.free : al' = [al EXCEPT !.free = @ \ {s}] /\ dec' = dec \cup {s}
    BY DEF GetBuffer
  <1>2. UNCHANGED <<backend, ren, returning, gen, app>> /\ Control'
    BY Before DEF GetBuffer, Streaming, Control, Numbers, Flags, Places, Pipes, decoderVars,
      pipeVars, appVars
  <1>3. /\ Sound(al') /\ al'.live = al.live /\ Lent(al') = Lent(al) \cup {s}
        /\ Surplus(al') = Surplus(al)
    BY <1>1, Before, TakeFacts
  <1>4. Back' = Back  BY <1>2 DEF Back
  <1>5. Lent(al') = dec' \cup ren' \cup Back'  BY <1>1, <1>2, <1>3, <1>4, Before
  <1>6. \A t \in Threads : returning'[t] \cap (dec' \cup ren') = {}
    <2>1. s \notin Back  BY <1>1, Before DEF Lent
    <2>2. \A t \in Threads : s \notin returning[t]  BY <2>1 DEF Back
    <2> QED  BY <1>1, <1>2, <2>2, Before
  <1> QED  BY <1>2, <1>3, <1>5, <1>6, Before, SampleStep

LEMMA GetDeliveryBufferStep ==
  ASSUME IInv, GetDeliveryBuffer
  PROVE  IInv'
  <1> DEFINE taken(s) == [al EXCEPT !.free = @ \ {s}]
  <1>1. PICK s \in al.free :
           IF LateSample(s)
           THEN /\ al' = Release([al EXCEPT !.free = @ \ {s}, !.live = @ \ {s}])
                /\ returning' = returning
           ELSE al' = taken(s) /\ returning' = [returning EXCEPT !["worker"] = {s}]
    BY DEF GetDeliveryBuffer
  <1>2. UNCHANGED <<backend, dec, ren, gen, app>> /\ Control'
    BY Before DEF GetDeliveryBuffer, Delivery, Control, Numbers, Flags, Places, Pipes,
      decoderVars, appVars
  <1>3. /\ Sound(taken(s)) /\ taken(s).live = al.live /\ Lent(taken(s)) = Lent(al) \cup {s}
        /\ Surplus(taken(s)) = Surplus(al)
    BY Before, TakeFacts
  <1>4. s \notin Lent(al) /\ s \in al.live /\ \A t \in Threads : s \notin returning[t]
    BY Before DEF Lent, Back, Sound
  <1>5. CASE LateSample(s)
    <2>1. al' = Release([taken(s) EXCEPT !.live = @ \ {s}])
      BY <1>1, <1>5, Before DEF Sound, Allocator, Release
    <2>2. D3D11 /\ s \in Lent(taken(s))  BY <1>3, <1>5 DEF LateSample
    <2> HIDE DEF taken
    <2>3. /\ Sound(al') /\ al'.live = al.live \ {s} /\ Lent(al') = Lent(al)
          /\ Surplus(al') = Surplus(al)
      BY <1>3, <1>4, <2>1, <2>2, LateFacts
    <2>4. Back' = Back /\ returning' = returning  BY <1>1, <1>5 DEF Back
    <2>5. Lent(al') = dec' \cup ren' \cup Back'  BY <1>2, <2>3, <2>4, Before
    <2> QED  BY <1>2, <2>3, <2>4, <2>5, Before, SampleStep
  <1>6. CASE ~LateSample(s)
    <2>1. al' = taken(s) /\ returning' = [returning EXCEPT !["worker"] = {s}]
      BY <1>1, <1>6
    <2> HIDE DEF taken
    <2>2. "worker" \in Threads /\ returning["worker"] = {}
      BY DEF Threads, GetDeliveryBuffer, Delivery
    <2>3. Back' = Back \cup {s}
      <3>1. \A u \in Threads : returning'[u] = IF u = "worker" THEN {s} ELSE returning[u]
        BY <2>1, Before
      <3>2. ASSUME NEW x \in Back PROVE x \in Back'
        <4>1. PICK u \in Threads : x \in returning[u]  BY DEF Back
        <4>2. x \in returning'[u]  BY <2>2, <3>1, <4>1
        <4> QED  BY <4>2 DEF Back
      <3>3. s \in Back'  BY <2>2, <3>1 DEF Back
      <3>4. ASSUME NEW x \in Back' PROVE x \in Back \cup {s}
        <4>1. PICK u \in Threads : x \in returning'[u]  BY DEF Back
        <4>2. x = s \/ x \in returning[u]  BY <3>1, <4>1
        <4> QED  BY <4>2 DEF Back
      <3> QED  BY <3>2, <3>3, <3>4
    <2>4. Lent(al') = dec' \cup ren' \cup Back'  BY <1>2, <1>3, <2>1, <2>3, Before
    <2>5. returning' \in [Threads -> AtMostOne(al.live)]
      BY <1>4, <2>1, Before DEF AtMostOne
    <2>7. \A u, v \in Threads : u # v => returning'[u] \cap returning'[v] = {}
      BY <1>4, <2>1, Before
    <2>6. \A u \in Threads : returning'[u] \cap (dec' \cup ren') = {}
      <3>1. s \notin dec \cup ren  BY <1>4, Before
      <3> QED  BY <1>2, <2>1, <3>1, Before
    <2> QED  BY <1>2, <1>3, <2>1, <2>4, <2>5, <2>6, <2>7, SampleStep
  <1> QED  BY <1>5, <1>6

LEMMA DeliverFrameStep ==
  ASSUME IInv, DeliverFrame
  PROVE  IInv'
  <1>1. PICK s \in dec : ren' = ren \cup {s}  BY DEF DeliverFrame
  <1>2. UNCHANGED <<backend, al, dec, returning, gen, app>> /\ Control'
    BY Before DEF DeliverFrame, Control, Numbers, Flags, Places, Pipes, decoderVars,
      streamVars, pipeVars, appVars
  <1>3. Back' = Back /\ dec' \cup ren' = dec \cup ren  BY <1>1, <1>2 DEF Back
  <1>4. Lent(al') = dec' \cup ren' \cup Back'  BY <1>2, <1>3, Before
  <1> QED  BY <1>2, <1>3, <1>4, Before, SampleStep

\* The pins give their two references up; then the decoder gives up its own.
LEMMA DisconnectStep ==
  ASSUME IInv, Disconnect
  PROVE  IInv'
  <1> DEFINE b == Decommitted(al)
             a == [b EXCEPT !.refs = @ - 2]
  <1>1. /\ app = "stopped" /\ app' = "disconnected"
        /\ UNCHANGED <<backend, ren, returning, gen>> /\ Control'
    BY Before DEF Disconnect, Application, streamVars, pipeVars,
      Control, Numbers, Flags, Places, Pipes
  <1>2. Settles(al, b)  BY Before, DecommitFacts
  <1>3. Sound(b) /\ b \in Allocator /\ b.refs \in Int /\ b.refs - 2 \in Int
    BY <1>2 DEF Settles, Sound, Allocator
  <1>4. /\ a.live = b.live /\ a.free = b.free /\ a.refs = b.refs - 2
        /\ a.committed = b.committed /\ a.pending = b.pending /\ a \in Allocator
    <2> HIDE DEF b
    <2> QED  BY <1>3 DEF Allocator
  <1>5. RefsOf(Cardinality(b.live)) \in Nat
    BY <1>3, FS_CardinalityType, RefsFacts DEF Sound
  <1> HIDE DEF a, b
  <1>6. Sound(a) /\ Lent(a) = Lent(al) /\ a.live \subseteq al.live
    BY <1>2, <1>3, <1>4 DEF Sound, Lent, Settles
  <1>7. Surplus(a) = Owners'
    <2>1. Surplus(a) = Surplus(b) - 2  BY <1>3, <1>4, <1>5 DEF Surplus, CommitRef
    <2>2. Surplus(b) = Owners  BY <1>2, Before DEF Settles
    <2>3. Owners' = Owners - 2  BY <1>1 DEF Owners, D3D11
    <2> QED  BY <2>1, <2>2, <2>3
  <1>8. Back' = Back  BY <1>1 DEF Back
  <1>9. CASE D3D11
    <2>1. al' = a /\ dec' = dec  BY <1>9 DEF Disconnect, a, b
    <2>2. Lent(al') = dec' \cup ren' \cup Back'  BY <1>1, <1>6, <1>8, <2>1, Before
    <2>3. \A s \in al'.live : s.gen \in 1 .. gen'  BY <1>1, <1>6, <2>1, Before
    <2> QED  BY <1>1, <1>6, <1>7, <2>1, <2>2, <2>3, Before, Step
  <1>10. CASE ~D3D11
    <2> DEFINE f == [a EXCEPT !.free = FlushedFree(a)]
    <2>1. al' = Free(f) /\ dec' = FlushedDec  BY <1>10 DEF Disconnect, a, b
    <2>2. /\ Sound(f) /\ f.live = a.live /\ Surplus(f) = Surplus(a)
          /\ Lent(f) = FlushedDec \cup ren \cup Back
      BY <1>6, <1>10, InvFacts, FlushedFacts DEF Back
    <2> HIDE DEF f
    <2>3. Settles(f, Free(f))  BY <2>2, FreeFacts
    <2>4. Sound(al') /\ Surplus(al') = Owners' /\ Lent(al') = dec' \cup ren' \cup Back'
      BY <1>1, <1>7, <1>8, <2>1, <2>2, <2>3 DEF Settles
    <2>5. \A s \in al'.live : s.gen \in 1 .. gen'
      BY <1>1, <1>6, <2>1, <2>2, <2>3, Before DEF Settles
    <2>6. \A t \in Threads : returning'[t] \cap (dec' \cup ren') = {}
      BY <1>1, <2>1, Before DEF FlushedDec
    <2> QED  BY <1>1, <2>4, <2>5, <2>6, Before, Step
  <1> QED  BY <1>9, <1>10

LEMMA DecoderDestructStep ==
  ASSUME IInv, DecoderDestruct
  PROVE  IInv'
  <1>1. /\ app = "disconnected" /\ app' = "released" /\ D3D11
        /\ UNCHANGED <<backend, dec, ren, returning, gen>> /\ Control'
    <2>1. /\ app = "disconnected" /\ app' = "released" /\ D3D11
          /\ UNCHANGED <<backend, dec, ren, returning, gen>>
      BY DEF DecoderDestruct, Application
    <2>2. Numbers'  BY Before DEF Control, DecoderDestruct, Numbers
    <2>3. Flags'
      BY Before, Zenon DEF Control, DecoderDestruct, Application, Flags
    <2>4. Places' /\ Pipes'
      BY Before DEF Control, DecoderDestruct, Application, streamVars, pipeVars, Places, Pipes
    <2> QED  BY <2>1, <2>2, <2>3, <2>4 DEF Control
  <1>2. /\ al' = [al EXCEPT !.refs = @ - 1] /\ al \in Allocator /\ al.refs \in Int
    BY Before DEF DecoderDestruct, Release, Sound, Allocator
  <1>3. /\ al'.live = al.live /\ al'.free = al.free /\ al'.refs = al.refs - 1
        /\ al'.committed = al.committed /\ al'.pending = al.pending /\ al' \in Allocator
    BY <1>2 DEF Allocator
  <1>4. Sound(al') /\ Lent(al') = Lent(al)
    BY <1>3, Before DEF Sound, Lent
  <1>5. RefsOf(Cardinality(al.live)) \in Nat
    BY Before, FS_CardinalityType, RefsFacts DEF Sound
  <1>6. Surplus(al') = Surplus(al) - 1  BY <1>2, <1>3, <1>5 DEF Surplus, CommitRef
  <1>7. Owners' = 0 /\ Owners = 1  BY <1>1 DEF Owners, D3D11
  <1>8. Surplus(al') = Owners'  BY <1>6, <1>7, Before
  <1>9. Lent(al') = dec' \cup ren' \cup Back'  BY <1>1, <1>4, Before DEF Back
  <1> QED  BY <1>1, <1>3, <1>4, <1>8, <1>9, Before, Step

\* What a step of ControlStep leaves alone, and the counter that only grows.
Quiet == UNCHANGED <<backend, al, dec, ren, returning, app>> /\ gen' \in gen .. MaxGens

LEMMA QuietStep ==
  ASSUME IInv, Quiet, Control'
  PROVE  IInv'
  BY ControlStep DEF Quiet

LEMMA StreamingStep ==
  ASSUME IInv, Receive \/ ReceiveBegin \/ NewSegment \/ ReceiveEnd
  PROVE  IInv'
  <1> USE DEF Streaming, decoderVars, streamVars, pipeVars, appVars
  <1>1. CASE ReceiveBegin \/ NewSegment \/ ReceiveEnd
    <2>1. Quiet /\ Numbers' /\ Pipes'
      BY <1>1, Before DEF ReceiveBegin, NewSegment, ReceiveEnd, Quiet, Control, Numbers, Pipes
    <2>2. Flags'
      BY <1>1, Before, Zenon DEF ReceiveBegin, NewSegment, ReceiveEnd, Control, Flags
    <2>3. Places'
      BY <1>1, Before DEF ReceiveBegin, NewSegment, ReceiveEnd, Control, Places
    <2> QED  BY <2>1, <2>2, <2>3, QuietStep DEF Control
  <1>2. CASE NeedBuffer \/ Incompatible \/ CheckDecommit \/ GetBufferFails \/ Fallback
             \/ DecodeSWFrame
    <2>1. Quiet /\ Numbers' /\ Pipes'  BY <1>2, Before
      DEF NeedBuffer, Incompatible, CheckDecommit, GetBufferFails, Fallback, DecodeSWFrame,
          Quiet, Control, Numbers, Pipes
    <2>2. Flags'  BY <1>2, Before, Zenon
      DEF NeedBuffer, Incompatible, CheckDecommit, GetBufferFails, Fallback, DecodeSWFrame,
          Control, Flags
    <2>3. Places'  BY <1>2, Before
      DEF NeedBuffer, Incompatible, CheckDecommit, GetBufferFails, Fallback, DecodeSWFrame,
          Control, Places
    <2> QED  BY <2>1, <2>2, <2>3, QuietStep DEF Control
  <1>3. CASE FlushDone
    <2>1. Quiet /\ Numbers' /\ Pipes'
      BY <1>3, Before DEF FlushDone, Flushed, Quiet, Control, Numbers, Pipes
    <2>2. Flags'  BY <1>3, Before, Zenon DEF FlushDone, Flushed, Control, Flags
    <2>3. Places'  BY <1>3, Before DEF FlushDone, Flushed, Control, Places
    <2> QED  BY <2>1, <2>2, <2>3, QuietStep DEF Control
  <1>4. CASE CreateDecoder
    <2>1. Quiet /\ Numbers' /\ Pipes'
      BY <1>4, Before DEF CreateDecoder, Quiet, Control, Numbers, Pipes
    <2>2. Flags'  BY <1>4, Before, Zenon DEF CreateDecoder, Control, Flags
    <2>3. Places'  BY <1>4, Before DEF CreateDecoder, Control, Places
    <2> QED  BY <2>1, <2>2, <2>3, QuietStep DEF Control
  <1>5. CASE DeliverFrame  BY <1>5, DeliverFrameStep
  <1>6. CASE StreamDropsFrame
    <2>1. "stream" \in Threads  BY DEF Threads
    <2> QED  BY <1>6, <2>1, DropFrameStep DEF StreamDropsFrame
  <1>7. CASE StreamDecommit \/ ForceDecommit
    <2>1. UNCHANGED <<backend, dec, ren, returning, gen, app>> /\ Control'
      BY <1>7, Before
      DEF StreamDecommit, ForceDecommit, Control, Numbers, Flags, Places, Pipes
    <2>2. Settles(al, al')
      BY <1>7, Before, DecommitFacts, ForceFacts DEF StreamDecommit, ForceDecommit
    <2>3. Owners' = Owners  BY <2>1 DEF Owners, D3D11
    <2> QED  BY <2>1, <2>2, <2>3, SettleStep
  <1>8. CASE StreamCommit
    <2>1. PICK o \in CommitOutcomes :
             Apply(o) /\ Streaming("commit", AfterCommit(o.ok)) /\ UNCHANGED why
             /\ mode' = IF ~o.ok /\ ~D3D11 /\ why # "segment" THEN "failed" ELSE mode
      BY <1>8 DEF StreamCommit
    <2>2. Owners' = Owners  BY <2>1 DEF Owners, D3D11
    <2>3. Places'  BY <2>1, Before DEF AfterCommit, Control, Places
    <2>4. Pipes'  BY <2>1, Before DEF Control, Pipes
    <2> QED  BY <2>1, <2>2, <2>3, <2>4, CommitStep
  <1>9. CASE GetBuffer  BY <1>9, GetBufferStep
  <1>10. CASE PushSWFrame
    <2>1. Quiet /\ Numbers' /\ Flags' /\ Places'
      BY <1>10, Before DEF PushSWFrame, Quiet, Control, Numbers, Flags, Places
    <2>2. Pipes'
      BY <1>10, Before, QueueAssumption DEF PushSWFrame, Control, Pipes
    <2> QED  BY <2>1, <2>2, QuietStep DEF Control
  <1> QED
    BY <1>1, <1>2, <1>3, <1>4, <1>5, <1>6, <1>7, <1>8, <1>9, <1>10 DEF Receive

LEMMA WorkerStep ==
  ASSUME IInv, StopSWPipeline \/ SWDeliverThread
  PROVE  IInv'
  <1> USE DEF Delivery, decoderVars, appVars
  <1>1. CASE StopSWPipeline \/ PopSWFrame \/ GetDeliveryBufferFails
    <2>1. Quiet /\ Numbers' /\ Flags' /\ Places'
      BY <1>1, Before
      DEF StopSWPipeline, PopSWFrame, GetDeliveryBufferFails, Quiet, Control, Numbers, Flags,
          Places
    <2>2. Pipes'
      BY <1>1, Before, QueueAssumption
      DEF StopSWPipeline, PopSWFrame, GetDeliveryBufferFails, Control, Pipes
    <2> QED  BY <2>1, <2>2, QuietStep DEF Control
  <1>2. CASE GetDeliveryBuffer  BY <1>2, GetDeliveryBufferStep
  <1> QED  BY <1>1, <1>2 DEF SWDeliverThread

LEMMA ApplicationStep ==
  ASSUME IInv, StopRenderer \/ StopFilter \/ Run \/ Disconnect \/ DecoderDestruct
               \/ BeginFlush \/ EndFlush \/ FlushCodec \/ AppDropsFrame
  PROVE  IInv'
  <1> USE DEF decoderVars, streamVars, pipeVars
  <1>1. CASE StopRenderer \/ StopFilter
    <2>1. /\ UNCHANGED <<backend, dec, ren, returning, gen, pool, pipeVars>>
          /\ app \in {"running", "stopping"} /\ app' \in {"stopping", "stopped"}
      BY <1>1 DEF StopRenderer, StopFilter, Application
    <2>6. Numbers' /\ Pipes'  BY <2>1, Before DEF Control, Numbers, Pipes
    <2>4. Flags'
      BY <1>1, Before, Zenon DEF StopRenderer, StopFilter, Application, Control, Flags
    <2>5. Places'
      BY <1>1, Before DEF StopRenderer, StopFilter, Application, Control, Places
    <2>2. Settles(al, al')
      BY <1>1, Before, DecommitFacts DEF StopRenderer, StopFilter
    <2>3. Owners' = Owners  BY <2>1 DEF Owners, D3D11
    <2> QED  BY <2>1, <2>2, <2>3, <2>4, <2>5, <2>6, SettleStep DEF Control
  <1>2. CASE Run
    <2>1. PICK o \in CommitOutcomes :
             Apply(o) /\ Application("stopped", IF o.ok THEN "running" ELSE "stopped")
      BY <1>2 DEF Run
    <2>2. Owners' = Owners  BY <2>1 DEF Application, Owners, D3D11
    <2>3. Places' /\ Pipes' /\ UNCHANGED <<backend, ren, returning>>
      BY <2>1, Before DEF Application, Control, Places, Pipes
    <2> QED  BY <2>1, <2>2, <2>3, CommitStep
  <1>3. CASE Disconnect  BY <1>3, DisconnectStep
  <1>4. CASE DecoderDestruct  BY <1>4, DecoderDestructStep
  <1>5. CASE BeginFlush \/ EndFlush \/ FlushCodec
    <2>1. Quiet /\ Numbers' /\ Flags' /\ Pipes'
      BY <1>5, Before
      DEF BeginFlush, EndFlush, FlushCodec, Quiet, Control, Numbers, Flags, Pipes
    <2>2. Places'
      BY <1>5, Before DEF BeginFlush, EndFlush, FlushCodec, Control, Places
    <2> QED  BY <2>1, <2>2, QuietStep DEF Control
  <1>6. CASE AppDropsFrame
    <2>1. "app" \in Threads  BY DEF Threads
    <2> QED  BY <1>6, <2>1, DropFrameStep DEF AppDropsFrame
  <1> QED  BY <1>1, <1>2, <1>3, <1>4, <1>5, <1>6

LEMMA StartsWell ==
  ASSUME Init
  PROVE  IInv
  <1> USE DEF Init
  <1>1. Cardinality({}) = 0 /\ IsFiniteSet({})  BY FS_EmptySet
  <1>2. al \in Allocator  BY DEF Allocator, NoCtx
  <1>3. TypeOK
    <2>1. returning \in [Threads -> AtMostOne(al.live)]  BY DEF AtMostOne
    <2>2. ready \in BOOLEAN /\ ~(al.committed /\ al.pending)  OBVIOUS
    <2>4. queued \in 0 .. QueueMax  BY QueueAssumption
    <2>3. /\ gen \in 0 .. MaxGens /\ pool \in 0 .. gen
          /\ IsFiniteSet(al.live) /\ \A s \in al.live : s.gen \in 1 .. gen
      BY <1>1, GensAssumption
    <2> QED  BY <1>2, <2>1, <2>2, <2>3, <2>4 DEF TypeOK
  <1>4. Conserved  BY DEF Conserved, Held
  <1>5. RefsMatch  BY <1>1 DEF RefsMatch, RefsOf, Owners, D3D11
  <1> QED  BY <1>3, <1>4, <1>5 DEF IInv

LEMMA StaysWell == IInv /\ [Next]_vars => IInv'
  <1> SUFFICES ASSUME IInv, [Next]_vars PROVE IInv'  OBVIOUS
  <1>1. CASE UNCHANGED vars
    <2>1. Quiet  BY <1>1, Before DEF vars, Control, Numbers, Quiet
    <2>2. Control'
      BY <1>1, Before DEF vars, Control, Numbers, Flags, Places, Pipes
    <2> QED  BY <2>1, <2>2, QuietStep
  <1>2. CASE \E s \in ren : RendererReleases(s)  BY <1>2, RendererStep
  <1>3. CASE \E t \in Threads : ReleaseBuffer(t)  BY <1>3, ReleaseBufferStep
  <1>4. CASE ReceiveBegin \/ NewSegment \/ ReceiveEnd \/ Receive  BY <1>4, StreamingStep
  <1>5. CASE StopRenderer \/ StopFilter \/ Run \/ Disconnect \/ DecoderDestruct
             \/ BeginFlush \/ EndFlush \/ FlushCodec \/ AppDropsFrame
    BY <1>5, ApplicationStep
  <1>6. CASE StopSWPipeline \/ SWDeliverThread  BY <1>6, WorkerStep
  <1> QED  BY <1>1, <1>2, <1>3, <1>4, <1>5, <1>6 DEF Next

LEMMA Invariance == Spec => []IInv
  BY StartsWell, StaysWell, PTL DEF Spec

-----------------------------------------------------------------------------
(***************************************************************************)
(* The theorems.                                                           *)
(***************************************************************************)
\* The types, with no sample held that was deleted and no decommit in progress
\* while the allocator is committed (CD3D11SurfaceAllocator, CVideoDecDXVAAllocator).
THEOREM TypeCorrect == Spec => []TypeOK
  BY Invariance, PTL DEF IInv

\* No decommit, forced or late release loses a sample or lends it twice.
THEOREM SamplesConserved == Spec => []Conserved
  BY Invariance, PTL DEF IInv

\* The allocator's reference count is what its owners, the commit and the
\* samples account for, so that no decommit is completed twice.
THEOREM ReferencesMatch == Spec => []RefsMatch
  BY Invariance, PTL DEF IInv

\* A D3D11 allocator outlives every sample that somebody holds.
THEOREM AllocatorOutlives == Spec => []AllocatorOutlivesSamples
  <1>1. IInv => AllocatorOutlivesSamples
    <2> SUFFICES ASSUME IInv, D3D11, Held # {} PROVE al.refs > 0
      BY DEF AllocatorOutlivesSamples
    <2>1. Held \subseteq al.live /\ IsFiniteSet(al.live)
      BY DEF IInv, Conserved, TypeOK
    <2>2. Cardinality(al.live) \in Nat /\ Cardinality(al.live) # 0
      BY <2>1, FS_CardinalityType, FS_EmptySet
    <2>3. Owners \in Nat  BY DEF Owners
    <2> QED  BY <2>2, <2>3 DEF IInv, RefsMatch, RefsOf
  <1> QED  BY <1>1, Invariance, PTL
=============================================================================
