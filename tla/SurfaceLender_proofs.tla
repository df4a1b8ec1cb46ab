------------------------- MODULE SurfaceLender_proofs -------------------------
(***************************************************************************)
(* SurfaceAllocator implements SampleLender: for both decoders and every   *)
(* pool size, each step of the four threads is a step of the lender or     *)
(* leaves it as it is.                                                     *)
(***************************************************************************)
EXTENDS SurfaceAllocator_proofs

\* What the lender sees of the allocator does not change.
SameTo(a, b) == b.committed = a.committed /\ b.free = a.free /\ b.live = a.live /\ b.ctx = a.ctx
Emptied(b) == b.free = {} /\ b.ctx = NoCtx

\* The allocator is decommitted now; what is free stays so or is freed.
Shut(a, b) ==
    /\ ~b.committed
    /\ Emptied(b) \/ (b.free = a.free /\ b.live = a.live /\ b.ctx = a.ctx)

-----------------------------------------------------------------------------
(***************************************************************************)
(* The operations of the allocator.                                        *)
(***************************************************************************)
LEMMA FreeEmpties ==
  ASSUME NEW a, Sound(a)
  PROVE  Emptied(Free(a)) /\ Free(a).committed = a.committed /\ Sound(Free(a))
  <1>1. Free(a).ctx = NoCtx  BY DEF Free, Sound, Allocator
  <1> QED  BY <1>1, FreeFacts DEF Emptied, Settles

LEMMA ReleaseEmpties ==
  ASSUME NEW a, Sound(a), ~a.committed
  PROVE  Emptied(Release(Free(a))) /\ ~Release(Free(a)).committed
  <1> DEFINE f == Free(a)
             r == Release(f)
  <1>1. Emptied(f) /\ ~f.committed /\ Sound(f)  BY FreeEmpties
  <1>2. r.free = f.free /\ r.ctx = f.ctx /\ r.committed = f.committed
    <2> HIDE DEF f
    <2> QED  BY <1>1 DEF Release, Sound, Allocator
  <1>3. Emptied(r) /\ ~r.committed
    <2> HIDE DEF f, r
    <2> QED  BY <1>1, <1>2 DEF Emptied
  <1> QED  BY <1>3

LEMMA DecommitShuts ==
  ASSUME NEW a, Sound(a)
  PROVE  Shut(a, Decommitted(a))
  <1>1. CASE ~a.committed /\ ~a.pending
    BY <1>1 DEF Decommitted, Shut
  <1>2. CASE (a.committed \/ a.pending) /\ Cardinality(a.free) < a.allocated
    BY <1>2 DEF Decommitted, Shut, Sound, Allocator
  <1>3. CASE (a.committed \/ a.pending) /\ ~(Cardinality(a.free) < a.allocated)
    <2> DEFINE b == [a EXCEPT !.committed = FALSE, !.pending = FALSE]
    <2>1. Decommitted(a) = Release(Free(b))  BY <1>3 DEF Decommitted
    <2>2. Sound(b) /\ ~b.committed  BY DEF Sound, Allocator
    <2> HIDE DEF b
    <2> QED  BY <2>1, <2>2, ReleaseEmpties DEF Shut
  <1> QED  BY <1>1, <1>2, <1>3

LEMMA ForceShuts ==
  ASSUME NEW a, Sound(a)
  PROVE  ForceDecommitted(a) = a \/ Shut(a, ForceDecommitted(a))
  <1>1. CASE a.committed \/ ~a.pending
    BY <1>1 DEF ForceDecommitted
  <1>2. CASE ~a.committed /\ a.pending
    <2> DEFINE b == [a EXCEPT !.pending = FALSE]
    <2>1. ForceDecommitted(a) = Release(Free(b))  BY <1>2 DEF ForceDecommitted
    <2>2. Sound(b) /\ ~b.committed  BY <1>2 DEF Sound, Allocator
    <2> HIDE DEF b
    <2> QED  BY <2>1, <2>2, ReleaseEmpties DEF Shut
  <1> QED  BY <1>1, <1>2

\* A sample that comes back is free again, unless it completes a decommit.
LEMMA ReturnLends ==
  ASSUME NEW a, Sound(a), NEW s \in Lent(a)
  PROVE  /\ Returned(a, s).committed = a.committed
         /\ \/ /\ Returned(a, s).free = a.free \cup {s}
               /\ Returned(a, s).live = a.live /\ Returned(a, s).ctx = a.ctx
            \/ ~a.committed /\ Emptied(Returned(a, s))
  <1> DEFINE b == [a EXCEPT !.free = @ \cup {s}]
  <1>1. /\ Sound(b) /\ b.live = a.live /\ b.free = a.free \cup {s} /\ b.ctx = a.ctx
        /\ b.committed = a.committed /\ b.pending = a.pending
    BY DEF Sound, Allocator, Lent
  <1>2. CASE ~(b.pending /\ Cardinality(b.free) = b.allocated)
    <2>1. Returned(a, s) = b  BY <1>2 DEF Returned
    <2> HIDE DEF b
    <2> QED  BY <1>1, <2>1
  <1>3. CASE b.pending /\ Cardinality(b.free) = b.allocated
    <2> DEFINE c == [b EXCEPT !.pending = FALSE]
    <2>1. Returned(a, s) = Release(Free(c))  BY <1>3 DEF Returned
    <2>2. Sound(c) /\ ~c.committed
      <3> HIDE DEF b
      <3> QED  BY <1>1, <1>3 DEF Sound, Allocator
    <2>3. a.committed = FALSE /\ Returned(a, s).committed \in BOOLEAN
      BY <1>1, <1>3, ReturnFacts DEF Sound, Allocator
    <2> HIDE DEF b, c
    <2>4. Emptied(Release(Free(c))) /\ ~Release(Free(c)).committed
      BY <2>2, ReleaseEmpties
    <2> QED  BY <2>1, <2>3, <2>4
  <1> QED  BY <1>2, <1>3

\* What a Commit may make of the allocator: nothing; an interrupted decommit taken back; a
\* failed Alloc; a new pool of samples of one frames context, or of none.
CommitLends(o) ==
    \/ o.al = al /\ o.dec = dec
    \/ /\ ~al.committed /\ o.al.committed /\ o.dec = dec
       /\ o.al.free = al.free /\ o.al.live = al.live /\ o.al.ctx = al.ctx
    \/ ~o.al.committed /\ Emptied(o.al) /\ o.dec \subseteq dec
    \/ /\ ~al.committed /\ o.al.committed /\ o.dec \subseteq dec
       /\ Emptied(o.al) \/ (o.al.ctx # NoCtx /\ \A s \in o.al.free : s.ctx = o.al.ctx)

\* What Alloc may make of it before Commit has counted.
AllocLends(o) ==
    /\ ~o.al.committed /\ o.dec \subseteq dec
    /\ \/ o.al = al /\ o.dec = dec /\ ~o.ok
       \/ Emptied(o.al)
       \/ o.ok /\ o.al.ctx # NoCtx /\ \A s \in o.al.free : s.ctx = o.al.ctx

LEMMA FilledLends ==
  ASSUME NEW a, Sound(a), NEW g, NEW c
  PROVE  LET b == Filled(a, g, c)
         IN  b.ctx = c /\ b.committed = a.committed /\ \A s \in b.free : s.ctx = c
  <1>1. Filled(a, g, c).ctx = c /\ Filled(a, g, c).committed = a.committed
        /\ Filled(a, g, c).free = PoolSamples(g, c)
    BY DEF Filled, Sound, Allocator
  <1>2. \A s \in PoolSamples(g, c) : s.ctx = c  BY DEF PoolSamples
  <1> QED  BY <1>1, <1>2

LEMMA AllocD3D11Lends ==
  ASSUME IInv, ~al.committed, NEW o \in AllocD3D11(al)
  PROVE  AllocLends(o)
  <1> DEFINE b == Free(al)
  <1>1. Emptied(b) /\ ~b.committed /\ Sound(b)  BY InvFacts, FreeEmpties
  <1>2. \/ \E ok \in BOOLEAN : o = Outcome(ok, b, dec, gen, pool, ready)
        \/ \E c \in Addresses : o = Outcome(TRUE, Filled(b, pool, c), dec, gen, pool, ready)
    BY DEF AllocD3D11
  <1> HIDE DEF b
  <1>3. CASE \E ok \in BOOLEAN : o = Outcome(ok, b, dec, gen, pool, ready)
    BY <1>1, <1>3 DEF Outcome, AllocLends
  <1>4. ASSUME NEW c \in Addresses, o = Outcome(TRUE, Filled(b, pool, c), dec, gen, pool, ready)
        PROVE  AllocLends(o)
    <2>1. c # NoCtx  BY AddressAssumption DEF NoCtx
    <2>2. o.al = Filled(b, pool, c) /\ o.dec = dec /\ o.ok  BY <1>4 DEF Outcome
    <2> QED  BY <1>1, <2>1, <2>2, FilledLends DEF AllocLends
  <1> QED  BY <1>2, <1>3, <1>4

LEMMA AllocDXVA2Lends ==
  ASSUME IInv, ~al.committed, ~al.pending, ~D3D11, NEW o \in AllocDXVA2(al)
  PROVE  AllocLends(o)
  <1> DEFINE a == [al EXCEPT !.free = FlushedFree(al)]
             b == Free(a)
  <1>1. Sound(a) /\ ~a.committed  BY InvFacts, FlushedFacts
  <1>2. Emptied(b) /\ ~b.committed /\ Sound(b)
    <2> HIDE DEF a
    <2> QED  BY <1>1, FreeEmpties
  <1>3. FlushedDec \subseteq dec  BY DEF FlushedDec
  <1>4. \/ o = Outcome(FALSE, al, dec, gen, pool, ready)
        \/ \E r \in {ready, FALSE} : o = Outcome(FALSE, b, FlushedDec, gen, pool, r)
        \/ \E g \in {gen + 1} \cap 1 .. MaxGens :
              o = Outcome(TRUE, Filled(b, g, g), FlushedDec, g, g, TRUE)
    BY DEF AllocDXVA2
  <1> HIDE DEF a, b
  <1>5. CASE o = Outcome(FALSE, al, dec, gen, pool, ready)
    BY <1>5 DEF Outcome, AllocLends
  <1>6. CASE \E r \in {ready, FALSE} : o = Outcome(FALSE, b, FlushedDec, gen, pool, r)
    BY <1>2, <1>3, <1>6 DEF Outcome, AllocLends
  <1>7. ASSUME NEW g \in {gen + 1} \cap 1 .. MaxGens,
               o = Outcome(TRUE, Filled(b, g, g), FlushedDec, g, g, TRUE)
        PROVE  AllocLends(o)
    <2>1. g # NoCtx  BY GensAssumption DEF NoCtx
    <2>2. o.al = Filled(b, g, g) /\ o.dec = FlushedDec /\ o.ok  BY <1>7 DEF Outcome
    <2> QED  BY <1>2, <1>3, <2>1, <2>2, FilledLends DEF AllocLends
  <1> QED  BY <1>4, <1>5, <1>6, <1>7

LEMMA CommitLendsFacts ==
  ASSUME IInv, NEW o \in CommitOutcomes
  PROVE  CommitLends(o)
  <1>1. Sound(al)  BY InvFacts
  <1>2. CASE al.committed
    BY <1>2 DEF CommitOutcomes, Outcome, CommitLends
  <1>3. CASE ~al.committed /\ al.pending
    <2> DEFINE b == [al EXCEPT !.committed = TRUE, !.pending = FALSE]
    <2>1. o.al = b /\ o.dec = dec  BY <1>3 DEF CommitOutcomes, Outcome
    <2>2. b.live = al.live /\ b.free = al.free /\ b.ctx = al.ctx /\ b.committed
      BY <1>1 DEF Sound, Allocator
    <2> QED  BY <1>3, <2>1, <2>2 DEF CommitLends
  <1>4. CASE ~al.committed /\ ~al.pending
    <2>1. PICK p \in (IF D3D11 THEN AllocD3D11(al) ELSE AllocDXVA2(al)) : o = Committed(p)
      BY <1>4 DEF CommitOutcomes
    <2>2. AllocLends(p)  BY <1>4, <2>1, AllocD3D11Lends, AllocDXVA2Lends
    <2>3. DOMAIN p = {"ok", "al", "dec", "gen", "pool", "ready"}
      BY DEF AllocD3D11, AllocDXVA2, Outcome
    <2>4. Sound(p.al)  BY <1>4, AllocD3D11Facts, AllocDXVA2Facts DEF Acceptable
    <2>5. CASE ~p.ok
      BY <2>1, <2>2, <2>5 DEF Committed, AllocLends, CommitLends
    <2>6. CASE p.ok
      <3> DEFINE b == [p.al EXCEPT !.committed = TRUE, !.refs = @ + 1]
      <3>1. o = [p EXCEPT !.al = b]  BY <2>1, <2>6 DEF Committed
      <3>2. b.free = p.al.free /\ b.ctx = p.al.ctx /\ b.committed
        BY <2>4 DEF Sound, Allocator
      <3> HIDE DEF b
      <3>3. o.al = b /\ o.dec = p.dec  BY <2>3, <3>1
      <3> QED  BY <1>4, <2>2, <2>6, <3>2, <3>3 DEF AllocLends, CommitLends, Emptied
    <2> QED  BY <2>5, <2>6
  <1> QED  BY <1>2, <1>3, <1>4

-----------------------------------------------------------------------------
(***************************************************************************)
(* The steps.  The invariant says that what is held is what is lent, so    *)
(* that the lender's state before and after a step is seen in al alone.    *)
(***************************************************************************)
PoolOf(a) == IF a.ctx = NoCtx THEN {} ELSE {s \in a.live : s.ctx = a.ctx}

LEMMA LenderIs ==
  ASSUME IInv, IInv'
  PROVE  /\ Held = Lent(al) /\ Held' = Lent(al')
         /\ CurrentPool = PoolOf(al) /\ CurrentPool' = PoolOf(al')
         /\ Sound(al) /\ Sound(al')
  <1>1. Held = Lent(al) /\ Sound(al)  BY InvFacts
  <1>2. Held' = Lent(al')  BY DEF IInv, Conserved, Lent
  <1>3. Sound(al')  BY DEF IInv, TypeOK, Conserved, Sound
  <1> QED  BY <1>1, <1>2, <1>3 DEF CurrentPool, PoolOf

LEMMA StutterStep ==
  ASSUME IInv, IInv', SameTo(al, al')
  PROVE  UNCHANGED Lender!vars
  <1>1. Lent(al') = Lent(al) /\ PoolOf(al') = PoolOf(al)  BY DEF SameTo, Lent, PoolOf
  <1> QED  BY <1>1, LenderIs DEF SameTo, Lender!vars

LEMMA CloseStep ==
  ASSUME IInv, IInv', Shut(al, al'), Lent(al') \subseteq Lent(al)
  PROVE  Lender!Close
  <1>1. al'.committed = FALSE  BY LenderIs DEF Shut, Sound, Allocator
  <1>2. CASE Emptied(al')
    <2>1. PoolOf(al') = {} /\ al'.free = {}  BY <1>2 DEF Emptied, PoolOf
    <2> QED  BY <1>1, <2>1, LenderIs DEF Lender!Close
  <1>3. CASE al'.free = al.free /\ al'.live = al.live /\ al'.ctx = al.ctx
    <2>1. Lent(al') = Lent(al) /\ PoolOf(al') = PoolOf(al)  BY <1>3 DEF Lent, PoolOf
    <2> QED  BY <1>1, <1>3, <2>1, LenderIs DEF Lender!Close
  <1> QED  BY <1>2, <1>3 DEF Shut

LEMMA OpenStep ==
  ASSUME IInv, IInv', ~al.committed, al'.committed, Lent(al') \subseteq Lent(al),
         Emptied(al') \/ (al'.ctx # NoCtx /\ \A s \in al'.free : s.ctx = al'.ctx)
  PROVE  Lender!Open
  <1>1. al'.committed = TRUE /\ al'.live \subseteq Sample /\ al'.free \subseteq al'.live
    BY LenderIs DEF Sound, Allocator
  <1>2. PoolOf(al') \subseteq al'.live  BY DEF PoolOf
  <1>3. al'.free \subseteq PoolOf(al')  BY <1>1 DEF Emptied, PoolOf
  <1>4. al'.live \subseteq al'.free \cup Lent(al') /\ al'.free \cap Lent(al') = {}  BY DEF Lent
  <1> QED  BY <1>1, <1>2, <1>3, <1>4, LenderIs DEF Lender!Open

\* A late sample is deleted by whoever had it last; any other waits for the lock.
LEMMA LastReleaseLends ==
  ASSUME IInv, IInv', NEW t \in Threads, NEW s \in dec \cup ren, LastRelease(t, s)
  PROVE  [Lender!Next]_(Lender!vars)
  <1>1. CASE LateSample(s)
    <2> DEFINE b == [al EXCEPT !.live = @ \ {s}]
    <2>1. s \in Lent(al) /\ Sound(al)  BY Before
    <2>2. /\ b.live = al.live \ {s} /\ b.free = al.free /\ b.ctx = al.ctx
          /\ b.committed = al.committed /\ b \in Allocator
      BY <2>1 DEF Sound, Allocator
    <2>3. al' = Release(b)  BY <1>1 DEF LastRelease
    <2> HIDE DEF b
    <2>4. /\ al'.live = al.live \ {s} /\ al'.free = al.free /\ al'.ctx = al.ctx
          /\ al'.committed = al.committed
      BY <2>2, <2>3 DEF Release, Allocator
    <2>5. s \notin PoolOf(al)  BY <1>1 DEF LateSample, PoolOf
    <2>6. Lent(al') = Lent(al) \ {s} /\ PoolOf(al') = PoolOf(al)
      BY <2>1, <2>4, <2>5 DEF Lent, PoolOf
    <2>7. Lender!Return
      BY <2>1, <2>4, <2>5, <2>6, LenderIs DEF Lender!Return
    <2> QED  BY <2>7 DEF Lender!Next
  <1>2. CASE ~LateSample(s)
    BY <1>2, StutterStep DEF LastRelease, SameTo
  <1> QED  BY <1>1, <1>2

LEMMA DropFrameLends ==
  ASSUME IInv, IInv', NEW t \in Threads, NEW s \in dec, DropFrame(t, s)
  PROVE  [Lender!Next]_(Lender!vars)
  <1>1. CASE s \in ren  BY <1>1, StutterStep DEF DropFrame, SameTo
  <1>2. CASE s \notin ren  BY <1>2, LastReleaseLends DEF DropFrame
  <1> QED  BY <1>1, <1>2

LEMMA RendererLends ==
  ASSUME IInv, IInv', NEW s \in ren, RendererReleases(s)
  PROVE  [Lender!Next]_(Lender!vars)
  <1>1. CASE s \in dec  BY <1>1, StutterStep DEF RendererReleases, SameTo
  <1>2. CASE s \notin dec
    BY <1>2, LastReleaseLends DEF RendererReleases, Threads
  <1> QED  BY <1>1, <1>2

LEMMA ReleaseBufferLends ==
  ASSUME IInv, IInv', NEW t \in Threads, ReleaseBuffer(t)
  PROVE  Lender!Return
  <1>1. PICK s \in returning[t] : al' = Returned(al, s)  BY DEF ReleaseBuffer
  <1>2. Sound(al) /\ s \in Lent(al)  BY Before DEF Back
  <1>3. Lent(al') = Lent(al) \ {s}  BY <1>1, <1>2, ReturnFacts, Zenon
  <1>4. /\ al'.committed = al.committed
        /\ \/ al'.free = al.free \cup {s} /\ al'.live = al.live /\ al'.ctx = al.ctx
           \/ ~al.committed /\ Emptied(al')
    BY <1>1, <1>2, ReturnLends, Zenon
  <1>5. CASE al'.free = al.free \cup {s} /\ al'.live = al.live /\ al'.ctx = al.ctx
    <2>1. PoolOf(al') = PoolOf(al)  BY <1>5 DEF PoolOf
    <2> QED  BY <1>2, <1>3, <1>4, <1>5, <2>1, LenderIs DEF Lender!Return
  <1>6. CASE ~al.committed /\ Emptied(al')
    <2>1. PoolOf(al') = {} /\ al'.free = {}  BY <1>6 DEF Emptied, PoolOf
    <2> QED  BY <1>2, <1>3, <1>4, <1>6, <2>1, LenderIs DEF Lender!Return
  <1> QED  BY <1>4, <1>5, <1>6

LEMMA GetBufferLends ==
  ASSUME IInv, IInv', GetBuffer
  PROVE  Lender!Lend
  <1>1. PICK s \in al.free : al' = [al EXCEPT !.free = @ \ {s}]  BY DEF GetBuffer
  <1>2. al.committed  BY DEF GetBuffer
  <1>3. Sound(al)  BY Before
  <1>4. /\ al'.free = al.free \ {s} /\ al'.live = al.live /\ al'.ctx = al.ctx
        /\ al'.committed = al.committed
    BY <1>1, <1>3 DEF Sound, Allocator
  <1>5. Lent(al') = Lent(al) \cup {s} /\ PoolOf(al') = PoolOf(al)
    BY <1>3, <1>4 DEF Lent, PoolOf, Sound
  <1> QED  BY <1>2, <1>4, <1>5, LenderIs DEF Lender!Lend

\* The worker drops a sample of another frames context in the step that takes it.
LEMMA GetDeliveryBufferLends ==
  ASSUME IInv, IInv', GetDeliveryBuffer
  PROVE  Lender!Lend \/ Lender!Spend
  <1> DEFINE b(s) == [al EXCEPT !.free = @ \ {s}]
             c(s) == [al EXCEPT !.free = @ \ {s}, !.live = @ \ {s}]
  <1>1. PICK s \in al.free : al' = IF LateSample(s) THEN Release(c(s)) ELSE b(s)
    BY DEF GetDeliveryBuffer
  <1>2. al.committed  BY DEF GetDeliveryBuffer
  <1>3. Sound(al)  BY Before
  <1>4. CASE LateSample(s)
    <2>1. /\ c(s).live = al.live \ {s} /\ c(s).free = al.free \ {s} /\ c(s).ctx = al.ctx
          /\ c(s).committed = al.committed /\ c(s) \in Allocator
      BY <1>3 DEF Sound, Allocator
    <2>2. al' = Release(c(s))  BY <1>1, <1>4
    <2> HIDE DEF c
    <2>3. /\ al'.live = al.live \ {s} /\ al'.free = al.free \ {s} /\ al'.ctx = al.ctx
          /\ al'.committed = al.committed
      BY <2>1, <2>2 DEF Release, Allocator
    <2>4. s \notin PoolOf(al)  BY <1>4 DEF LateSample, PoolOf
    <2>5. Lent(al') = Lent(al) /\ PoolOf(al') = PoolOf(al)
      BY <2>3, <2>4 DEF Lent, PoolOf
    <2> QED  BY <1>2, <2>3, <2>4, <2>5, LenderIs DEF Lender!Spend
  <1>5. CASE ~LateSample(s)
    <2>1. /\ al'.free = al.free \ {s} /\ al'.live = al.live /\ al'.ctx = al.ctx
          /\ al'.committed = al.committed
      BY <1>1, <1>3, <1>5 DEF Sound, Allocator
    <2>2. Lent(al') = Lent(al) \cup {s} /\ PoolOf(al') = PoolOf(al)
      BY <1>3, <2>1 DEF Lent, PoolOf, Sound
    <2> QED  BY <1>2, <2>1, <2>2, LenderIs DEF Lender!Lend
  <1> QED  BY <1>4, <1>5

LEMMA CommitStepLends ==
  ASSUME IInv, IInv', NEW o \in CommitOutcomes, Apply(o), UNCHANGED <<ren, returning>>
  PROVE  [Lender!Next]_(Lender!vars)
  <1>1. CommitLends(o) /\ al' = o.al /\ dec' = o.dec
    BY CommitLendsFacts DEF Apply
  <1>2. Held = Lent(al) /\ Held' = Lent(al')  BY LenderIs
  <1>3. CASE al' = al
    BY <1>3, StutterStep DEF SameTo
  <1>4. CASE /\ ~al.committed /\ al'.committed
             /\ al'.free = al.free /\ al'.live = al.live /\ al'.ctx = al.ctx
    <2>1. Lent(al') = Lent(al) /\ PoolOf(al') = PoolOf(al)  BY <1>4 DEF Lent, PoolOf
    <2>2. al'.committed = TRUE  BY <1>4, LenderIs DEF Sound, Allocator
    <2>3. Lender!Open  BY <1>4, <2>1, <2>2, LenderIs DEF Lender!Open
    <2> QED  BY <2>3 DEF Lender!Next
  <1>5. CASE dec' \subseteq dec /\ ~al'.committed /\ Emptied(al')
    <2>1. Lent(al') \subseteq Lent(al)  BY <1>2, <1>5 DEF Held
    <2> QED  BY <1>5, <2>1, CloseStep DEF Shut, Lender!Next
  <1>6. CASE /\ dec' \subseteq dec /\ ~al.committed /\ al'.committed
             /\ Emptied(al') \/ (al'.ctx # NoCtx /\ \A s \in al'.free : s.ctx = al'.ctx)
    <2>1. Lent(al') \subseteq Lent(al)  BY <1>2, <1>6 DEF Held
    <2> QED  BY <1>6, <2>1, OpenStep DEF Lender!Next
  <1> QED  BY <1>1, <1>3, <1>4, <1>5, <1>6 DEF CommitLends

LEMMA DisconnectLends ==
  ASSUME IInv, IInv', Disconnect
  PROVE  Lender!Close
  <1> DEFINE b == Decommitted(al)
             a == [b EXCEPT !.refs = @ - 2]
  <1>1. Sound(al) /\ Settles(al, b) /\ Shut(al, b)
    BY Before, DecommitFacts, DecommitShuts
  <1>2. /\ a.live = b.live /\ a.free = b.free /\ a.ctx = b.ctx
        /\ a.committed = b.committed /\ a.pending = b.pending /\ a \in Allocator
    <2> HIDE DEF b
    <2> QED  BY <1>1 DEF Settles, Sound, Allocator
  <1> HIDE DEF a, b
  <1>3. Sound(a) /\ Shut(al, a) /\ Lent(a) = Lent(al)
    BY <1>1, <1>2 DEF Settles, Sound, Shut, Emptied, Lent
  <1>4. CASE D3D11
    <2>1. al' = a  BY <1>4 DEF Disconnect, a, b
    <2> QED  BY <1>3, <2>1, CloseStep
  <1>5. CASE ~D3D11
    <2> DEFINE f == [a EXCEPT !.free = FlushedFree(a)]
    <2>1. al' = Free(f) /\ dec' = FlushedDec /\ UNCHANGED <<ren, returning>>
      BY <1>5 DEF Disconnect, Application, a, b
    <2>2. Sound(f) /\ f.committed = a.committed
      BY <1>3, <1>5, InvFacts, FlushedFacts
    <2> HIDE DEF f
    <2>3. Emptied(al') /\ ~al'.committed
      BY <1>3, <2>1, <2>2, FreeEmpties DEF Shut
    <2>4. Held' \subseteq Held  BY <2>1 DEF Held, FlushedDec
    <2> QED  BY <2>3, <2>4, CloseStep, LenderIs DEF Shut
  <1> QED  BY <1>4, <1>5

LEMMA StreamingLends ==
  ASSUME IInv, IInv', Receive \/ ReceiveBegin \/ NewSegment \/ ReceiveEnd
  PROVE  [Lender!Next]_(Lender!vars)
  <1>1. CASE \/ ReceiveBegin \/ NewSegment \/ ReceiveEnd \/ NeedBuffer \/ Incompatible
             \/ DecodeSWFrame \/ PushSWFrame \/ DeliverFrame \/ FlushDone \/ CreateDecoder
             \/ CheckDecommit \/ GetBufferFails \/ Fallback
    <2>1. al' = al
      BY <1>1 DEF ReceiveBegin, NewSegment, ReceiveEnd, NeedBuffer, Incompatible,
                  DecodeSWFrame, PushSWFrame, DeliverFrame, FlushDone, Flushed, CreateDecoder,
                  CheckDecommit, GetBufferFails, Fallback
    <2> QED  BY <2>1, StutterStep DEF SameTo
  <1>2. CASE StreamDropsFrame
    BY <1>2, DropFrameLends DEF StreamDropsFrame, Threads
  <1>3. CASE StreamDecommit
    <2>1. Shut(al, al') /\ Lent(al') = Lent(al)
      BY <1>3, Before, DecommitFacts, DecommitShuts DEF StreamDecommit, Settles
    <2> QED  BY <2>1, CloseStep DEF Lender!Next
  <1>4. CASE ForceDecommit
    <2>1. al' = al \/ Shut(al, al')
      BY <1>4, Before, ForceShuts DEF ForceDecommit
    <2>2. Lent(al') = Lent(al)  BY <1>4, Before, ForceFacts DEF ForceDecommit, Settles
    <2> QED  BY <2>1, <2>2, CloseStep, StutterStep DEF Lender!Next, SameTo
  <1>5. CASE StreamCommit
    BY <1>5, CommitStepLends DEF StreamCommit, Streaming
  <1>6. CASE GetBuffer  BY <1>6, GetBufferLends DEF Lender!Next
  <1> QED  BY <1>1, <1>2, <1>3, <1>4, <1>5, <1>6 DEF Receive

LEMMA WorkerLends ==
  ASSUME IInv, IInv', StopSWPipeline \/ SWDeliverThread
  PROVE  [Lender!Next]_(Lender!vars)
  <1>1. CASE StopSWPipeline \/ PopSWFrame \/ GetDeliveryBufferFails
    BY <1>1, StutterStep DEF StopSWPipeline, PopSWFrame, GetDeliveryBufferFails, SameTo
  <1>2. CASE GetDeliveryBuffer  BY <1>2, GetDeliveryBufferLends DEF Lender!Next
  <1> QED  BY <1>1, <1>2 DEF SWDeliverThread

LEMMA ApplicationLends ==
  ASSUME IInv, IInv', StopRenderer \/ StopFilter \/ Run \/ Disconnect \/ DecoderDestruct
                      \/ BeginFlush \/ EndFlush \/ FlushCodec \/ AppDropsFrame
  PROVE  [Lender!Next]_(Lender!vars)
  <1>1. CASE StopRenderer \/ StopFilter
    <2>1. Shut(al, al') /\ Lent(al') = Lent(al)
      BY <1>1, Before, DecommitFacts, DecommitShuts DEF StopRenderer, StopFilter, Settles
    <2> QED  BY <2>1, CloseStep DEF Lender!Next
  <1>2. CASE Run
    BY <1>2, CommitStepLends DEF Run, Application
  <1>3. CASE Disconnect  BY <1>3, DisconnectLends DEF Lender!Next
  <1>4. CASE DecoderDestruct
    <2>1. SameTo(al, al')  BY <1>4, Before DEF DecoderDestruct, Release, SameTo, Sound, Allocator
    <2> QED  BY <2>1, StutterStep
  <1>5. CASE BeginFlush \/ EndFlush \/ FlushCodec
    BY <1>5, StutterStep DEF BeginFlush, EndFlush, FlushCodec, SameTo
  <1>6. CASE AppDropsFrame
    BY <1>6, DropFrameLends DEF AppDropsFrame, Threads
  <1> QED  BY <1>1, <1>2, <1>3, <1>4, <1>5, <1>6

LEMMA StepLends == IInv /\ IInv' /\ [Next]_vars => [Lender!Next]_(Lender!vars)
  <1> SUFFICES ASSUME IInv, IInv', [Next]_vars PROVE [Lender!Next]_(Lender!vars)  OBVIOUS
  <1>1. CASE UNCHANGED vars  BY <1>1, StutterStep DEF vars, SameTo
  <1>2. CASE \E s \in ren : RendererReleases(s)  BY <1>2, RendererLends
  <1>3. CASE \E t \in Threads : ReleaseBuffer(t)
    BY <1>3, ReleaseBufferLends DEF Lender!Next
  <1>4. CASE ReceiveBegin \/ NewSegment \/ ReceiveEnd \/ Receive  BY <1>4, StreamingLends
  <1>5. CASE StopRenderer \/ StopFilter \/ Run \/ Disconnect \/ DecoderDestruct
             \/ BeginFlush \/ EndFlush \/ FlushCodec \/ AppDropsFrame
    BY <1>5, ApplicationLends
  <1>6. CASE StopSWPipeline \/ SWDeliverThread  BY <1>6, WorkerLends
  <1> QED  BY <1>1, <1>2, <1>3, <1>4, <1>5, <1>6 DEF Next

LEMMA StartsShut == Init => Lender!Init
  <1> SUFFICES ASSUME Init PROVE Lender!Init  OBVIOUS
  <1>1. Held = {} /\ CurrentPool = {}  BY DEF Init, Held, CurrentPool
  <1> QED  BY <1>1 DEF Init, Lender!Init

-----------------------------------------------------------------------------
\* CD3D11SurfaceAllocator with CD3D11Decoder, and CVideoDecDXVAAllocator with CDXVA2Decoder,
\* implement the lender: a sample is lent to one holder at a time and only while the allocator
\* is committed, comes back to the free list, and is lost to the current surfaces neither by a
\* late release nor by a Commit that takes an unfinished decommit back.
THEOREM SurfacesAreLent == Spec => ImplementsLender
  BY Invariance, StartsShut, StepLends, PTL DEF Spec, ImplementsLender, Lender!Spec
=============================================================================
