-------------------------- MODULE SurfacePool_proofs --------------------------
(***************************************************************************)
(* That a codec which asks for a buffer finds the whole pool its decoder   *)
(* was created for.  A decoder is created by one thread in several steps   *)
(* (CreateD3D11Decoder, Decommit, ForceDecommit, Commit) or inside Alloc   *)
(* (CreateDXVA2Decoder), and the allocator may be decommitted by the       *)
(* application and committed again by either thread in between.            *)
(***************************************************************************)
EXTENDS SurfaceAllocator_proofs

\* ReInitD3D11Decoder, from the decoder it created to the commit.
Remaking == {"decommit", "check", "force", "commit"}

\* All samples of pool p exist, under one frames context.
Whole(a, p) ==
    /\ PoolSamples(p, a.ctx) \subseteq a.live
    /\ \A s \in a.live : s.gen = p => s.ctx = a.ctx

\* Where the streaming thread is and which decoder there is.
Steering ==
    /\ pcS # "idle" => app \in {"running", "stopping"}
    /\ ready => pool # 0
    /\ pcS \in {"create", "force"} => D3D11
    /\ D3D11 /\ pcS \in Remaking => ready
    /\ pcS = "get" /\ why = "buffer" => ready

\* A DXVA2 allocator, whose m_lAllocated is never positive, decommits at once;
\* Commit is reached with the decommit done or forced.
Undone ==
    /\ ~D3D11 => al.allocated <= 0 /\ ~al.pending
    /\ pcS \in {"check", "force", "commit"} => ~al.committed
    /\ pcS = "commit" => ~al.pending

PoolInv ==
    /\ Steering
    /\ Undone
    /\ ready /\ (al.committed \/ al.pending) /\ pcS \notin Remaking => Whole(al, pool)

\* b is what an operation other than Commit makes of a: while a stays committed or
\* a decommit pending, only samples of another frames context are deleted.
Shrinks(a, b) ==
    /\ b.committed => a.committed
    /\ b.committed \/ b.pending =>
           /\ a.committed \/ a.pending
           /\ b.ctx = a.ctx /\ b.live \subseteq a.live
           /\ \A s \in a.live \ b.live : s.ctx # a.ctx
    /\ ~D3D11 /\ a.allocated <= 0 /\ ~a.pending => b.allocated <= 0 /\ ~b.pending

-----------------------------------------------------------------------------
(***************************************************************************)
(* The operations of the allocator.                                        *)
(***************************************************************************)
LEMMA FreeCount ==
  ASSUME NEW a, Sound(a)
  PROVE  Cardinality(a.free) \in Nat /\ a.allocated \in Int
  BY FS_Subset, FS_CardinalityType DEF Sound, Allocator

LEMMA DecommitShrinks ==
  ASSUME NEW a, Sound(a)
  PROVE  Shrinks(a, Decommitted(a))
  BY FreeCount DEF Shrinks, Decommitted, Release, Free, Sound, Allocator

LEMMA ForceShrinks ==
  ASSUME NEW a, Sound(a)
  PROVE  /\ Shrinks(a, ForceDecommitted(a))
         /\ ~a.committed => ~ForceDecommitted(a).committed /\ ~ForceDecommitted(a).pending
  BY DEF Shrinks, ForceDecommitted, Release, Free, Sound, Allocator

LEMMA ReturnShrinks ==
  ASSUME NEW a, Sound(a), NEW s
  PROVE  Shrinks(a, Returned(a, s))
  BY DEF Shrinks, Returned, Release, Free, Sound, Allocator

LEMMA LastReleaseShrinks ==
  ASSUME Sound(al), NEW t, NEW s, LastRelease(t, s)
  PROVE  Shrinks(al, al')
  BY DEF Shrinks, LastRelease, LateSample, Release, Sound, Allocator

(***************************************************************************)
(* Commit: an allocator that is not committed already gets the pool of the *)
(* decoder, D3D11, or a decoder for a new pool, DXVA2.                     *)
(***************************************************************************)
Complete(o) ==
    /\ o.ready => o.pool # 0
    /\ D3D11 => o.ready = ready /\ o.pool = pool
    /\ ~D3D11 => o.al.allocated <= 0 /\ ~o.al.pending
    /\ ~D3D11 /\ o.ok /\ ~al.committed => o.ready
    /\ o.ready /\ (o.al.committed \/ o.al.pending) => Whole(o.al, o.pool)

CommittedFill(a, g, c) == [Filled(a, g, c) EXCEPT !.committed = TRUE, !.refs = @ + 1]

LEMMA FilledWhole ==
  ASSUME NEW a, Sound(a), NEW g, NEW c, \A s \in a.live : s.gen # g
  PROVE  /\ Whole(CommittedFill(a, g, c), g)
         /\ ~D3D11 => CommittedFill(a, g, c).allocated <= 0
         /\ CommittedFill(a, g, c).pending = a.pending
  <1> DEFINE b == CommittedFill(a, g, c)
  <1>1. /\ b.live = a.live \cup PoolSamples(g, c) /\ b.ctx = c /\ b.pending = a.pending
        /\ b.allocated = IF D3D11 THEN Count ELSE -1
    BY DEF CommittedFill, Filled, Sound, Allocator
  <1>2. \A s \in PoolSamples(g, c) : s.gen = g /\ s.ctx = c  BY DEF PoolSamples
  <1> HIDE DEF b
  <1>3. Whole(b, g) /\ (~D3D11 => b.allocated <= 0) /\ b.pending = a.pending
    BY <1>1, <1>2 DEF Whole
  <1> QED  BY <1>3 DEF b

LEMMA CommitCompletes ==
  ASSUME IInv, PoolInv, pcS = "idle" \/ pcS = "commit", NEW o \in CommitOutcomes
  PROVE  Complete(o)
  <1>1. CASE al.committed
    BY <1>1 DEF CommitOutcomes, Outcome, Complete, PoolInv, Steering, Undone, Remaking
  <1>2. CASE ~al.committed /\ al.pending
    <2>1. o = Outcome(TRUE, [al EXCEPT !.committed = TRUE, !.pending = FALSE],
                      dec, gen, pool, ready)
      BY <1>2 DEF CommitOutcomes
    <2>2. /\ o.al.live = al.live /\ o.al.ctx = al.ctx
          /\ o.ready = ready /\ o.pool = pool
      BY <2>1, Before DEF Outcome, Sound, Allocator
    <2>3. D3D11 /\ pcS = "idle"  BY <1>2 DEF PoolInv, Undone
    <2> QED  BY <1>2, <2>2, <2>3 DEF Complete, PoolInv, Steering, Whole, Remaking
  <1>3. CASE ~al.committed /\ ~al.pending /\ D3D11
    <2> DEFINE b == Free(al)
    <2>1. Sound(b) /\ ~b.committed /\ ~b.pending  BY <1>3, Before, FreeFacts DEF Settles
    <2>2. PICK x \in AllocD3D11(al) : o = Committed(x)  BY <1>3 DEF CommitOutcomes
    <2>3. \/ \E ok \in BOOLEAN : x = Outcome(ok, b, dec, gen, pool, ready) /\ (ok => pool = 0)
          \/ \E c \in Addresses :
                 /\ \A s \in b.live : s.gen # pool
                 /\ x = Outcome(TRUE, Filled(b, pool, c), dec, gen, pool, ready)
      BY <2>2 DEF AllocD3D11
    <2>4. CASE \E ok \in BOOLEAN : x = Outcome(ok, b, dec, gen, pool, ready) /\ (ok => pool = 0)
      <3>1. o.ready = ready /\ o.pool = pool  BY <2>2, <2>4 DEF Committed, Outcome
      <3>2. o.al = b \/ pool = 0  BY <2>2, <2>4 DEF Committed, Outcome
      <3> QED  BY <1>3, <2>1, <3>1, <3>2 DEF Complete, PoolInv, Steering
    <2>5. CASE \E c \in Addresses :
                 /\ \A s \in b.live : s.gen # pool
                 /\ x = Outcome(TRUE, Filled(b, pool, c), dec, gen, pool, ready)
      <3>1. PICK c \in Addresses :
                 /\ \A s \in b.live : s.gen # pool
                 /\ x = Outcome(TRUE, Filled(b, pool, c), dec, gen, pool, ready)
        BY <2>5
      <3>2. /\ o.ready = ready /\ o.pool = pool
            /\ o.al = CommittedFill(b, pool, c)
        BY <2>2, <3>1 DEF Committed, Outcome, CommittedFill
      <3> HIDE DEF b
      <3>3. Whole(o.al, pool)  BY <2>1, <3>1, <3>2, FilledWhole
      <3> QED  BY <1>3, <3>2, <3>3 DEF Complete, PoolInv, Steering
    <2> QED  BY <2>3, <2>4, <2>5
  <1>4. CASE ~al.committed /\ ~al.pending /\ ~D3D11
    <2> DEFINE f == [al EXCEPT !.free = FlushedFree(al)]
               b == Free(f)
    <2>1. Sound(f) /\ ~f.committed /\ ~f.pending
      BY <1>4, InvFacts, FlushedFacts
    <2>2. Sound(b) /\ b.live \subseteq al.live /\ ~b.committed /\ ~b.pending /\ b.allocated = 0
      <3>1. f.live = al.live  BY Before DEF Sound, Allocator
      <3>2. b.allocated = 0  BY Before DEF Free, Sound, Allocator
      <3> HIDE DEF f
      <3> QED  BY <2>1, <3>1, <3>2, FreeFacts DEF Settles
    <2>3. PICK x \in AllocDXVA2(al) : o = Committed(x)  BY <1>4 DEF CommitOutcomes
    <2>4. \/ x = Outcome(FALSE, al, dec, gen, pool, ready)
          \/ \E r \in {ready, FALSE} : x = Outcome(FALSE, b, FlushedDec, gen, pool, r)
          \/ \E g \in {gen + 1} \cap 1 .. MaxGens :
                 x = Outcome(TRUE, Filled(b, g, g), FlushedDec, g, g, TRUE)
      BY <2>3 DEF AllocDXVA2
    <2> HIDE DEF b
    <2>5. CASE x = Outcome(FALSE, al, dec, gen, pool, ready)
      BY <1>4, <2>3, <2>5 DEF Committed, Outcome, Complete, PoolInv, Steering, Undone
    <2>6. CASE \E r \in {ready, FALSE} : x = Outcome(FALSE, b, FlushedDec, gen, pool, r)
      <3>1. PICK r \in {ready, FALSE} : x = Outcome(FALSE, b, FlushedDec, gen, pool, r)
        BY <2>6
      <3>2. o.al = b /\ o.pool = pool /\ ~o.ok /\ o.ready = r
        BY <2>3, <3>1 DEF Committed, Outcome
      <3>3. o.ready => o.pool # 0  BY <3>1, <3>2, Zenon DEF PoolInv, Steering
      <3> QED  BY <1>4, <2>2, <3>2, <3>3 DEF Complete
    <2>7. CASE \E g \in {gen + 1} \cap 1 .. MaxGens :
                 x = Outcome(TRUE, Filled(b, g, g), FlushedDec, g, g, TRUE)
      <3>1. PICK g \in {gen + 1} \cap 1 .. MaxGens :
                 x = Outcome(TRUE, Filled(b, g, g), FlushedDec, g, g, TRUE)
        BY <2>7
      <3>2. /\ o.ready = TRUE /\ o.pool = g /\ g # 0
            /\ o.al = CommittedFill(b, g, g)
        BY <2>3, <3>1 DEF Committed, Outcome, CommittedFill
      <3>3. \A s \in b.live : s.gen # g  BY <2>2, <3>1, Before
      <3>4. Whole(o.al, g) /\ o.al.allocated <= 0 /\ ~o.al.pending
        BY <1>4, <2>2, <3>2, <3>3, FilledWhole
      <3> QED  BY <1>4, <3>2, <3>4 DEF Complete
    <2> QED  BY <2>4, <2>5, <2>6, <2>7
  <1> QED  BY <1>1, <1>2, <1>3, <1>4

-----------------------------------------------------------------------------
(***************************************************************************)
(* Every step keeps PoolInv.                                               *)
(***************************************************************************)
\* A step that commits nothing.
LEMMA ShrinkStep ==
  ASSUME PoolInv, backend' = backend, Shrinks(al, al'), Steering',
         pcS' \in {"check", "force", "commit"} => ~al'.committed,
         pcS' = "commit" => ~al'.pending,
         ready' /\ pcS' \notin Remaking => ready /\ pcS \notin Remaking /\ pool' = pool
  PROVE  PoolInv'
  <1>1. Undone'  BY DEF PoolInv, Undone, Shrinks, D3D11
  <1>2. ASSUME ready', al'.committed \/ al'.pending, pcS' \notin Remaking
        PROVE  Whole(al', pool')
    <2>1. Whole(al, pool) /\ pool' = pool  BY <1>2 DEF PoolInv, Shrinks
    <2>2. \A s \in PoolSamples(pool, al.ctx) : s.ctx = al.ctx  BY DEF PoolSamples
    <2> QED  BY <1>2, <2>1, <2>2 DEF Whole, Shrinks
  <1> QED  BY <1>1, <1>2 DEF PoolInv, Remaking

LEMMA SameShrinks ==
  ASSUME al' = al
  PROVE  Shrinks(al, al')
  BY DEF Shrinks

\* The steps of the streaming thread that leave the allocator alone.
LEMMA ControlPool ==
  ASSUME IInv, PoolInv,
         \/ ReceiveBegin \/ NewSegment \/ ReceiveEnd \/ NeedBuffer \/ Incompatible
         \/ DecodeSWFrame \/ PushSWFrame \/ DeliverFrame \/ FlushDone \/ CreateDecoder
         \/ CheckDecommit \/ GetBufferFails \/ Fallback
  PROVE  PoolInv'
  <1> USE DEF Streaming, decoderVars, pipeVars, streamVars, appVars, Remaking, PoolInv, D3D11
  <1>1. CASE ReceiveBegin \/ NewSegment \/ ReceiveEnd \/ DeliverFrame
    <2>1. UNCHANGED <<al, backend, pool, app>>
      BY <1>1 DEF ReceiveBegin, NewSegment, ReceiveEnd, DeliverFrame
    <2>2. ready' => ready
      BY <1>1, Zenon DEF ReceiveBegin, NewSegment, ReceiveEnd, DeliverFrame
    <2>3. /\ pcS \in {"idle", "decode"} /\ pcS' \in {"idle", "decode", "flush", "join"}
          /\ pcS' # "idle" => app \in {"running", "stopping"}
      BY <1>1 DEF ReceiveBegin, NewSegment, ReceiveEnd, DeliverFrame, Steering
    <2>4. Steering'  BY <2>1, <2>2, <2>3 DEF Steering
    <2> QED  BY <2>1, <2>2, <2>3, <2>4, SameShrinks, ShrinkStep
  <1>2. CASE \/ NeedBuffer \/ Incompatible \/ DecodeSWFrame \/ PushSWFrame \/ GetBufferFails
             \/ Fallback
    <2>1. UNCHANGED <<al, backend, pool, app>>
      BY <1>2 DEF NeedBuffer, Incompatible, DecodeSWFrame, PushSWFrame, GetBufferFails, Fallback
    <2>2. ready' => ready
      BY <1>2, Zenon
        DEF NeedBuffer, Incompatible, DecodeSWFrame, PushSWFrame, GetBufferFails, Fallback
    <2>3. /\ pcS \in {"decode", "get", "push"}
          /\ pcS' \in {"decode", "get", "flush", "create", "push"}
          /\ pcS' = "create" => D3D11
          /\ pcS' = "get" /\ why' = "buffer" => ready'
      BY <1>2 DEF NeedBuffer, Incompatible, DecodeSWFrame, PushSWFrame, GetBufferFails, Fallback
    <2>4. Steering'  BY <2>1, <2>2, <2>3 DEF Steering
    <2> QED  BY <2>1, <2>2, <2>3, <2>4, SameShrinks, ShrinkStep
  <1>3. CASE FlushDone
    <2>1. Steering' /\ UNCHANGED <<al, backend>>
      BY <1>3 DEF FlushDone, Flushed, Steering
    <2>2. /\ pcS' \notin {"check", "force", "commit"}
          /\ ready' /\ pcS' \notin Remaking => ready /\ pcS \notin Remaking /\ pool' = pool
      BY <1>3 DEF FlushDone, Flushed
    <2> QED  BY <2>1, <2>2, SameShrinks, ShrinkStep
  <1>4. CASE CreateDecoder
    <2>1. Steering' /\ UNCHANGED <<al, backend>>
      BY <1>4, Before DEF CreateDecoder, Steering
    <2>2. /\ pcS' \notin {"check", "force", "commit"}
          /\ ready' => pcS' \in Remaking
      BY <1>4 DEF CreateDecoder
    <2> QED  BY <2>1, <2>2, SameShrinks, ShrinkStep
  <1>5. CASE CheckDecommit
    <2>1. Steering' /\ UNCHANGED <<al, backend>>
      BY <1>5 DEF CheckDecommit, Steering
    <2>2. ~al.committed /\ (pcS' = "commit" => ~al.pending) /\ pcS' \in Remaking
      BY <1>5 DEF CheckDecommit, Undone
    <2> QED  BY <2>1, <2>2, SameShrinks, ShrinkStep
  <1> QED  BY <1>1, <1>2, <1>3, <1>4, <1>5

\* The steps that take a sample, give one back, or decommit.
LEMMA SamplePool ==
  ASSUME IInv, PoolInv,
         \/ StreamDropsFrame \/ AppDropsFrame
         \/ \E s \in ren : RendererReleases(s)
         \/ \E t \in Threads : ReleaseBuffer(t)
         \/ GetBuffer \/ GetDeliveryBuffer \/ StreamDecommit \/ ForceDecommit
  PROVE  PoolInv'
  <1> USE DEF Streaming, Delivery, decoderVars, pipeVars, streamVars, appVars, Remaking, PoolInv,
              D3D11
  <1>1. Sound(al)  BY Before
  <1>2. CASE \/ StreamDropsFrame \/ AppDropsFrame
             \/ \E s \in ren : RendererReleases(s)
             \/ \E t \in Threads : ReleaseBuffer(t)
    <2>1. UNCHANGED <<backend, decoderVars, streamVars, appVars>>
      BY <1>2 DEF StreamDropsFrame, AppDropsFrame, DropFrame, RendererReleases, ReleaseBuffer
    <2>2. Shrinks(al, al')
      <3>1. CASE \E t \in Threads : ReleaseBuffer(t)
        BY <1>1, <3>1, ReturnShrinks DEF ReleaseBuffer
      <3>2. CASE ~ \E t \in Threads : ReleaseBuffer(t)
        BY <1>1, <1>2, <3>2, LastReleaseShrinks, SameShrinks
          DEF StreamDropsFrame, AppDropsFrame, DropFrame, RendererReleases
      <3> QED  BY <3>1, <3>2
    <2>3. Steering'  BY <2>1 DEF Steering
    <2>4. /\ pcS' \in {"check", "force", "commit"} => ~al'.committed
          /\ pcS' = "commit" => ~al'.pending
      BY <2>1, <2>2 DEF Undone, Shrinks
    <2> QED  BY <2>1, <2>2, <2>3, <2>4, ShrinkStep
  <1>3. CASE GetBuffer \/ GetDeliveryBuffer
    <2>1. /\ UNCHANGED <<backend, decoderVars, appVars>> /\ al.committed
          /\ (pcS = "get" /\ pcS' = "decode") \/ UNCHANGED <<pcS, why>>
      BY <1>3 DEF GetBuffer, GetDeliveryBuffer
    <2>2. Shrinks(al, al')
      <3>1. PICK s \in al.free :
                \/ al' = [al EXCEPT !.free = @ \ {s}]
                \/ LateSample(s) /\ al' = Release([al EXCEPT !.free = @ \ {s}, !.live = @ \ {s}])
        BY <1>3 DEF GetBuffer, GetDeliveryBuffer
      <3> QED  BY <1>1, <3>1 DEF LateSample, Release, Shrinks, Sound, Allocator
    <2>3. Steering'  BY <2>1 DEF Steering
    <2> QED  BY <2>1, <2>2, <2>3, ShrinkStep DEF Undone
  <1>4. CASE StreamDecommit
    <2>1. Shrinks(al, al') /\ ~al'.committed
      BY <1>1, <1>4, DecommitShrinks, DecommitFacts DEF StreamDecommit
    <2>2. Steering' /\ backend' = backend /\ pcS' = "check"
      BY <1>4 DEF StreamDecommit, Steering
    <2> QED  BY <2>1, <2>2, ShrinkStep
  <1>5. CASE ForceDecommit
    <2>1. Shrinks(al, al') /\ ~al'.committed /\ ~al'.pending
      BY <1>1, <1>5, ForceShrinks DEF ForceDecommit, Undone
    <2>2. Steering' /\ backend' = backend /\ pcS' = "commit"
      BY <1>5 DEF ForceDecommit, Steering
    <2> QED  BY <2>1, <2>2, ShrinkStep
  <1> QED  BY <1>2, <1>3, <1>4, <1>5

LEMMA CommitPool ==
  ASSUME IInv, PoolInv, StreamCommit \/ Run
  PROVE  PoolInv'
  <1> USE DEF Remaking
  <1>1. PICK o \in CommitOutcomes :
            /\ Apply(o) /\ backend' = backend
            /\ \/ /\ Streaming("commit", AfterCommit(o.ok)) /\ UNCHANGED why
               \/ Application("stopped", IF o.ok THEN "running" ELSE "stopped")
    BY DEF StreamCommit, Run, Streaming, Application
  <1>2. pcS \in {"idle", "commit"}
    BY <1>1 DEF Streaming, Application, PoolInv, Steering
  <1>3. Complete(o)  BY <1>1, <1>2, CommitCompletes
  <1>4. /\ ready' => pool' # 0
        /\ D3D11 => ready' = ready
        /\ ~D3D11 => al'.allocated <= 0 /\ ~al'.pending
        /\ ~D3D11 /\ o.ok /\ ~al.committed => ready'
        /\ ready' /\ (al'.committed \/ al'.pending) => Whole(al', pool')
    BY <1>1, <1>3 DEF Apply, Complete
  <1>5. pcS' \in {"idle", "decode", "get"}
        /\ (pcS' # "idle" => app' \in {"running", "stopping"})
    BY <1>1, <1>2 DEF Streaming, Application, AfterCommit, PoolInv, Steering, streamVars, appVars
  <1>6. pcS' = "get" => ready'
    BY <1>1, <1>2, <1>4
      DEF Streaming, Application, AfterCommit, PoolInv, Steering, Undone, streamVars, appVars
  <1>7. Steering'  BY <1>1, <1>4, <1>5, <1>6 DEF Steering
  <1>8. Undone'  BY <1>1, <1>4, <1>5 DEF Undone, D3D11
  <1> QED  BY <1>4, <1>7, <1>8 DEF PoolInv

\* The application's other steps.
LEMMA ApplicationPool ==
  ASSUME IInv, PoolInv, StopRenderer \/ StopFilter \/ Disconnect \/ DecoderDestruct
                        \/ BeginFlush \/ EndFlush \/ FlushCodec
  PROVE  PoolInv'
  <1> USE DEF decoderVars, pipeVars, streamVars, Remaking, PoolInv, D3D11
  <1>1. Sound(al)  BY Before
  <1>2. CASE StopRenderer \/ StopFilter
    <2>1. Shrinks(al, al')  BY <1>1, <1>2, DecommitShrinks DEF StopRenderer, StopFilter
    <2>2. Steering' /\ UNCHANGED <<backend, pool, ready, pcS>>
      BY <1>2 DEF StopRenderer, StopFilter, Application, Steering
    <2>3. /\ pcS' \in {"check", "force", "commit"} => ~al'.committed
          /\ pcS' = "commit" => ~al'.pending
      <3>1. al' = Decommitted(al) /\ ~al'.committed
        BY <1>1, <1>2, DecommitFacts DEF StopRenderer, StopFilter
      <3>2. ~al.committed /\ ~al.pending => ~al'.pending  BY <3>1 DEF Decommitted
      <3> QED  BY <2>2, <3>1, <3>2 DEF Undone
    <2> QED  BY <2>1, <2>2, <2>3, ShrinkStep
  <1>3. CASE Disconnect
    <2> DEFINE b == Decommitted(al)
               a == [b EXCEPT !.refs = @ - 2]
    <2>1. Sound(b) /\ ~b.committed  BY <1>1, DecommitFacts DEF Settles
    <2>2. /\ pcS = "idle" /\ UNCHANGED <<backend, pool, ready, pcS, why>>
      BY <1>3 DEF Disconnect, Application, Steering
    <2>3. Shrinks(al, b)  BY <1>1, DecommitShrinks
    <2>4. al' = a \/ (~D3D11 /\ al' = Free([a EXCEPT !.free = FlushedFree(a)]))
      BY <1>3 DEF Disconnect
    <2> HIDE DEF b
    <2>5. /\ al'.committed = b.committed /\ al'.pending = b.pending
          /\ D3D11 => al'.ctx = b.ctx /\ al'.live = b.live
          /\ al'.allocated = b.allocated \/ al'.allocated = 0
      BY <2>1, <2>4 DEF Free, Sound, Allocator
    <2>6. Shrinks(al, al')
      BY <1>1, <2>1, <2>3, <2>5 DEF Shrinks, Undone
    <2>7. Steering'  BY <2>2 DEF Steering
    <2> QED  BY <2>2, <2>6, <2>7, ShrinkStep
  <1>4. CASE DecoderDestruct
    <2>1. Shrinks(al, al')
      BY <1>1, <1>4 DEF DecoderDestruct, Shrinks, Release, Sound, Allocator
    <2>2. pcS = "idle" /\ pcS' = "idle" /\ ~ready' /\ backend' = backend
      BY <1>4 DEF DecoderDestruct, Application, Steering
    <2>3. Steering'  BY <2>2 DEF Steering
    <2> QED  BY <2>1, <2>2, <2>3, ShrinkStep
  <1>5. CASE BeginFlush \/ EndFlush \/ FlushCodec
    <2>1. Steering' /\ UNCHANGED <<al, backend, pool, ready, pcS>>
      BY <1>5 DEF BeginFlush, EndFlush, FlushCodec, Steering
    <2> QED  BY <2>1, SameShrinks, ShrinkStep DEF Undone
  <1> QED  BY <1>2, <1>3, <1>4, <1>5

\* The steps of the worker, and of the thread that waits for its end, which leave the allocator
\* alone.
LEMMA WorkerPool ==
  ASSUME IInv, PoolInv, StopSWPipeline \/ PopSWFrame \/ GetDeliveryBufferFails
  PROVE  PoolInv'
  <1> USE DEF Delivery, decoderVars, appVars, Remaking, PoolInv, D3D11
  <1>1. /\ UNCHANGED <<al, backend, pool, ready, why, app>>
        /\ pcS' = pcS \/ (pcS = "join" /\ pcS' = "flush")
    BY DEF StopSWPipeline, PopSWFrame, GetDeliveryBufferFails
  <1>2. Steering'  BY <1>1 DEF Steering
  <1> QED  BY <1>1, <1>2, SameShrinks, ShrinkStep DEF Undone

LEMMA PoolInvariance == Spec => [](IInv /\ PoolInv)
  <1>1. Init => PoolInv
    BY DEF Init, PoolInv, Steering, Undone, Remaking
  <1>2. IInv /\ PoolInv /\ [Next]_vars => PoolInv'
    <2> SUFFICES ASSUME IInv, PoolInv, [Next]_vars PROVE PoolInv'
      OBVIOUS
    <2>1. CASE UNCHANGED vars
      BY <2>1 DEF vars, PoolInv, Steering, Undone, Whole, D3D11
    <2>2. CASE Next
      BY <2>2, ControlPool, SamplePool, CommitPool, ApplicationPool, WorkerPool
      DEF Next, Receive, SWDeliverThread
    <2> QED  BY <2>1, <2>2
  <1> QED  BY <1>1, <1>2, Invariance, PTL DEF Spec

(***************************************************************************)
(* A codec that asks a committed allocator for a buffer has a decoder, and *)
(* all Count surfaces of that decoder's pool exist: for every pool size    *)
(* and both decoders, Commit never leaves GetBuffer an empty allocator     *)
(* (CD3D11SurfaceAllocator::Alloc, CVideoDecDXVAAllocator::Alloc).         *)
(***************************************************************************)
THEOREM PoolsComplete == Spec => []PoolComplete
  <1>1. IInv /\ PoolInv => PoolComplete
    <2> SUFFICES ASSUME IInv, PoolInv, pcS = "get", why = "buffer", al.committed
                 PROVE  ready /\ Cardinality({s \in al.live : s.gen = pool}) = Count
      BY DEF PoolComplete
    <2>1. ready /\ Whole(al, pool)  BY DEF PoolInv, Steering, Remaking
    <2>2. {s \in al.live : s.gen = pool} = PoolSamples(pool, al.ctx)
      <3>1. \A s \in PoolSamples(pool, al.ctx) : s.gen = pool  BY DEF PoolSamples
      <3>2. ASSUME NEW s \in al.live, s.gen = pool  PROVE s \in PoolSamples(pool, al.ctx)
        <4>1. s \in Sample /\ s.ctx = al.ctx  BY <2>1, <3>2, Before DEF Whole, Sound, Allocator
        <4>2. s.idx \in 0 .. Count - 1 /\ s = [gen |-> s.gen, idx |-> s.idx, ctx |-> s.ctx]
          BY <4>1 DEF Sample
        <4> QED  BY <3>2, <4>1, <4>2 DEF PoolSamples
      <3> QED  BY <2>1, <3>1, <3>2 DEF Whole
    <2> QED  BY <2>1, <2>2, PoolFacts
  <1> QED  BY <1>1, PoolInvariance, PTL
=============================================================================
