-------------------------- MODULE SurfaceAllocator --------------------------
(***************************************************************************)
(* The allocators that lend the surfaces of a hardware decoder to the      *)
(* video renderer: CD3D11SurfaceAllocator with CD3D11Decoder, and          *)
(* CVideoDecDXVAAllocator with CDXVA2Decoder.  Both override the Alloc and *)
(* Free of DirectShow's CBaseAllocator; what they inherit from it is       *)
(* external and modelled from how it is used.                              *)
(*                                                                         *)
(* Four threads meet here.  The streaming thread is inside Receive, holds  *)
(* m_csReceive, takes samples for the codec, and re-creates the decoder    *)
(* with its surfaces when the size or the format changes.  After the       *)
(* fallback to software decoding it pushes its frames to the worker of     *)
(* SWPipeline, which asks the same allocator for a buffer for each; of     *)
(* that module only the length of the queue is kept here.  The renderer    *)
(* holds samples as long as it likes and releases them on its own thread.  *)
(* The application stops, runs, flushes, disconnects and destroys.         *)
(*                                                                         *)
(* A locked block of the allocator is one step; the comparison that        *)
(* ReleaseBuffer makes before it takes the lock is a step of its own.      *)
(***************************************************************************)
EXTENDS Integers, FiniteSets

CONSTANTS
    Backends,     \* a subset of {"D3D11", "DXVA2"}: the decoders examined
    Count,        \* m_lCount: samples of a pool
    DecoderMax,   \* surfaces the codec references at once
    QueueMax,     \* SW_PIPELINE_MAX_QUEUE
    Addresses,    \* where av_buffer_ref may place the reference to the frames context
    MaxGens       \* bound: surface pools created in a behaviour

ASSUME BackendsAssumption == Backends \subseteq {"D3D11", "DXVA2"}
ASSUME CountAssumption == Count \in Nat /\ DecoderMax \in 1 .. Count - 1
ASSUME QueueAssumption == QueueMax \in Nat \ {0}
ASSUME AddressAssumption == Addresses \subseteq Nat \ {0} /\ Addresses # {}
ASSUME GensAssumption == MaxGens \in Nat

VARIABLES
    backend,      \* which of the two the output pin uses
    al,           \* the allocator, see Allocator
    dec,          \* samples the codec holds through its frames
    ren,          \* samples the renderer holds
    returning,    \* per thread, the sample whose ReleaseBuffer waits for the lock
    gen,          \* surface pools created so far
    pool,         \* the pool the decoder was created for: m_pFramesCtx, m_pD3DSurface
    ready,        \* the decoder object exists: m_pDecoder, m_pDXVADecoder
    mode,         \* "hw"; "failed": m_bFail... or ~m_bDXVACompatible; "sw" after the
                  \* fallback; "reinit": m_bReinit
    pcS, why,     \* where the streaming thread is, and what it wants a buffer for
    worker,       \* SWDeliverThread: "none", "idle", or "get" inside GetDeliveryBuffer
    queued,       \* frames in m_swPipelineQueue
    app,          \* what the application has done with the filter
    flushing      \* "no"; "begin": m_bSWPipelineFlushing; "end": EndFlush waits for
                  \* m_csReceive; "codec": it has it and flushes the codec

vars == <<backend, al, dec, ren, returning, gen, pool, ready, mode, pcS, why, worker, queued,
          app, flushing>>

Threads == {"stream", "worker", "render", "app"}
NoCtx == 0
D3D11 == backend = "D3D11"

Sample == [gen : 1 .. MaxGens, idx : 0 .. Count - 1, ctx : Nat]

Allocator == [committed : BOOLEAN,      \* m_bCommitted
              pending : BOOLEAN,        \* m_bDecommitInProgress
              free : SUBSET Sample,     \* m_lFree
              allocated : Int,          \* m_lAllocated
              ctx : Nat,                \* m_pFramesCtx; the surface array of DXVA2
              refs : Int,               \* the reference count
              live : SUBSET Sample]     \* CMediaSample objects not yet deleted

\* Faulty variant: a D3D11 sample holds no reference on its allocator either.
RefsOfNone(n) == 0
\* A D3D11 sample holds a reference on its allocator, a DXVA2 sample does not.
RefsOf(n) == IF D3D11 THEN n ELSE 0

PoolSamples(g, c) == {[gen |-> g, idx |-> i, ctx |-> c] : i \in 0 .. Count - 1}

(***************************************************************************)
(* Operations of the allocator, each a locked block.                       *)
(***************************************************************************)
\* CD3D11SurfaceAllocator::Free, CVideoDecDXVAAllocator::Free.
Free(a) == [a EXCEPT !.free = {}, !.live = @ \ a.free, !.allocated = 0, !.ctx = NoCtx,
                     !.refs = @ - RefsOf(Cardinality(a.free))]

Release(a) == [a EXCEPT !.refs = @ - 1]

\* CBaseAllocator::Decommit.
Decommitted(a) ==
    IF ~a.committed /\ ~a.pending THEN a
    ELSE IF Cardinality(a.free) < a.allocated
         THEN [a EXCEPT !.committed = FALSE, !.pending = TRUE]
         ELSE Release(Free([a EXCEPT !.committed = FALSE, !.pending = FALSE]))

\* CBaseAllocator::ReleaseBuffer: the last sample back completes a decommit.
Returned(a, s) ==
    LET b == [a EXCEPT !.free = @ \cup {s}]
    IN  IF b.pending /\ Cardinality(b.free) = b.allocated
        THEN Release(Free([b EXCEPT !.pending = FALSE]))
        ELSE b

\* Faulty variant: ForceDecommit keeps the reference of the commit.
ForceDecommittedKeepingRef(a) ==
    IF a.committed \/ ~a.pending THEN a ELSE Free([a EXCEPT !.pending = FALSE])
\* CD3D11SurfaceAllocator::ForceDecommit.
ForceDecommitted(a) ==
    IF a.committed \/ ~a.pending THEN a
    ELSE Release(Free([a EXCEPT !.pending = FALSE]))

\* The samples Alloc adds, and the count it leaves in m_lAllocated.  The loop of
\* the DXVA2 allocator counts m_lAllocated itself down and leaves it below zero.
Filled(a, g, c) ==
    LET new == PoolSamples(g, c)
    IN  [a EXCEPT !.free = new, !.live = @ \cup new, !.ctx = c,
                  !.allocated = IF D3D11 THEN Count ELSE -1,
                  !.refs = @ + RefsOf(Cardinality(new))]

\* What Alloc may leave behind: the allocator, the codec's samples, and the decoder.
Outcome(ok, a, d, g, p, r) == [ok |-> ok, al |-> a, dec |-> d, gen |-> g, pool |-> p, ready |-> r]

\* CD3D11SurfaceAllocator::Alloc.  Without a frames context it succeeds with no
\* samples; the pool of a context has Count frames, so it fails while a sample
\* still holds one of them.
AllocD3D11(a) ==
    LET b == Free(a)
        out(ok, x) == Outcome(ok, x, dec, gen, pool, ready)
    IN  IF pool = 0 THEN {out(TRUE, b)}
        ELSE {out(FALSE, b)}
             \cup {out(TRUE, Filled(b, pool, c)) :
                       c \in {x \in Addresses : \A s \in b.live : s.gen # pool}}

\* Faulty variant: what the renderer still shows is free as well.
FlushedFreeAll(a) == a.free \cup (IF ready THEN dec ELSE {})
\* FlushDXVADecoder: an existing decoder makes the codec drop its frames.
FlushedFree(a) == a.free \cup (IF ready THEN dec \ ren ELSE {})
FlushedDec == IF ready THEN {} ELSE dec

\* CVideoDecDXVAAllocator::Alloc with CreateDXVA2Decoder: no device, as after the
\* fallback; no surfaces; surfaces without a decoder; a decoder for the surfaces.
AllocDXVA2(a) ==
    LET b == Free([a EXCEPT !.free = FlushedFree(a)])
        noDevice == Outcome(FALSE, a, dec, gen, pool, ready)
    IN  IF mode \in {"sw", "reinit"} THEN {noDevice}
        ELSE {noDevice,
              Outcome(FALSE, b, FlushedDec, gen, pool, ready),
              Outcome(FALSE, b, FlushedDec, gen, pool, FALSE)}
             \cup {Outcome(TRUE, Filled(b, g, g), FlushedDec, g, g, TRUE) :
                       g \in {gen + 1} \cap 1 .. MaxGens}

\* CBaseAllocator::Commit: a pending decommit is cancelled without Alloc.
Committed(o) ==
    IF o.ok THEN [o EXCEPT !.al = [o.al EXCEPT !.committed = TRUE, !.refs = @ + 1]] ELSE o

CommitOutcomes ==
    IF al.committed THEN {Outcome(TRUE, al, dec, gen, pool, ready)}
    ELSE IF al.pending
    THEN {Outcome(TRUE, [al EXCEPT !.committed = TRUE, !.pending = FALSE], dec, gen, pool, ready)}
    ELSE {Committed(o) : o \in IF D3D11 THEN AllocD3D11(al) ELSE AllocDXVA2(al)}

Apply(o) ==
    /\ al' = o.al
    /\ dec' = o.dec
    /\ gen' = o.gen
    /\ pool' = o.pool
    /\ ready' = o.ready

\* Faulty variant: the comparison is the wrong way round.
LateSampleSwapped(s) == D3D11 /\ s.ctx = al.ctx
\* CD3D11SurfaceAllocator::ReleaseBuffer, before the lock: a sample of another
\* frames context is deleted.  The DXVA2 allocator makes no such comparison.
LateSample(s) == D3D11 /\ s.ctx # al.ctx

\* Faulty variant: a late sample gives up its reference but is not deleted.
LastReleaseKept(t, s) ==
    IF LateSample(s)
    THEN al' = Release(al) /\ UNCHANGED returning
    ELSE returning' = [returning EXCEPT ![t] = {s}] /\ UNCHANGED al
LastRelease(t, s) ==
    IF LateSample(s)
    THEN /\ al' = Release([al EXCEPT !.live = @ \ {s}])
         /\ UNCHANGED returning
    ELSE /\ returning' = [returning EXCEPT ![t] = {s}]
         /\ UNCHANGED al

-----------------------------------------------------------------------------
Init ==
    /\ backend \in Backends
    /\ al = [committed |-> FALSE, pending |-> FALSE, free |-> {}, allocated |-> 0,
             ctx |-> NoCtx, refs |-> IF D3D11 THEN 3 ELSE 2, live |-> {}]
    /\ dec = {} /\ ren = {}
    /\ returning = [t \in Threads |-> {}]
    /\ gen = 0 /\ pool = 0
    /\ ready = FALSE
    /\ mode = "hw"
    /\ pcS = "idle" /\ why = "buffer"
    /\ worker = "none" /\ queued = 0
    /\ app = "stopped"
    /\ flushing = "no"

decoderVars == <<gen, pool, ready, mode>>
pipeVars == <<worker, queued>>
streamVars == <<pcS, why, pipeVars>>
appVars == <<app, flushing>>

(***************************************************************************)
(* Releasing a sample: the unlocked comparison, then the locked block.     *)
(***************************************************************************)
\* av_frame_unref of a frame of the codec drops its reference to the sample.
DropFrame(t, s) ==
    /\ returning[t] = {}
    /\ dec' = dec \ {s}
    /\ IF s \in ren THEN UNCHANGED <<al, returning>> ELSE LastRelease(t, s)
    /\ UNCHANGED <<backend, ren, decoderVars, streamVars, appVars>>

RendererReleases(s) ==
    /\ s \in ren
    /\ returning["render"] = {}
    /\ ren' = ren \ {s}
    /\ IF s \in dec THEN UNCHANGED <<al, returning>> ELSE LastRelease("render", s)
    /\ UNCHANGED <<backend, dec, decoderVars, streamVars, appVars>>

\* The locked block.  Once the allocator is destroyed nothing defined follows.
ReleaseBuffer(t) ==
    /\ al.refs > 0
    /\ \E s \in returning[t] : al' = Returned(al, s)
    /\ returning' = [returning EXCEPT ![t] = {}]
    /\ UNCHANGED <<backend, dec, ren, decoderVars, streamVars, appVars>>

(***************************************************************************)
(* The streaming thread, inside Receive or NewSegment.                     *)
(***************************************************************************)
Streaming(from, to) ==
    /\ pcS = from
    /\ pcS' = to
    /\ returning["stream"] = {}
    /\ UNCHANGED <<backend, ren, returning, pipeVars, appVars>>

ReceiveBegin ==
    /\ app \in {"running", "stopping"}
    /\ flushing = "no"
    /\ Streaming("idle", "decode")
    /\ UNCHANGED <<al, dec, decoderVars, why>>

\* NewSegment flushes the codec first; a sample with another media type makes
\* SetMediaType leave the hardware mode and open the codec again, after which
\* Transform skips every sample.  InitDecoder, which NewSegment calls for some
\* codecs, ends the worker before anything else.
NewSegment ==
    /\ app \in {"running", "stopping"}
    /\ flushing = "no"
    /\ why' \in {"segment", "type"}
    /\ mode' = IF why' = "type" THEN "reinit" ELSE mode
    /\ ready' = (ready /\ (D3D11 \/ why' = "segment"))
    /\ \/ Streaming("idle", IF worker = "none" THEN "flush" ELSE "join")
       \/ why' = "segment" /\ Streaming("idle", "flush")
    /\ UNCHANGED <<al, dec, gen, pool>>

ReceiveEnd ==
    /\ Streaming("decode", "idle")
    /\ UNCHANGED <<al, dec, decoderVars, why>>

\* get_d3d11_buffer, get_d3d11_format; av_get_buffer, av_get_format: the codec
\* asks for a surface or chooses its format, and the decoder may have to change.
NeedBuffer ==
    /\ mode \in {"hw", "failed"}
    /\ Cardinality(dec) < DecoderMax
    /\ why' \in {"buffer", "format"}
    /\ \/ ready /\ Streaming("decode", IF why' = "buffer" THEN "get" ELSE "decode")
       \/ ready /\ Streaming("decode", "flush")
       \/ ~ready /\ D3D11 /\ Streaming("decode", "create")
    /\ UNCHANGED <<al, dec, decoderVars>>

\* CheckDXVACompatible refuses what the stream has become.
Incompatible ==
    /\ mode = "hw" /\ ready
    /\ mode' = "failed"
    /\ Streaming("decode", "decode")
    /\ UNCHANGED <<al, dec, gen, pool, ready, why>>

DeliverFrame ==
    /\ pcS = "decode"
    /\ app = "running" /\ mode \in {"hw", "failed"}
    /\ \E s \in dec : ren' = ren \cup {s}
    /\ UNCHANGED <<backend, al, dec, returning, decoderVars, streamVars, appVars>>

StreamDropsFrame ==
    /\ pcS \in {"decode", "flush"}
    /\ \E s \in dec : DropFrame("stream", s)

\* The codec's frames are dropped: avcodec_flush_buffers, or the codec is closed.
Flushed(to) == dec = {} /\ Streaming("flush", to) /\ UNCHANGED <<al, dec, gen, why>>

FlushDone ==
    \/ /\ why \in {"buffer", "format"}
       /\ \/ Flushed(IF D3D11 THEN "create" ELSE "decommit") /\ UNCHANGED mode
          \/ ~D3D11 /\ Flushed("decode") /\ mode' = "failed"
       /\ UNCHANGED <<pool, ready>>
    \/ /\ why = "segment"
       /\ \/ Flushed("idle") /\ UNCHANGED ready
          \/ ~D3D11 /\ mode \in {"hw", "failed"} /\ Flushed("decommit") /\ ready' = FALSE
          \/ ~D3D11 /\ mode \in {"hw", "failed"} /\ Flushed("idle") /\ ready' = FALSE
       /\ UNCHANGED <<pool, mode>>
    \/ /\ why \in {"type", "fallback"}
       /\ Flushed("decode")
       /\ \/ UNCHANGED <<pool, ready>>
          \/ why = "type" /\ D3D11 /\ pool' = 0 /\ ready' = FALSE
       /\ UNCHANGED mode

\* CreateD3D11Decoder: it fails before, in or after AllocateFramesContext, or works.
CreateDecoder ==
    /\ \/ /\ Streaming("create", "decode")
          /\ mode' = "failed"
          /\ ready' = FALSE
          /\ \/ UNCHANGED <<gen, pool>>
             \/ pool' = 0 /\ UNCHANGED gen
             \/ gen < MaxGens /\ gen' = gen + 1 /\ pool' = gen'
       \/ /\ Streaming("create", "decommit")
          /\ gen < MaxGens /\ gen' = gen + 1 /\ pool' = gen'
          /\ ready' = TRUE
          /\ UNCHANGED mode
    /\ UNCHANGED <<al, dec, why>>

StreamDecommit ==
    /\ Streaming("decommit", "check")
    /\ al' = Decommitted(al)
    /\ UNCHANGED <<dec, decoderVars, why>>

\* Faulty variant: the re-commit does not force the samples still outstanding.
CheckDecommitOnly ==
    /\ Streaming("check", "commit")
    /\ UNCHANGED <<al, dec, decoderVars, why>>
\* DecommitInProgress, after which downstream is flushed; only the D3D11
\* decoder then forces what is still outstanding.
CheckDecommit ==
    /\ Streaming("check", IF D3D11 /\ al.pending THEN "force" ELSE "commit")
    /\ UNCHANGED <<al, dec, decoderVars, why>>

ForceDecommit ==
    /\ Streaming("force", "commit")
    /\ al' = ForceDecommitted(al)
    /\ UNCHANGED <<dec, decoderVars, why>>

\* The re-commit.  ReInitD3D11Decoder ignores its result, CheckDXVA2Decoder
\* asks for the fallback, NewSegment only returns it.
AfterCommit(ok) ==
    IF why = "segment" THEN "idle"
    ELSE IF why = "format" \/ (~ok /\ ~D3D11) THEN "decode"
    ELSE "get"

StreamCommit ==
    \E o \in CommitOutcomes :
        /\ Apply(o)
        /\ Streaming("commit", AfterCommit(o.ok))
        /\ mode' = IF ~o.ok /\ ~D3D11 /\ why # "segment" THEN "failed" ELSE mode
        /\ UNCHANGED why

\* CBaseAllocator::GetBuffer: it waits while the list is empty and fails when
\* decommitted.
GetBuffer ==
    /\ Streaming("get", "decode")
    /\ al.committed
    /\ \E s \in al.free : /\ al' = [al EXCEPT !.free = @ \ {s}]
                          /\ dec' = dec \cup {s}
    /\ UNCHANGED <<decoderVars, why>>

GetBufferFails ==
    /\ Streaming("get", "decode")
    /\ ~al.committed
    /\ UNCHANGED <<al, dec, decoderVars, why>>

\* DecodeInternal gives the hardware decoder up and opens the codec again.
Fallback ==
    /\ mode = "failed"
    /\ mode' = "sw"
    /\ ready' = (D3D11 /\ ready)
    /\ why' = "fallback"
    /\ Streaming("decode", "flush")
    /\ UNCHANGED <<al, dec, gen, pool>>

(***************************************************************************)
(* Software frames, when the output pin still has the allocator of the     *)
(* hardware decoder.  The streaming thread waits with m_csReceive while    *)
(* the queue is full; the worker waits in GetDeliveryBuffer with no lock.  *)
(***************************************************************************)
DecodeSWFrame ==
    /\ mode = "sw"
    /\ Streaming("decode", "push")
    /\ UNCHANGED <<al, dec, decoderVars, why>>

\* The first frame starts the worker; during a flush the frame is dropped.
PushSWFrame ==
    /\ pcS = "push" /\ pcS' = "decode"
    /\ \/ flushing = "begin" /\ UNCHANGED pipeVars
       \/ /\ flushing # "begin" /\ queued < QueueMax
          /\ queued' = queued + 1
          /\ worker' = IF worker = "none" THEN "idle" ELSE worker
    /\ UNCHANGED <<backend, al, dec, ren, returning, decoderVars, why, appVars>>

\* StopSWPipeline: the worker empties the queue before it ends.  The application is in
\* Cleanup, or in a CompleteConnect of the output pin.
StopSWPipeline ==
    /\ worker = "idle" /\ queued = 0 /\ returning["worker"] = {}
    /\ worker' = "none"
    /\ \/ pcS = "join" /\ pcS' = "flush"
       \/ pcS = "idle" /\ app = "stopped" /\ UNCHANGED pcS
    /\ UNCHANGED <<backend, al, dec, ren, returning, decoderVars, why, queued, appVars>>

\* SWDeliverThread.
Delivery(from, to) ==
    /\ worker = from
    /\ worker' = to
    /\ returning["worker"] = {}
    /\ UNCHANGED <<backend, dec, ren, decoderVars, pcS, why, appVars>>

PopSWFrame ==
    /\ queued > 0 /\ queued' = queued - 1
    /\ Delivery("idle", IF flushing = "begin" THEN "idle" ELSE "get")
    /\ UNCHANGED <<al, returning>>

\* The sample has no memory: GetPointer fails, the frame is dropped and the sample released.
GetDeliveryBuffer ==
    /\ Delivery("get", "idle")
    /\ al.committed
    /\ \E s \in al.free :
           IF LateSample(s)
           THEN /\ al' = Release([al EXCEPT !.free = @ \ {s}, !.live = @ \ {s}])
                /\ UNCHANGED returning
           ELSE /\ al' = [al EXCEPT !.free = @ \ {s}]
                /\ returning' = [returning EXCEPT !["worker"] = {s}]
    /\ UNCHANGED queued

\* Faulty variant: the worker keeps the frame and tries again.
GetDeliveryBufferAgain ==
    /\ Delivery("get", "get")
    /\ ~al.committed
    /\ UNCHANGED <<al, returning, queued>>
GetDeliveryBufferFails ==
    /\ Delivery("get", "idle")
    /\ ~al.committed
    /\ UNCHANGED <<al, returning, queued>>

SWDeliverThread == PopSWFrame \/ GetDeliveryBuffer \/ GetDeliveryBufferFails

(***************************************************************************)
(* The application.                                                        *)
(***************************************************************************)
Application(from, to) ==
    /\ app = from
    /\ app' = to
    /\ flushing = "no"
    /\ returning["app"] = {}
    /\ UNCHANGED <<backend, ren, returning, mode, streamVars, flushing>>

\* Stop reaches the renderer first: its input pin decommits the allocator.
StopRenderer ==
    /\ Application("running", "stopping")
    /\ al' = Decommitted(al)
    /\ UNCHANGED <<dec, gen, pool, ready>>

\* Then the filter, whose Stop decommits under m_csReceive.
StopFilter ==
    /\ Application("stopping", "stopped")
    /\ pcS = "idle"
    /\ al' = Decommitted(al)
    /\ UNCHANGED <<dec, gen, pool, ready>>

\* Active commits; its failure keeps the graph stopped.
Run ==
    /\ \E o \in CommitOutcomes :
           /\ Apply(o)
           /\ Application("stopped", IF o.ok THEN "running" ELSE "stopped")

\* BreakConnect of both pins, after Cleanup; the DXVA2 allocator is destroyed with them.
Disconnect ==
    LET a == [Decommitted(al) EXCEPT !.refs = @ - 2]
    IN  /\ Application("stopped", "disconnected")
        /\ worker = "none"
        /\ \/ D3D11 /\ al' = a /\ UNCHANGED dec
           \/ ~D3D11 /\ al' = Free([a EXCEPT !.free = FlushedFree(a)]) /\ dec' = FlushedDec
        /\ UNCHANGED <<gen, pool, ready>>

\* DecoderDestruct and Release: by ~CD3D11Decoder, once the codec is closed and
\* the frames context is released, or by PostConnect of the next connection.
DecoderDestruct ==
    /\ D3D11
    /\ Application("disconnected", "released")
    /\ al' = Release(al)
    /\ ready' = FALSE
    /\ pool' = pool \/ (dec = {} /\ pool' = 0)
    /\ UNCHANGED <<dec, gen>>

\* BeginFlush with FlushSWPipeline, which returns at once when there is no worker.
BeginFlush ==
    /\ worker # "none" /\ app = "running"
    /\ flushing = "no" /\ flushing' = "begin"
    /\ returning["app"] = {}
    /\ UNCHANGED <<backend, al, dec, ren, returning, decoderVars, streamVars, app>>

\* FlushSWPipeline returns when the queue is empty, and EndFlush begins.
EndFlush ==
    /\ queued = 0
    /\ flushing = "begin" /\ flushing' = "end"
    /\ UNCHANGED <<backend, al, dec, ren, returning, decoderVars, streamVars, app>>

\* EndFlush, or closing the codec: its frames are dropped under m_csReceive.
FlushCodec ==
    /\ pcS = "idle"
    /\ returning["app"] = {}
    /\ \/ flushing = "end" /\ flushing' = "codec"
       \/ flushing = "no" /\ worker = "none" /\ dec # {} /\ flushing' = "codec"
       \/ flushing = "codec" /\ dec = {} /\ flushing' = "no"
    /\ UNCHANGED <<backend, al, dec, ren, returning, decoderVars, streamVars, app>>

AppDropsFrame == flushing = "codec" /\ \E s \in dec : DropFrame("app", s)
-----------------------------------------------------------------------------
Receive ==
    \/ NeedBuffer \/ Incompatible \/ DeliverFrame \/ StreamDropsFrame \/ FlushDone
    \/ CreateDecoder \/ StreamDecommit \/ CheckDecommit \/ ForceDecommit \/ StreamCommit
    \/ GetBuffer \/ GetBufferFails \/ Fallback \/ DecodeSWFrame \/ PushSWFrame

Next ==
    \/ ReceiveBegin \/ NewSegment \/ ReceiveEnd \/ Receive
    \/ \E s \in ren : RendererReleases(s)
    \/ \E t \in Threads : ReleaseBuffer(t)
    \/ StopSWPipeline \/ SWDeliverThread
    \/ StopRenderer \/ StopFilter \/ Run \/ Disconnect \/ DecoderDestruct
    \/ BeginFlush \/ EndFlush \/ FlushCodec \/ AppDropsFrame

Spec == Init /\ [][Next]_vars

Fairness ==
    /\ WF_vars(Receive)
    /\ SF_vars(ReceiveEnd)
    /\ WF_vars(\E s \in ren : RendererReleases(s))
    /\ \A t \in Threads : WF_vars(ReleaseBuffer(t))
    /\ WF_vars(StopSWPipeline) /\ WF_vars(SWDeliverThread)
    /\ WF_vars(EndFlush) /\ SF_vars(FlushCodec) /\ WF_vars(AppDropsFrame)
    /\ SF_vars(StopFilter)

FairSpec == Spec /\ Fairness
-----------------------------------------------------------------------------
AtMostOne(S) == {{}} \cup {{s} : s \in S}

Held == dec \cup ren \cup UNION {returning[t] : t \in Threads}

\* References on the allocator besides those of the samples and of Commit: the
\* two pins', and the one CD3D11Decoder keeps for itself.
Owners ==
    CASE app = "disconnected" -> IF D3D11 THEN 1 ELSE 0
      [] app = "released" -> 0
      [] OTHER -> IF D3D11 THEN 3 ELSE 2

\* Every variable has its type, nobody holds a sample that was deleted, and no
\* decommit is in progress while the allocator is committed.
TypeOK ==
    /\ backend \in Backends
    /\ al \in Allocator
    /\ IsFiniteSet(al.live) /\ \A s \in al.live : s.gen \in 1 .. gen
    /\ ~(al.committed /\ al.pending)
    /\ dec \subseteq al.live /\ ren \subseteq al.live
    /\ returning \in [Threads -> AtMostOne(al.live)]
    /\ gen \in 0 .. MaxGens /\ pool \in 0 .. gen
    /\ ready \in BOOLEAN
    /\ mode \in {"hw", "failed", "sw", "reinit"}
    /\ pcS \in {"idle", "decode", "flush", "create", "decommit", "check", "force", "commit", "get",
                "join", "push"}
    /\ why \in {"buffer", "format", "segment", "type", "fallback"}
    /\ worker \in {"none", "idle", "get"} /\ queued \in 0 .. QueueMax
    /\ app \in {"running", "stopping", "stopped", "disconnected", "released"}
    /\ flushing \in {"no", "begin", "end", "codec"}

\* Through every decommit, forced or not, and every late release a sample is
\* either free, or held, or on its way back, in one place only: none is lent
\* twice, lost, or put on the free list while somebody still holds it.
Conserved ==
    /\ al.live = al.free \cup Held
    /\ al.free \cap Held = {}
    /\ \A t \in Threads : returning[t] \cap (dec \cup ren) = {}
    /\ \A t, u \in Threads : t # u => returning[t] \cap returning[u] = {}

\* The references the allocator has are those of the pins and the decoder, one
\* for a commit that is not completely undone, and with D3D11 one per sample.
\* A decommit completed twice, or forced and completed, would break it.
RefsMatch ==
    al.refs = Owners + (IF al.committed \/ al.pending THEN 1 ELSE 0) + RefsOf(Cardinality(al.live))

\* A D3D11 allocator exists as long as anybody holds one of its samples, after
\* the pins are disconnected and the decoder is gone too.
AllocatorOutlivesSamples == D3D11 /\ Held # {} => al.refs > 0

\* When the codec asks a committed allocator for a buffer there is a decoder, the
\* surfaces are those it was created for, and all of them exist: Alloc that finds
\* no frames context succeeds with no samples, and GetBuffer would wait for ever.
PoolComplete ==
    pcS = "get" /\ why = "buffer" /\ al.committed =>
        /\ ready
        /\ Cardinality({s \in al.live : s.gen = pool}) = Count

\* Seen from the codec and the renderer the allocator is a lender: while committed it lends
\* every sample to one of them at a time and loses none of the pool it has the frames
\* context of, whatever comes back late, is forced or is allocated again.
CurrentPool == IF al.ctx = NoCtx THEN {} ELSE {s \in al.live : s.ctx = al.ctx}
Lender == INSTANCE SampleLender WITH
    Sample <- Sample, open <- al.committed, pool <- CurrentPool, free <- al.free, lent <- Held
ImplementsLender == Lender!Spec

\* Supposed by the warning "decommit of the allocator still not complete": a
\* decommit waits for the samples that are out, so that every sample the codec
\* gets shows a surface of the pool its decoder was created for.
FreshSurface == [][\A s \in dec' \ dec : s.gen = pool']_vars

\* Stop, which needs m_csReceive, returns though the streaming thread may wait with
\* it, in GetBuffer or for room in the worker's queue, and may have committed the
\* allocator again after Stop decommitted it.
StopReturns == app = "stopping" ~> app = "stopped"

\* A codec that waits for a surface gets one or an error.
DecoderWaitEnds == pcS = "get" /\ why = "buffer" ~> pcS # "get"

\* Claimed by "carries it on the next delivered sample": after the fallback in
\* place the worker gets a buffer, or an error, of the allocator that the output
\* pin still has for a frame decoded in software.
FallbackDelivers == worker = "get" ~> worker # "get"
=============================================================================
