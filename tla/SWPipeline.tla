------------------------------ MODULE SWPipeline ------------------------------
(***************************************************************************)
(* The software delivery pipeline of CMPCVideoDecFilter (MPCVideoDec.cpp): *)
(* the streaming thread decodes and pushes frames into a bounded queue, a  *)
(* worker thread converts and delivers them, and the application flushes,  *)
(* pauses, stops and disconnects meanwhile.                                *)
(*                                                                         *)
(*   "S"  the streaming thread: Receive, EndOfStream, NewSegment           *)
(*   "D"  the worker: SWDeliverThread                                      *)
(*   "A"  the application: BeginFlush, EndFlush, graph control, Cleanup    *)
(***************************************************************************)
EXTENDS Naturals, Sequences

CONSTANTS
    NULL,
    QueueMax,       \* SW_PIPELINE_MAX_QUEUE
    VideoRenderer,  \* whether the output is connected to a video renderer
    Refuses,        \* whether GetDeliveryBuffer may fail although nothing is flushed
    MaxFrames,      \* bound of the model: frames decoded
    MaxFlushes      \* bound of the model: flushes

Frames == [no : 1 .. MaxFrames, epoch : 0 .. MaxFlushes]
ASSUME NullAssumption == NULL \notin {"S", "D", "A"} \cup Frames
ASSUME QueueAssumption == QueueMax \in Nat \ {0}
ASSUME SettingsAssumption == VideoRenderer \in BOOLEAN /\ Refuses \in BOOLEAN
ASSUME BoundsAssumption == MaxFrames \in Nat /\ MaxFlushes \in Nat

VARIABLES
    pc,
    csReceive,      \* owner of m_csReceive
    thread,         \* m_hSWDeliverThread # nullptr; the other three handles live as long
    readyEv,        \* m_hSWFrameReady (auto reset)
    notFullEv,      \* m_hSWQueueNotFull (auto reset)
    exitEv,         \* m_hSWDeliverExit (manual reset)
    flushing,       \* m_bSWPipelineFlushing
    queue,          \* m_swPipelineQueue
    frame,          \* the frame PushSWFrame was called with, NULL outside
    room,           \* bStillHasSpace of PushSWFrame
    hand,           \* f of SWDeliverThread, NULL when it has none
    reinit,         \* m_bReinit: samples are skipped
    pinFlush,       \* the input pin is flushing: it refuses samples
    outFlush,       \* the connected pin is flushing: it refuses samples
    graph,          \* "stopped", "paused" or "running"
    epoch,          \* flushes completed; a frame keeps the epoch of its sample
    decoded,        \* frames decoded
    delivered       \* history: the frames the connected pin has accepted

events == <<readyEv, notFullEv, exitEv>>
worker == <<thread, flushing, queue, hand>>
stream == <<csReceive, frame, room, reinit, decoded>>
outside == <<pinFlush, outFlush, graph, epoch, delivered>>
vars == <<pc, events, worker, stream, outside>>

Goto(t, l) == pc' = [pc EXCEPT ![t] = l]
Step(t, from, to) == pc[t] = from /\ Goto(t, to)

-----------------------------------------------------------------------------
(***************************************************************************)
(* PushSWFrame, and StartSWPipeline before the first frame.                *)
(***************************************************************************)
Decoded ==      \* avcodec_receive_frame has one more frame
    /\ pc["S"] = "decode" /\ decoded < MaxFrames
    /\ Goto("S", IF thread THEN "push.check" ELSE "push.start")
    /\ decoded' = decoded + 1
    /\ frame' = [no |-> decoded + 1, epoch |-> epoch]
    /\ UNCHANGED <<csReceive, room, reinit, events, worker, outside>>

StartSWPipeline ==
    /\ pc["S"] = "push.start"
    /\ pc' = [pc EXCEPT !["S"] = "push.check", !["D"] = "wait"]
    /\ thread' = TRUE /\ flushing' = FALSE
    /\ readyEv' = FALSE /\ notFullEv' = TRUE /\ exitEv' = FALSE
    /\ UNCHANGED <<queue, hand, stream, outside>>

PushDrop ==     \* a flush, or the exit event: the frame is freed
    /\ \/ Step("S", "push.check", "decode") /\ flushing
       \/ Step("S", "push.wait", "decode") /\ ~notFullEv /\ exitEv
    /\ frame' = NULL
    /\ UNCHANGED <<csReceive, room, reinit, decoded, events, worker, outside>>
PushCheck ==
    /\ Step("S", "push.check", "push.wait")
    /\ ~flushing
    /\ UNCHANGED <<events, worker, stream, outside>>
PushTimeoutFrees ==     \* faulty variant: the frame is freed although the loop goes on
    /\ Step("S", "push.wait", "push.check")
    /\ ~notFullEv /\ ~exitEv
    /\ frame' = NULL
    /\ UNCHANGED <<csReceive, room, reinit, decoded, events, worker, outside>>
PushTimeout ==  \* after 50 ms the flag is looked at again
    /\ Step("S", "push.wait", "push.check")
    /\ ~notFullEv /\ ~exitEv
    /\ UNCHANGED <<events, worker, stream, outside>>
PushWait ==     \* the wait consumes m_hSWQueueNotFull
    /\ Step("S", "push.wait", "push.insert")
    /\ notFullEv /\ notFullEv' = FALSE
    /\ UNCHANGED <<readyEv, exitEv, worker, stream, outside>>
PushInFront ==  \* faulty variant: the frame is put before those that wait
    /\ Step("S", "push.insert", "push.space")
    /\ queue' = <<frame>> \o queue
    /\ room' = (Len(queue) + 1 < QueueMax)
    /\ frame' = NULL
    /\ UNCHANGED <<csReceive, reinit, decoded, events, thread, flushing, hand, outside>>
PushInsert ==   \* push_back and bStillHasSpace under m_csSWPipeline
    /\ Step("S", "push.insert", "push.space")
    /\ queue' = Append(queue, frame)
    /\ room' = (Len(queue) + 1 < QueueMax)
    /\ frame' = NULL
    /\ UNCHANGED <<csReceive, reinit, decoded, events, thread, flushing, hand, outside>>
PushSpaceAlways ==      \* faulty variant: bStillHasSpace is not looked at
    /\ Step("S", "push.space", "push.ready")
    /\ notFullEv' = TRUE /\ room' = FALSE
    /\ UNCHANGED <<readyEv, exitEv, worker, csReceive, frame, reinit, decoded, outside>>
PushSpaceLater ==       \* faulty variant: m_hSWQueueNotFull is left to the worker
    /\ Step("S", "push.space", "push.ready")
    /\ room' = FALSE
    /\ UNCHANGED <<events, worker, csReceive, frame, reinit, decoded, outside>>
PushSpace ==
    /\ Step("S", "push.space", "push.ready")
    /\ notFullEv' = (notFullEv \/ room) /\ room' = FALSE
    /\ UNCHANGED <<readyEv, exitEv, worker, csReceive, frame, reinit, decoded, outside>>
PushReady ==
    /\ Step("S", "push.ready", "decode")
    /\ readyEv' = TRUE
    /\ UNCHANGED <<notFullEv, exitEv, worker, stream, outside>>
PushSWFrame ==
    \/ PushDrop \/ PushCheck \/ PushTimeout \/ PushWait \/ PushInsert \/ PushSpace \/ PushReady

(***************************************************************************)
(* StopSWPipeline by thread t, which takes no lock of its own: its caller  *)
(* holds m_csReceive, or is a CompleteConnect.                             *)
(***************************************************************************)
StopExitForgotten(t) == \* faulty variant: the worker is woken, and not told to end
    /\ Step(t, "stop.exit", "stop.wake")
    /\ UNCHANGED <<events, worker, stream, outside>>
StopExit(t) ==
    /\ Step(t, "stop.exit", "stop.wake")
    /\ exitEv' = TRUE
    /\ UNCHANGED <<readyEv, notFullEv, worker, stream, outside>>
StopWake(t) ==
    /\ Step(t, "stop.wake", "stop.join")
    /\ readyEv' = TRUE
    /\ UNCHANGED <<notFullEv, exitEv, worker, stream, outside>>
StopJoin(t) ==  \* the thread has ended: the handles are closed
    /\ pc[t] = "stop.join" /\ pc["D"] = "ended"
    /\ pc' = [pc EXCEPT ![t] = "stop.clear", !["D"] = "none"]
    /\ thread' = FALSE
    /\ readyEv' = FALSE /\ notFullEv' = FALSE /\ exitEv' = FALSE
    /\ UNCHANGED <<flushing, queue, hand, stream, outside>>
StopClear(t) ==
    /\ Step(t, "stop.clear", "stopped")
    /\ queue' = <<>>
    /\ UNCHANGED <<thread, flushing, hand, events, stream, outside>>
StopSWPipeline(t) == StopExit(t) \/ StopWake(t) \/ StopJoin(t) \/ StopClear(t)
StopEntry == IF thread THEN "stop.exit" ELSE "stopped"

-----------------------------------------------------------------------------
(***************************************************************************)
(* SWDeliverThread.  Of two signaled events the wait reports               *)
(* m_hSWFrameReady; the queue is emptied before the next wait.             *)
(***************************************************************************)
DWake ==
    /\ Step("D", "wait", "pop")
    /\ readyEv /\ readyEv' = FALSE
    /\ UNCHANGED <<notFullEv, exitEv, worker, stream, outside>>
DExitFirst ==   \* faulty variant: the exit event is the first of the two handles
    /\ Step("D", "wait", "ended")
    /\ exitEv
    /\ UNCHANGED <<events, worker, stream, outside>>
DExit ==
    /\ Step("D", "wait", "ended")
    /\ ~readyEv /\ exitEv
    /\ UNCHANGED <<events, worker, stream, outside>>
DEmpty ==
    /\ Step("D", "pop", "wait")
    /\ queue = <<>>
    /\ UNCHANGED <<events, worker, stream, outside>>
DPopSilent ==   \* faulty variant: m_hSWQueueNotFull is not set
    /\ Step("D", "pop", "check")
    /\ queue # <<>>
    /\ hand' = Head(queue) /\ queue' = Tail(queue)
    /\ UNCHANGED <<events, thread, flushing, stream, outside>>
DPop ==         \* m_hSWQueueNotFull is set before m_csSWPipeline is released
    /\ Step("D", "pop", "check")
    /\ queue # <<>>
    /\ hand' = Head(queue) /\ queue' = Tail(queue)
    /\ notFullEv' = (notFullEv \/ Len(queue) - 1 < QueueMax)
    /\ UNCHANGED <<readyEv, exitEv, thread, flushing, stream, outside>>
DDiscard ==
    /\ Step("D", "check", "pop")
    /\ flushing /\ hand' = NULL
    /\ UNCHANGED <<events, thread, flushing, queue, stream, outside>>
DCheck ==
    /\ Step("D", "check", "deliver")
    /\ ~flushing
    /\ UNCHANGED <<events, worker, stream, outside>>
DAcceptedOne == \* faulty variant: one frame is delivered for each event
    /\ Step("D", "deliver", "wait")
    /\ ~outFlush /\ graph = "running"
    /\ delivered' = Append(delivered, hand) /\ hand' = NULL
    /\ UNCHANGED <<events, thread, flushing, queue, stream, pinFlush, outFlush, graph, epoch>>
\* GetDeliveryBuffer and Deliver.  A paused renderer keeps the thread waiting.
DAccepted ==
    /\ Step("D", "deliver", "pop")
    /\ ~outFlush /\ graph = "running"
    /\ delivered' = Append(delivered, hand) /\ hand' = NULL
    /\ UNCHANGED <<events, thread, flushing, queue, stream, pinFlush, outFlush, graph, epoch>>
DRefused ==
    /\ Step("D", "deliver", "pop")
    /\ outFlush \/ graph = "stopped" \/ Refuses
    /\ hand' = NULL
    /\ UNCHANGED <<events, thread, flushing, queue, stream, outside>>
SWDeliverThread ==
    \/ DWake \/ DExit \/ DEmpty \/ DPop \/ DDiscard \/ DCheck \/ DAccepted \/ DRefused

-----------------------------------------------------------------------------
(***************************************************************************)
(* The streaming thread.  CTransformInputPin takes m_csReceive and then    *)
(* asks whether the pin is flushing or the filter stopped.  No source is   *)
(* active while the application connects pins.                             *)
(***************************************************************************)
Connecting ==
    /\ pc["A"] \in {"stop.exit", "stop.wake", "stop.join", "stop.clear", "stopped"}
    /\ csReceive # "A"
Enter(l) ==
    /\ ~Connecting
    /\ Step("S", "idle", l)
    /\ csReceive = NULL /\ csReceive' = "S"
    /\ UNCHANGED <<frame, room, reinit, decoded, events, worker, outside>>
Streams == ~pinFlush /\ graph # "stopped"

Receive == Streams /\ Enter(IF reinit THEN "leave" ELSE "decode")
EndOfStream == Streams /\ Enter("decode")
\* H.264 and MPEG-2 decoders are initialized again.
NewSegment == Enter("leave") \/ Enter(StopEntry)
\* A sample with a new type: SetMediaType, that is InitDecoder and ChangeOutputMediaFormat.  A
\* video renderer is told the new type in place; other filters are connected again, which
\* resets m_bReinit unless it fails.
TypeChange ==
    /\ Streams /\ ~Connecting
    /\ Step("S", "idle", StopEntry)
    /\ csReceive = NULL /\ csReceive' = "S"
    /\ reinit' \in {VideoRenderer, TRUE}
    /\ UNCHANGED <<frame, room, decoded, events, worker, outside>>
Leave ==
    /\ pc["S"] \in {"decode", "stopped", "leave"} /\ Goto("S", "idle")
    /\ csReceive' = NULL
    /\ UNCHANGED <<frame, room, reinit, decoded, events, worker, outside>>

StreamStep ==
    Decoded \/ StartSWPipeline \/ PushSWFrame \/ StopSWPipeline("S") \/ Leave
Upstream == Receive \/ EndOfStream \/ NewSegment \/ TypeChange

-----------------------------------------------------------------------------
(***************************************************************************)
(* The application.  BeginFlush does not take m_csReceive, EndFlush does.  *)
(***************************************************************************)
BeginFlushLate ==       \* faulty variant: FlushSWPipeline comes before the base class
    /\ Step("A", "idle", "flush.test")
    /\ graph # "stopped" /\ epoch < MaxFlushes
    /\ pinFlush' = TRUE /\ UNCHANGED outFlush
    /\ UNCHANGED <<graph, epoch, delivered, events, worker, stream>>
BeginFlush ==   \* the base class passes it on, so that a delivery that waits comes back
    /\ Step("A", "idle", "flush.test")
    /\ graph # "stopped" /\ epoch < MaxFlushes
    /\ pinFlush' = TRUE /\ outFlush' = TRUE
    /\ UNCHANGED <<graph, epoch, delivered, events, worker, stream>>
FlushTest ==
    /\ Step("A", "flush.test", IF thread THEN "flush.set" ELSE "flushed")
    /\ UNCHANGED <<events, worker, stream, outside>>
FlushSet ==
    /\ Step("A", "flush.set", "flush.wake")
    /\ flushing' = TRUE
    /\ UNCHANGED <<thread, queue, hand, events, stream, outside>>
FlushWake ==    \* without the thread the handle is null
    /\ Step("A", "flush.wake", "flush.poll")
    /\ readyEv' = (readyEv \/ thread)
    /\ UNCHANGED <<notFullEv, exitEv, worker, stream, outside>>
FlushPoll ==
    /\ Step("A", "flush.poll", "flushed")
    /\ queue = <<>>
    /\ UNCHANGED <<events, worker, stream, outside>>
EndFlush ==
    /\ Step("A", "flushed", "end.lock")
    /\ flushing' = FALSE
    /\ UNCHANGED <<thread, queue, hand, events, stream, outside>>
EndFlushBase == \* m_csReceive is held from here to the end
    /\ Step("A", "end.lock", "end.pin")
    /\ csReceive = NULL /\ csReceive' = "A"
    /\ outFlush' = FALSE /\ epoch' = epoch + 1
    /\ UNCHANGED <<pinFlush, graph, delivered, frame, room, reinit, decoded, events, worker>>
EndFlushPin ==
    /\ Step("A", "end.pin", "idle")
    /\ csReceive' = NULL
    /\ pinFlush' = FALSE
    /\ UNCHANGED <<outFlush, graph, epoch, delivered, frame, room, reinit, decoded, events, worker>>

\* Graph control.  The source has left the filter when the graph has stopped.
Control ==
    /\ pc["A"] = "idle"
    /\ \/ graph = "paused" /\ graph' = "running"
       \/ graph = "running" /\ graph' = "paused"
       \/ graph # "stopped" /\ graph' = "stopped"
       \/ graph = "stopped" /\ csReceive = NULL /\ graph' = "paused"
    /\ UNCHANGED <<pc, pinFlush, outFlush, epoch, delivered, events, worker, stream>>
BreakConnectUnlocked == \* faulty variant: Cleanup does not take m_csReceive
    /\ Step("A", "idle", StopEntry)
    /\ graph = "stopped"
    /\ UNCHANGED <<stream, events, worker, outside>>
\* BreakConnect of the input pin: Cleanup, with CleanupFFmpeg.
BreakConnect ==
    /\ Step("A", "idle", StopEntry)
    /\ graph = "stopped"
    /\ csReceive = NULL /\ csReceive' = "A"
    /\ UNCHANGED <<frame, room, reinit, decoded, events, worker, outside>>
\* The output pin alone is connected again, when the source's thread has left the filter, and
\* hardware decoding cannot go on with the other renderer: CompleteConnect calls InitDecoder,
\* with CleanupFFmpeg, and does not take m_csReceive.
ReconnectOutput ==
    /\ Step("A", "idle", StopEntry)
    /\ graph = "stopped" /\ csReceive = NULL
    /\ UNCHANGED <<events, worker, stream, outside>>
\* The end of CompleteConnect, of this connection or of one after BreakConnect.  When
\* InitDecoder has failed the connection fails.
CompleteConnect ==
    /\ Step("A", "stopped", "idle")
    /\ csReceive' = NULL
    /\ reinit' = FALSE \/ (Connecting /\ reinit' = reinit)
    /\ UNCHANGED <<frame, room, decoded, events, worker, outside>>

Application == BeginFlush \/ Control \/ BreakConnect \/ ReconnectOutput
ApplicationStep ==
    \/ FlushTest \/ FlushSet \/ FlushWake \/ FlushPoll
    \/ EndFlush \/ EndFlushBase \/ EndFlushPin
    \/ StopSWPipeline("A") \/ CompleteConnect

-----------------------------------------------------------------------------
Init ==
    /\ pc = [S |-> "idle", D |-> "none", A |-> "idle"]
    /\ csReceive = NULL
    /\ thread = FALSE /\ readyEv = FALSE /\ notFullEv = FALSE /\ exitEv = FALSE
    /\ flushing = FALSE /\ queue = <<>> /\ hand = NULL
    /\ frame = NULL /\ room = FALSE /\ reinit = FALSE /\ decoded = 0
    /\ pinFlush = FALSE /\ outFlush = FALSE /\ graph = "paused"
    /\ epoch = 0 /\ delivered = <<>>

Next == SWDeliverThread \/ StreamStep \/ Upstream \/ Application \/ ApplicationStep

(***************************************************************************)
(* Each thread goes on when it can; nothing is assumed of the application  *)
(* and of the upstream filter.                                             *)
(***************************************************************************)
Fairness ==
    /\ WF_vars(SWDeliverThread) /\ WF_vars(StreamStep)
    /\ WF_vars(ApplicationStep) /\ SF_vars(EndFlushBase)
Spec == Init /\ [][Next]_vars
FairSpec == Spec /\ Fairness

-----------------------------------------------------------------------------
Places == [
    S |-> {"idle", "decode", "push.start", "push.check", "push.wait", "push.insert", "push.space",
           "push.ready", "leave", "stop.exit", "stop.wake", "stop.join", "stop.clear", "stopped"},
    D |-> {"none", "wait", "pop", "check", "deliver", "ended"},
    A |-> {"idle", "flush.test", "flush.set", "flush.wake", "flush.poll", "flushed", "end.lock",
           "end.pin", "stop.exit", "stop.wake", "stop.join", "stop.clear", "stopped"}]
PlacesOK ==
    /\ DOMAIN pc = {"S", "D", "A"}
    /\ pc["S"] \in Places.S /\ pc["D"] \in Places.D /\ pc["A"] \in Places.A
EventsOK == readyEv \in BOOLEAN /\ notFullEv \in BOOLEAN /\ exitEv \in BOOLEAN
WorkerOK ==
    /\ thread \in BOOLEAN /\ flushing \in BOOLEAN
    /\ queue \in Seq(Frames) /\ hand \in Frames \cup {NULL}
StreamOK ==
    /\ csReceive \in {NULL, "S", "A"} /\ frame \in Frames \cup {NULL}
    /\ room \in BOOLEAN /\ reinit \in BOOLEAN /\ decoded \in 0 .. MaxFrames
OutsideOK ==
    /\ pinFlush \in BOOLEAN /\ outFlush \in BOOLEAN
    /\ graph \in {"stopped", "paused", "running"}
    /\ epoch \in 0 .. MaxFlushes /\ delivered \in Seq(Frames)
TypeOK ==
    /\ PlacesOK /\ EventsOK /\ WorkerOK /\ StreamOK /\ OutsideOK
    /\ hand # NULL <=> pc["D"] \in {"check", "deliver"}
    /\ frame # NULL <=> pc["S"] \in {"push.start", "push.check", "push.wait", "push.insert"}

(***************************************************************************)
(* The queue never holds more than SW_PIPELINE_MAX_QUEUE frames, although  *)
(* the count is tested by neither thread before it inserts: the auto-reset *)
(* event m_hSWQueueNotFull is a licence for one push.                      *)
(***************************************************************************)
QueueBounded == Len(queue) <= QueueMax

(***************************************************************************)
(* No wakeup is lost: frames that wait in the queue are being emptied, or  *)
(* m_hSWFrameReady is set or about to be.                                  *)
(***************************************************************************)
WakeupPending ==
    thread /\ queue # <<>> =>
        \/ readyEv
        \/ pc["D"] \in {"pop", "check", "deliver"}
        \/ pc["S"] \in {"push.space", "push.ready"}

(***************************************************************************)
(* No room is lost: while the queue is not full, m_hSWQueueNotFull is set, *)
(* about to be, or taken by a push on its way.                             *)
(***************************************************************************)
RoomAnnounced ==
    thread /\ Len(queue) < QueueMax =>
        \/ notFullEv
        \/ pc["S"] = "push.insert"
        \/ pc["S"] = "push.space" /\ room

(***************************************************************************)
(* StopSWPipeline never throws a frame away: when the worker has ended the *)
(* queue is empty, because it empties it before it looks at the exit       *)
(* event.                                                                  *)
(***************************************************************************)
StopLosesNothing == pc["D"] = "ended" => queue = <<>>

(***************************************************************************)
(* The renderer gets the frames in the order they were decoded, each at    *)
(* most once; in particular a frame that outlives a flush comes before all *)
(* that were decoded after it.                                             *)
(***************************************************************************)
Before(f, g) == f.no < g.no /\ f.epoch <= g.epoch
InOrder == \A i, j \in DOMAIN delivered : i < j => Before(delivered[i], delivered[j])

(***************************************************************************)
(* A frame decoded before a flush is not delivered after it.               *)
(***************************************************************************)
FlushDiscards ==
    [][DAccepted => hand.epoch = epoch]_vars

(***************************************************************************)
(* FlushSWPipeline comes back, also when the renderer is paused.           *)
(***************************************************************************)
FlushReturns == pc["A"] = "flush.poll" ~> pc["A"] # "flush.poll"

(***************************************************************************)
(* PushSWFrame comes back while the renderer runs.                         *)
(***************************************************************************)
PushReturns ==
    pc["S"] = "push.wait" /\ graph = "running" ~> pc["S"] = "decode" \/ graph # "running"

(***************************************************************************)
(* StopSWPipeline comes back when the graph is stopped or runs.            *)
(***************************************************************************)
StopReturns ==
    \A t \in {"S", "A"} :
        pc[t] = "stop.join" /\ graph # "paused" ~> pc[t] # "stop.join" \/ graph = "paused"

(***************************************************************************)
(* Samples are skipped only while the decoder is being initialized.        *)
(***************************************************************************)
SkipsForAWhile == reinit ~> ~reinit

(***************************************************************************)
(* The pipeline is a bounded channel: a frame is on its way from the push  *)
(* until it is delivered, one of them in the worker's hand.                *)
(***************************************************************************)
Channel == INSTANCE FrameChannel WITH
    Frame <- Frames, Capacity <- QueueMax + 1, Refuses <- Refuses,
    way <- IF hand = NULL THEN queue ELSE <<hand>> \o queue,
    delivered <- delivered,
    flush <- flushing \/ outFlush \/ graph = "stopped"
ImplementsChannel == Channel!Spec

=============================================================================
