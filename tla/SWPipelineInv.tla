---------------------------- MODULE SWPipelineInv ----------------------------
(***************************************************************************)
(* The inductive invariant of SWPipeline, in named parts.                  *)
(***************************************************************************)
EXTENDS SWPipeline

Pushing == {"push.check", "push.wait", "push.insert", "push.space", "push.ready"}
Stopping == {"stop.exit", "stop.wake", "stop.join"}
Flushing == {"flush.test", "flush.set", "flush.wake", "flush.poll", "flushed", "end.lock"}
Told == {"stop.wake", "stop.join"}      \* m_hSWDeliverExit has been set

(***************************************************************************)
(* One thread at a time starts, feeds and stops the worker: the one that   *)
(* holds m_csReceive, or the application in CompleteConnect, which takes no*)
(* lock but finds the graph stopped and nobody in the filter.  The worker  *)
(* and its events live exactly as long as the thread handle, the exit event*)
(* is set only by a thread that is stopping it, and no push goes on        *)
(* meanwhile.                                                              *)
(***************************************************************************)
OneOwner ==
    /\ pc["S"] # "idle" <=> csReceive = "S"
    /\ csReceive = "A" => pc["A"] \in Stopping \cup {"stop.clear", "stopped", "end.pin"}
    /\ pc["A"] = "end.pin" => csReceive = "A"
    /\ Connecting => graph = "stopped" /\ csReceive = NULL
    /\ pc["D"] = "none" <=> ~thread
    /\ \A t \in {"S", "A"} :
        /\ pc[t] \in Pushing \cup Stopping => thread
        /\ pc[t] \in {"push.start", "stop.clear", "stopped"} => ~thread
        /\ pc[t] \in Told => exitEv
    /\ exitEv => \E t \in {"S", "A"} : pc[t] \in Told
    /\ pc["D"] = "ended" => exitEv

(***************************************************************************)
(* What lives only in certain places.                                      *)
(***************************************************************************)
Lifetimes ==
    /\ room => pc["S"] = "push.space"
    /\ ~thread => queue = <<>> /\ ~readyEv /\ ~notFullEv
    /\ pc["A"] \in Flushing => epoch < MaxFlushes

(***************************************************************************)
(* m_hSWQueueNotFull is a licence for one push: while it is set, and apart *)
(* from it for the push that has taken it, there is room for one frame.    *)
(***************************************************************************)
Licence ==
    /\ Len(queue) <= QueueMax
    /\ notFullEv => Len(queue) < QueueMax
    /\ pc["S"] = "push.insert" =>
        Len(queue) < QueueMax /\ (notFullEv => Len(queue) + 1 < QueueMax)
    /\ pc["S"] = "push.space" /\ room => Len(queue) < QueueMax

(***************************************************************************)
(* Frames are numbered as they are decoded.  Those delivered come before   *)
(* the one in the worker's hand, that one before the queue and the queue   *)
(* before the frame that is being pushed, and none is ahead of the count   *)
(* of frames and of flushes.                                               *)
(***************************************************************************)
Past(f) == f.no <= decoded /\ f.epoch <= epoch
Numbered ==
    /\ InOrder
    /\ \A i, j \in DOMAIN queue : i < j => Before(queue[i], queue[j])
    /\ \A i \in DOMAIN delivered :
        /\ Past(delivered[i])
        /\ hand # NULL => Before(delivered[i], hand)
        /\ frame # NULL => Before(delivered[i], frame)
        /\ \A j \in DOMAIN queue : Before(delivered[i], queue[j])
    /\ \A j \in DOMAIN queue :
        /\ Past(queue[j])
        /\ hand # NULL => Before(hand, queue[j])
        /\ frame # NULL => Before(queue[j], frame)
    /\ hand # NULL => Past(hand) /\ (frame # NULL => Before(hand, frame))
    /\ frame # NULL => Past(frame)

PipelineInv ==
    /\ TypeOK /\ OneOwner /\ Lifetimes /\ Licence
    /\ WakeupPending /\ RoomAnnounced /\ StopLosesNothing
=============================================================================
