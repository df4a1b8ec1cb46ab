----------------------------- MODULE FrameChannel -----------------------------
(***************************************************************************)
(* What the software delivery pipeline of CMPCVideoDecFilter promises: a   *)
(* bounded channel from the decoder to the renderer.  Frames leave in the  *)
(* order they came, each at most once, and a frame that was sent is        *)
(* discarded only in a flush, or because the output refuses it.            *)
(***************************************************************************)
EXTENDS Naturals, Sequences

CONSTANTS
    Frame,          \* the frames
    Capacity,       \* how many frames may be on their way
    Refuses         \* whether the output may refuse a frame

VARIABLES
    way,            \* frames sent and not yet delivered, the oldest first
    delivered,      \* frames the renderer has accepted
    flush           \* a flush is going on
vars == <<way, delivered, flush>>

Init == way = <<>> /\ delivered = <<>> /\ flush = FALSE

Send ==
    \E f \in Frame :
        /\ Len(way) < Capacity
        /\ way' = Append(way, f)
        /\ UNCHANGED <<delivered, flush>>
Deliver ==
    /\ way # <<>>
    /\ delivered' = Append(delivered, Head(way))
    /\ way' = Tail(way)
    /\ UNCHANGED flush
Discard ==
    /\ way # <<>> /\ (flush \/ Refuses)
    /\ way' = Tail(way)
    /\ UNCHANGED <<delivered, flush>>
Flush == flush' = ~flush /\ UNCHANGED <<way, delivered>>

Next == Send \/ Deliver \/ Discard \/ Flush
Spec == Init /\ [][Next]_vars
=============================================================================
