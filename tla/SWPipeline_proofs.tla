--------------------------- MODULE SWPipeline_proofs ---------------------------
(***************************************************************************)
(* Theorems about SWPipeline, for every queue length, every number of      *)
(* frames and flushes, and both kinds of output.                           *)
(***************************************************************************)
EXTENDS SWPipelineInv, TLAPS

-----------------------------------------------------------------------------
(***************************************************************************)
(* Sequences: what Append, Tail and the worker's hand do.                  *)
(***************************************************************************)
LEMMA AppendFacts ==
  ASSUME NEW S, NEW s \in Seq(S), NEW e \in S
  PROVE  /\ Append(s, e) \in Seq(S) /\ Len(Append(s, e)) = Len(s) + 1
         /\ DOMAIN Append(s, e) = 1 .. Len(s) + 1 /\ DOMAIN s = 1 .. Len(s)
         /\ \A i \in DOMAIN s : Append(s, e)[i] = s[i]
         /\ Append(s, e)[Len(s) + 1] = e
         /\ Append(s, e) # <<>> /\ Len(s) \in Nat
  OBVIOUS

LEMMA TailFacts ==
  ASSUME NEW S, NEW s \in Seq(S), s # <<>>
  PROVE  /\ Tail(s) \in Seq(S) /\ Len(Tail(s)) = Len(s) - 1 /\ Len(s) \in Nat \ {0}
         /\ DOMAIN Tail(s) = 1 .. Len(s) - 1 /\ DOMAIN s = 1 .. Len(s)
         /\ \A i \in DOMAIN Tail(s) : Tail(s)[i] = s[i + 1]
         /\ Head(s) \in S /\ Head(s) = s[1]
         /\ s = <<Head(s)>> \o Tail(s)
  OBVIOUS

LEMMA ConcatFacts ==
  ASSUME NEW S, NEW s \in Seq(S), NEW e \in S, NEW f \in S
  PROVE  /\ <<e>> \o s \in Seq(S) /\ Len(<<e>> \o s) = Len(s) + 1 /\ <<e>> \o s # <<>>
         /\ Head(<<e>> \o s) = e /\ Tail(<<e>> \o s) = s
         /\ Append(<<e>> \o s, f) = <<e>> \o Append(s, f)
  OBVIOUS

LEMMA EmptyFacts ==
  ASSUME NEW S
  PROVE  <<>> \in Seq(S) /\ Len(<<>>) = 0 /\ DOMAIN <<>> = {}
  OBVIOUS

-----------------------------------------------------------------------------
(***************************************************************************)
(* Type correctness, thread by thread.                                     *)
(***************************************************************************)
LEMMA Kept ==
  /\ EventsOK /\ UNCHANGED events => EventsOK'
  /\ WorkerOK /\ UNCHANGED worker => WorkerOK'
  /\ StreamOK /\ UNCHANGED stream => StreamOK'
  /\ OutsideOK /\ UNCHANGED outside => OutsideOK'
  BY DEF EventsOK, events, WorkerOK, worker, StreamOK, stream, OutsideOK, outside

LEMMA WorkerKeepsTypes ==
  ASSUME TypeOK, SWDeliverThread
  PROVE  TypeOK'
  <1> USE DEF Goto, Step, TypeOK
  <1>1. CASE DWake
    <2> USE <1>1 DEF DWake
    <2>1. PlacesOK'  BY DEF PlacesOK, Places
    <2>2. EventsOK'  BY DEF EventsOK, events
    <2>3. QED  BY <2>1, <2>2, Kept, NullAssumption DEF PlacesOK, WorkerOK, StreamOK, events,
        worker, stream, outside
  <1>2. CASE DExit
    <2> USE <1>2 DEF DExit
    <2>1. PlacesOK'  BY DEF PlacesOK, Places
    <2>2. QED  BY <2>1, Kept, NullAssumption DEF PlacesOK, WorkerOK, StreamOK, events, worker,
        stream, outside
  <1>3. CASE DEmpty
    <2> USE <1>3 DEF DEmpty
    <2>1. PlacesOK'  BY DEF PlacesOK, Places
    <2>2. QED  BY <2>1, Kept, NullAssumption DEF PlacesOK, WorkerOK, StreamOK, events, worker,
        stream, outside
  <1>4. CASE DPop
    <2> USE <1>4 DEF DPop
    <2>1. PlacesOK'  BY DEF PlacesOK, Places
    <2>2. EventsOK'  BY DEF EventsOK, events
    <2>3. WorkerOK'  BY TailFacts DEF WorkerOK, worker
    <2>4. QED  BY <2>1, <2>2, <2>3, Kept, NullAssumption DEF PlacesOK, WorkerOK, StreamOK,
        events, worker, stream, outside
  <1>5. CASE DDiscard
    <2> USE <1>5 DEF DDiscard
    <2>1. PlacesOK'  BY DEF PlacesOK, Places
    <2>2. WorkerOK'  BY DEF WorkerOK, worker
    <2>3. QED  BY <2>1, <2>2, Kept, NullAssumption DEF PlacesOK, WorkerOK, StreamOK, events,
        worker, stream, outside
  <1>6. CASE DCheck
    <2> USE <1>6 DEF DCheck
    <2>1. PlacesOK'  BY DEF PlacesOK, Places
    <2>2. QED  BY <2>1, Kept, NullAssumption DEF PlacesOK, WorkerOK, StreamOK, events, worker,
        stream, outside
  <1>7. CASE DAccepted
    <2> USE <1>7 DEF DAccepted
    <2>1. PlacesOK'  BY DEF PlacesOK, Places
    <2>2. WorkerOK'  BY DEF WorkerOK, worker
    <2>3. OutsideOK'  BY AppendFacts DEF WorkerOK, OutsideOK, PlacesOK
    <2>4. QED  BY <2>1, <2>2, <2>3, Kept, NullAssumption DEF PlacesOK, WorkerOK, StreamOK,
        events, worker, stream, outside
  <1>8. CASE DRefused
    <2> USE <1>8 DEF DRefused
    <2>1. PlacesOK'  BY DEF PlacesOK, Places
    <2>2. WorkerOK'  BY DEF WorkerOK, worker
    <2>3. QED  BY <2>1, <2>2, Kept, NullAssumption DEF PlacesOK, WorkerOK, StreamOK, events,
        worker, stream, outside
  <1>9. QED  BY <1>1, <1>2, <1>3, <1>4, <1>5, <1>6, <1>7, <1>8 DEF SWDeliverThread

LEMMA StopKeepsTypes ==
  ASSUME TypeOK, NEW t \in {"S", "A"}, StopSWPipeline(t)
  PROVE  TypeOK'
  <1> USE DEF Goto, Step, TypeOK
  <1>1. CASE StopExit(t)
    <2> USE <1>1 DEF StopExit
    <2>1. PlacesOK'  BY DEF PlacesOK, Places
    <2>2. EventsOK'  BY DEF EventsOK, events
    <2>3. QED  BY <2>1, <2>2, Kept, NullAssumption DEF PlacesOK, WorkerOK, StreamOK, events,
        worker, stream, outside
  <1>2. CASE StopWake(t)
    <2> USE <1>2 DEF StopWake
    <2>1. PlacesOK'  BY DEF PlacesOK, Places
    <2>2. EventsOK'  BY DEF EventsOK, events
    <2>3. QED  BY <2>1, <2>2, Kept, NullAssumption DEF PlacesOK, WorkerOK, StreamOK, events,
        worker, stream, outside
  <1>3. CASE StopJoin(t)
    <2> USE <1>3 DEF StopJoin
    <2>1. PlacesOK'  BY DEF PlacesOK, Places
    <2>2. EventsOK'  BY DEF EventsOK
    <2>3. WorkerOK'  BY DEF WorkerOK, worker
    <2>4. QED  BY <2>1, <2>2, <2>3, Kept, NullAssumption DEF PlacesOK, WorkerOK, StreamOK,
        events, worker, stream, outside
  <1>4. CASE StopClear(t)
    <2> USE <1>4 DEF StopClear
    <2>1. PlacesOK'  BY DEF PlacesOK, Places
    <2>2. WorkerOK'  BY EmptyFacts DEF WorkerOK, worker
    <2>3. QED  BY <2>1, <2>2, Kept, NullAssumption DEF PlacesOK, WorkerOK, StreamOK, events,
        worker, stream, outside
  <1>5. QED  BY <1>1, <1>2, <1>3, <1>4 DEF StopSWPipeline

LEMMA PushKeepsTypes ==
  ASSUME TypeOK, PushSWFrame
  PROVE  TypeOK'
  <1> USE DEF Goto, Step, TypeOK
  <1>1. CASE PushDrop
    <2> USE <1>1 DEF PushDrop
    <2>1. PlacesOK'  BY DEF PlacesOK, Places
    <2>2. StreamOK'  BY DEF StreamOK, stream
    <2>3. QED  BY <2>1, <2>2, Kept, NullAssumption DEF PlacesOK, WorkerOK, StreamOK, events,
        worker, stream, outside
  <1>2. CASE PushCheck
    <2> USE <1>2 DEF PushCheck
    <2>1. PlacesOK'  BY DEF PlacesOK, Places
    <2>2. QED  BY <2>1, Kept, NullAssumption DEF PlacesOK, WorkerOK, StreamOK, events, worker,
        stream, outside
  <1>3. CASE PushTimeout
    <2> USE <1>3 DEF PushTimeout
    <2>1. PlacesOK'  BY DEF PlacesOK, Places
    <2>2. QED  BY <2>1, Kept, NullAssumption DEF PlacesOK, WorkerOK, StreamOK, events, worker,
        stream, outside
  <1>4. CASE PushWait
    <2> USE <1>4 DEF PushWait
    <2>1. PlacesOK'  BY DEF PlacesOK, Places
    <2>2. EventsOK'  BY DEF EventsOK, events
    <2>3. QED  BY <2>1, <2>2, Kept, NullAssumption DEF PlacesOK, WorkerOK, StreamOK, events,
        worker, stream, outside
  <1>5. CASE PushInsert
    <2> USE <1>5 DEF PushInsert
    <2>1. PlacesOK'  BY DEF PlacesOK, Places
    <2>2. WorkerOK'  BY AppendFacts DEF StreamOK, WorkerOK
    <2>3. StreamOK'  BY DEF StreamOK, stream
    <2>4. QED  BY <2>1, <2>2, <2>3, Kept, NullAssumption DEF PlacesOK, WorkerOK, StreamOK,
        events, worker, stream, outside
  <1>6. CASE PushSpace
    <2> USE <1>6 DEF PushSpace
    <2>1. PlacesOK'  BY DEF PlacesOK, Places
    <2>2. EventsOK'  BY DEF EventsOK
    <2>3. StreamOK'  BY DEF StreamOK, stream
    <2>4. QED  BY <2>1, <2>2, <2>3, Kept, NullAssumption DEF PlacesOK, WorkerOK, StreamOK,
        events, worker, stream, outside
  <1>7. CASE PushReady
    <2> USE <1>7 DEF PushReady
    <2>1. PlacesOK'  BY DEF PlacesOK, Places
    <2>2. EventsOK'  BY DEF EventsOK
    <2>3. QED  BY <2>1, <2>2, Kept, NullAssumption DEF PlacesOK, WorkerOK, StreamOK, events,
        worker, stream, outside
  <1>8. QED  BY <1>1, <1>2, <1>3, <1>4, <1>5, <1>6, <1>7 DEF PushSWFrame

LEMMA StreamKeepsTypes ==
  ASSUME TypeOK, OneOwner, StreamStep \/ Upstream
  PROVE  TypeOK'
  <1> USE DEF Goto, Step, TypeOK
  <1>1. CASE Decoded
    <2> USE <1>1 DEF Decoded
    <2>1. PlacesOK'  BY DEF PlacesOK, Places
    <2>2. StreamOK'  BY BoundsAssumption DEF StreamOK, Frames, OutsideOK
    <2>3. frame' # NULL
      <3>1. frame' \in Frames  BY BoundsAssumption DEF StreamOK, OutsideOK, Frames
      <3>2. QED  BY <3>1, NullAssumption
    <2>4. QED  BY <2>1, <2>2, <2>3, Kept DEF PlacesOK, events, worker, outside
  <1>2. CASE StartSWPipeline
    <2> USE <1>2 DEF StartSWPipeline
    <2>1. PlacesOK'  BY DEF PlacesOK, Places
    <2>2. EventsOK'  BY DEF EventsOK
    <2>3. WorkerOK'  BY DEF WorkerOK, worker
    <2>4. hand' = NULL /\ frame' # NULL
      BY DEF OneOwner, worker, stream
    <2>5. QED  BY <2>1, <2>2, <2>3, <2>4, Kept DEF PlacesOK, stream, outside
  <1>3. CASE Leave
    <2> USE <1>3 DEF Leave
    <2>1. PlacesOK'  BY DEF PlacesOK, Places
    <2>2. StreamOK'  BY DEF StreamOK, stream
    <2>3. QED  BY <2>1, <2>2, Kept, NullAssumption DEF PlacesOK, WorkerOK, StreamOK, events,
        worker, stream, outside
  <1>4. CASE Upstream
    <2> USE <1>4 DEF Upstream, Receive, EndOfStream, NewSegment, TypeChange, Enter, StopEntry
    <2>1. PlacesOK'  BY DEF PlacesOK, Places
    <2>2. StreamOK'  BY SettingsAssumption DEF StreamOK, stream
    <2>3. QED  BY <2>1, <2>2, Kept, NullAssumption DEF PlacesOK, WorkerOK, StreamOK, events,
        worker, stream, outside
  <1>5. QED  BY <1>1, <1>2, <1>3, <1>4, PushKeepsTypes, StopKeepsTypes DEF StreamStep

LEMMA ApplicationKeepsTypes ==
  ASSUME TypeOK, Lifetimes, Application \/ ApplicationStep
  PROVE  TypeOK'
  <1> USE DEF Goto, Step, TypeOK
  <1>1. CASE BeginFlush
    <2> USE <1>1 DEF BeginFlush
    <2>1. PlacesOK'  BY DEF PlacesOK, Places
    <2>2. OutsideOK'  BY DEF OutsideOK, outside
    <2>3. QED  BY <2>1, <2>2, Kept, NullAssumption DEF PlacesOK, WorkerOK, StreamOK, events,
        worker, stream, outside
  <1>2. CASE Control
    <2> USE <1>2 DEF Control
    <2>1. PlacesOK'  BY DEF PlacesOK, Places
    <2>2. OutsideOK'  BY DEF OutsideOK, outside
    <2>3. QED  BY <2>1, <2>2, Kept, NullAssumption DEF PlacesOK, WorkerOK, StreamOK, events,
        worker, stream, outside
  <1>3. CASE BreakConnect
    <2> USE <1>3 DEF BreakConnect, StopEntry
    <2>1. PlacesOK'  BY DEF PlacesOK, Places
    <2>2. StreamOK'  BY DEF StreamOK, stream
    <2>3. QED  BY <2>1, <2>2, Kept, NullAssumption DEF PlacesOK, WorkerOK, StreamOK, events,
        worker, stream, outside
  <1>4. CASE FlushTest
    <2> USE <1>4 DEF FlushTest
    <2>1. PlacesOK'  BY DEF PlacesOK, Places
    <2>2. QED  BY <2>1, Kept, NullAssumption DEF PlacesOK, WorkerOK, StreamOK, events, worker,
        stream, outside
  <1>5. CASE FlushSet
    <2> USE <1>5 DEF FlushSet
    <2>1. PlacesOK'  BY DEF PlacesOK, Places
    <2>2. WorkerOK'  BY DEF WorkerOK
    <2>3. QED  BY <2>1, <2>2, Kept, NullAssumption DEF PlacesOK, WorkerOK, StreamOK, events,
        worker, stream, outside
  <1>6. CASE FlushWake
    <2> USE <1>6 DEF FlushWake
    <2>1. PlacesOK'  BY DEF PlacesOK, Places
    <2>2. EventsOK'  BY DEF EventsOK
    <2>3. QED  BY <2>1, <2>2, Kept, NullAssumption DEF PlacesOK, WorkerOK, StreamOK, events,
        worker, stream, outside
  <1>7. CASE FlushPoll
    <2> USE <1>7 DEF FlushPoll
    <2>1. PlacesOK'  BY DEF PlacesOK, Places
    <2>2. QED  BY <2>1, Kept, NullAssumption DEF PlacesOK, WorkerOK, StreamOK, events, worker,
        stream, outside
  <1>8. CASE EndFlush
    <2> USE <1>8 DEF EndFlush
    <2>1. PlacesOK'  BY DEF PlacesOK, Places
    <2>2. WorkerOK'  BY DEF WorkerOK
    <2>3. QED  BY <2>1, <2>2, Kept, NullAssumption DEF PlacesOK, WorkerOK, StreamOK, events,
        worker, stream, outside
  <1>9. CASE EndFlushBase
    <2> USE <1>9 DEF EndFlushBase
    <2>1. PlacesOK'  BY DEF PlacesOK, Places
    <2>2. StreamOK'  BY DEF StreamOK
    <2>3. epoch' \in 0 .. MaxFlushes
      BY BoundsAssumption DEF Lifetimes, Flushing, OutsideOK
    <2>4. OutsideOK'  BY <2>3 DEF OutsideOK
    <2>5. QED  BY <2>1, <2>2, <2>4, Kept, NullAssumption DEF PlacesOK, WorkerOK, StreamOK,
        events, worker, stream, outside
  <1>10. CASE EndFlushPin
    <2> USE <1>10 DEF EndFlushPin
    <2>1. PlacesOK'  BY DEF PlacesOK, Places
    <2>2. StreamOK'  BY DEF StreamOK
    <2>3. OutsideOK'  BY DEF OutsideOK
    <2>4. QED  BY <2>1, <2>2, <2>3, Kept, NullAssumption DEF PlacesOK, WorkerOK, StreamOK,
        events, worker, stream, outside
  <1>11. CASE CompleteConnect
    <2> USE <1>11 DEF CompleteConnect
    <2>1. PlacesOK'  BY DEF PlacesOK, Places
    <2>2. StreamOK'  BY DEF StreamOK
    <2>3. QED  BY <2>1, <2>2, Kept, NullAssumption DEF PlacesOK, WorkerOK, StreamOK, events,
        worker, stream, outside
  <1>12. CASE ReconnectOutput
    <2> USE <1>12 DEF ReconnectOutput, StopEntry
    <2>1. PlacesOK'  BY DEF PlacesOK, Places
    <2>2. QED  BY <2>1, Kept, NullAssumption DEF PlacesOK, WorkerOK, StreamOK, events, worker,
        stream, outside
  <1>13. QED  BY <1>1, <1>2, <1>3, <1>4, <1>5, <1>6, <1>7, <1>8, <1>9, <1>10, <1>11, <1>12,
      StopKeepsTypes DEF Application, ApplicationStep

-----------------------------------------------------------------------------
(***************************************************************************)
(* The inductive invariant: who owns what, and what lives when.            *)
(***************************************************************************)
\* Whatever comes from upstream enters under m_csReceive and changes nothing else but m_bReinit.
LEMMA UpstreamEffect ==
  ASSUME Upstream
  PROVE  \E l \in {"decode", "leave", "stop.exit", "stopped"} :
           /\ Step("S", "idle", l)
           /\ l = "stop.exit" => thread
           /\ l = "stopped" => ~thread
           /\ ~Connecting /\ csReceive = NULL /\ csReceive' = "S"
           /\ UNCHANGED <<frame, room, decoded, events, worker, outside>>
  <1>1. CASE Receive  BY <1>1 DEF Receive, Enter
  <1>2. CASE EndOfStream  BY <1>2 DEF EndOfStream, Enter
  <1>3. CASE NewSegment  BY <1>3 DEF NewSegment, Enter, StopEntry
  <1>4. CASE TypeChange  BY <1>4 DEF TypeChange, StopEntry
  <1>5. QED  BY <1>1, <1>2, <1>3, <1>4 DEF Upstream

LEMMA WorkerKeepsOwners ==
  ASSUME PlacesOK, OneOwner, SWDeliverThread
  PROVE  OneOwner'
  <1> USE NullAssumption DEF Goto, Step, PlacesOK, Places, OneOwner, Pushing, Stopping,
      Told, Connecting, events, worker, stream, outside
  <1>1. CASE DWake  BY <1>1 DEF DWake
  <1>2. CASE DExit  BY <1>2 DEF DExit
  <1>3. CASE DEmpty  BY <1>3 DEF DEmpty
  <1>4. CASE DPop  BY <1>4 DEF DPop
  <1>5. CASE DDiscard  BY <1>5 DEF DDiscard
  <1>6. CASE DCheck  BY <1>6 DEF DCheck
  <1>7. CASE DAccepted  BY <1>7 DEF DAccepted
  <1>8. CASE DRefused  BY <1>8 DEF DRefused
  <1>9. QED  BY <1>1, <1>2, <1>3, <1>4, <1>5, <1>6, <1>7, <1>8 DEF SWDeliverThread

LEMMA StopKeepsOwners ==
  ASSUME PlacesOK, OneOwner, NEW t \in {"S", "A"}, StopSWPipeline(t)
  PROVE  OneOwner'
  <1> USE NullAssumption DEF Goto, Step, PlacesOK, Places, OneOwner, Pushing, Stopping,
      Told, Connecting, events, worker, stream, outside
  <1>1. CASE StopExit(t)  BY <1>1 DEF StopExit
  <1>2. CASE StopWake(t)  BY <1>2 DEF StopWake
  <1>3. CASE StopJoin(t)  BY <1>3 DEF StopJoin
  <1>4. CASE StopClear(t)  BY <1>4 DEF StopClear
  <1>5. QED  BY <1>1, <1>2, <1>3, <1>4 DEF StopSWPipeline

LEMMA PushKeepsOwners ==
  ASSUME PlacesOK, OneOwner, PushSWFrame
  PROVE  OneOwner'
  <1> USE NullAssumption DEF Goto, Step, PlacesOK, Places, OneOwner, Pushing, Stopping,
      Told, Connecting, events, worker, stream, outside
  <1>1. CASE PushDrop  BY <1>1 DEF PushDrop
  <1>2. CASE PushCheck  BY <1>2 DEF PushCheck
  <1>3. CASE PushTimeout  BY <1>3 DEF PushTimeout
  <1>4. CASE PushWait  BY <1>4 DEF PushWait
  <1>5. CASE PushInsert  BY <1>5 DEF PushInsert
  <1>6. CASE PushSpace  BY <1>6 DEF PushSpace
  <1>7. CASE PushReady  BY <1>7 DEF PushReady
  <1>8. QED  BY <1>1, <1>2, <1>3, <1>4, <1>5, <1>6, <1>7 DEF PushSWFrame

LEMMA StreamKeepsOwners ==
  ASSUME PlacesOK, OneOwner, StreamStep \/ Upstream
  PROVE  OneOwner'
  <1> USE NullAssumption DEF Goto, Step, PlacesOK, Places, OneOwner, Pushing, Stopping,
      Told, Connecting, events, worker, stream, outside
  <1>1. CASE Decoded  BY <1>1 DEF Decoded
  <1>2. CASE StartSWPipeline  BY <1>2 DEF StartSWPipeline
  <1>3. CASE Leave  BY <1>3 DEF Leave
  <1>4. CASE Upstream
    <2>1. PICK l \in {"decode", "leave", "stop.exit", "stopped"} :
             /\ Step("S", "idle", l)
             /\ l = "stop.exit" => thread
             /\ l = "stopped" => ~thread
             /\ ~Connecting /\ csReceive = NULL /\ csReceive' = "S"
             /\ UNCHANGED <<frame, room, decoded, events, worker, outside>>
      BY <1>4, UpstreamEffect
    <2>2. QED  BY <2>1
  <1>5. QED  BY <1>1, <1>2, <1>3, <1>4, PushKeepsOwners, StopKeepsOwners DEF StreamStep

LEMMA ApplicationKeepsOwners ==
  ASSUME PlacesOK, OneOwner, Application \/ ApplicationStep
  PROVE  OneOwner'
  <1> USE NullAssumption DEF Goto, Step, PlacesOK, Places, OneOwner, Pushing, Stopping,
      Told, Connecting, events, worker, stream, outside
  <1>1. CASE BeginFlush  BY <1>1 DEF BeginFlush
  <1>2. CASE Control  BY <1>2 DEF Control
  <1>3. CASE BreakConnect  BY <1>3 DEF BreakConnect, StopEntry
  <1>4. CASE FlushTest  BY <1>4 DEF FlushTest
  <1>5. CASE FlushSet  BY <1>5 DEF FlushSet
  <1>6. CASE FlushWake  BY <1>6 DEF FlushWake
  <1>7. CASE FlushPoll  BY <1>7 DEF FlushPoll
  <1>8. CASE EndFlush  BY <1>8 DEF EndFlush
  <1>9. CASE EndFlushBase  BY <1>9 DEF EndFlushBase
  <1>10. CASE EndFlushPin  BY <1>10 DEF EndFlushPin
  <1>11. CASE CompleteConnect  BY <1>11 DEF CompleteConnect
  <1>12. CASE ReconnectOutput  BY <1>12 DEF ReconnectOutput, StopEntry
  <1>13. QED  BY <1>1, <1>2, <1>3, <1>4, <1>5, <1>6, <1>7, <1>8, <1>9, <1>10, <1>11, <1>12,
      StopKeepsOwners DEF Application, ApplicationStep

-----------------------------------------------------------------------------
(***************************************************************************)
(* What lives when, and what StopSWPipeline finds.                         *)
(***************************************************************************)
LEMMA WorkerKeepsLifetimes ==
  ASSUME PlacesOK, OneOwner, Lifetimes, StopLosesNothing, WakeupPending, SWDeliverThread
  PROVE  Lifetimes' /\ StopLosesNothing'
  <1> USE NullAssumption DEF Goto, Step, PlacesOK, Places, OneOwner, Lifetimes,
      StopLosesNothing, WakeupPending, Pushing, Stopping, Told, Flushing, events, worker,
          stream, outside
  <1>1. CASE DWake  BY <1>1 DEF DWake
  <1>2. CASE DExit  BY <1>2 DEF DExit, Connecting
  <1>3. CASE DEmpty  BY <1>3 DEF DEmpty
  <1>4. CASE DPop  BY <1>4 DEF DPop
  <1>5. CASE DDiscard  BY <1>5 DEF DDiscard
  <1>6. CASE DCheck  BY <1>6 DEF DCheck
  <1>7. CASE DAccepted  BY <1>7 DEF DAccepted
  <1>8. CASE DRefused  BY <1>8 DEF DRefused
  <1>9. QED  BY <1>1, <1>2, <1>3, <1>4, <1>5, <1>6, <1>7, <1>8 DEF SWDeliverThread

LEMMA StopKeepsLifetimes ==
  ASSUME PlacesOK, OneOwner, Lifetimes, StopLosesNothing, WakeupPending, NEW t \in {"S", "A"},
      StopSWPipeline(t)
  PROVE  Lifetimes' /\ StopLosesNothing'
  <1> USE NullAssumption DEF Goto, Step, PlacesOK, Places, OneOwner, Lifetimes,
      StopLosesNothing, WakeupPending, Pushing, Stopping, Told, Flushing, events, worker,
          stream, outside
  <1>1. CASE StopExit(t)  BY <1>1 DEF StopExit
  <1>2. CASE StopWake(t)  BY <1>2 DEF StopWake
  <1>3. CASE StopJoin(t)  BY <1>3 DEF StopJoin
  <1>4. CASE StopClear(t)  BY <1>4 DEF StopClear
  <1>5. QED  BY <1>1, <1>2, <1>3, <1>4 DEF StopSWPipeline

LEMMA PushKeepsLifetimes ==
  ASSUME PlacesOK, OneOwner, Lifetimes, StopLosesNothing, WakeupPending, PushSWFrame
  PROVE  Lifetimes' /\ StopLosesNothing'
  <1> USE NullAssumption DEF Goto, Step, PlacesOK, Places, OneOwner, Lifetimes,
      StopLosesNothing, WakeupPending, Pushing, Stopping, Told, Flushing, events, worker,
          stream, outside
  <1>1. CASE PushDrop  BY <1>1 DEF PushDrop
  <1>2. CASE PushCheck  BY <1>2 DEF PushCheck
  <1>3. CASE PushTimeout  BY <1>3 DEF PushTimeout
  <1>4. CASE PushWait  BY <1>4 DEF PushWait
  <1>5. CASE PushInsert  BY <1>5 DEF PushInsert, Connecting
  <1>6. CASE PushSpace  BY <1>6 DEF PushSpace
  <1>7. CASE PushReady  BY <1>7 DEF PushReady
  <1>8. QED  BY <1>1, <1>2, <1>3, <1>4, <1>5, <1>6, <1>7 DEF PushSWFrame

LEMMA StreamKeepsLifetimes ==
  ASSUME PlacesOK, OneOwner, Lifetimes, StopLosesNothing, WakeupPending, StreamStep \/ Upstream
  PROVE  Lifetimes' /\ StopLosesNothing'
  <1> USE NullAssumption DEF Goto, Step, PlacesOK, Places, OneOwner, Lifetimes,
      StopLosesNothing, WakeupPending, Pushing, Stopping, Told, Flushing, events, worker,
          stream, outside
  <1>1. CASE Decoded  BY <1>1 DEF Decoded
  <1>2. CASE StartSWPipeline  BY <1>2 DEF StartSWPipeline
  <1>3. CASE Leave  BY <1>3 DEF Leave
  <1>4. CASE Upstream
    <2>1. PICK l \in {"decode", "leave", "stop.exit", "stopped"} :
             /\ Step("S", "idle", l)
             /\ l = "stop.exit" => thread
             /\ l = "stopped" => ~thread
             /\ ~Connecting /\ csReceive = NULL /\ csReceive' = "S"
             /\ UNCHANGED <<frame, room, decoded, events, worker, outside>>
      BY <1>4, UpstreamEffect
    <2>2. QED  BY <2>1
  <1>5. QED  BY <1>1, <1>2, <1>3, <1>4, PushKeepsLifetimes, StopKeepsLifetimes DEF StreamStep

LEMMA ApplicationKeepsLifetimes ==
  ASSUME PlacesOK, OneOwner, Lifetimes, StopLosesNothing, WakeupPending,
      Application \/ ApplicationStep
  PROVE  Lifetimes' /\ StopLosesNothing'
  <1> USE NullAssumption DEF Goto, Step, PlacesOK, Places, OneOwner, Lifetimes,
      StopLosesNothing, WakeupPending, Pushing, Stopping, Told, Flushing, events, worker,
          stream, outside
  <1>1. CASE BeginFlush  BY <1>1 DEF BeginFlush
  <1>2. CASE Control  BY <1>2 DEF Control
  <1>3. CASE BreakConnect  BY <1>3 DEF BreakConnect, StopEntry
  <1>4. CASE FlushTest  BY <1>4 DEF FlushTest
  <1>5. CASE FlushSet  BY <1>5 DEF FlushSet
  <1>6. CASE FlushWake  BY <1>6 DEF FlushWake
  <1>7. CASE FlushPoll  BY <1>7 DEF FlushPoll
  <1>8. CASE EndFlush  BY <1>8 DEF EndFlush
  <1>9. CASE EndFlushBase  BY <1>9 DEF EndFlushBase
  <1>10. CASE EndFlushPin  BY <1>10 DEF EndFlushPin
  <1>11. CASE CompleteConnect  BY <1>11 DEF CompleteConnect
  <1>12. CASE ReconnectOutput  BY <1>12 DEF ReconnectOutput, StopEntry
  <1>13. QED  BY <1>1, <1>2, <1>3, <1>4, <1>5, <1>6, <1>7, <1>8, <1>9, <1>10, <1>11, <1>12,
      StopKeepsLifetimes DEF Application, ApplicationStep

-----------------------------------------------------------------------------
(***************************************************************************)
(* The two auto-reset events: room is announced, and never twice; frames   *)
(* that wait are announced.                                                *)
(***************************************************************************)
LEMMA WorkerKeepsLicence ==
  ASSUME PlacesOK, WorkerOK, TypeOK, OneOwner, Lifetimes, Licence, RoomAnnounced,
      SWDeliverThread
  PROVE  Licence' /\ RoomAnnounced'
  <1> USE NullAssumption, QueueAssumption DEF Goto, Step, PlacesOK, Places, WorkerOK,
      OneOwner, Lifetimes, Licence, RoomAnnounced, Pushing, Stopping, Told, events, worker,
          stream, outside
  <1>1. CASE DWake  BY <1>1 DEF DWake
  <1>2. CASE DExit  BY <1>2 DEF DExit
  <1>3. CASE DEmpty  BY <1>3 DEF DEmpty
  <1>4. CASE DPop
    <2>1. /\ queue' \in Seq(Frames) /\ Len(queue') = Len(queue) - 1
          /\ Len(queue) \in Nat \ {0} /\ Len(queue') \in Nat
      BY <1>4, TailFacts DEF DPop
    <2>2. notFullEv'
      <3>1. Len(queue) - 1 < QueueMax  BY <2>1
      <3>2. QED  BY <1>4, <3>1, Zenon DEF DPop
    <2>3. pc["S"]' = pc["S"] /\ room' = room /\ thread' = thread
      BY <1>4 DEF DPop
    <2>4. QED  BY <2>1, <2>2, <2>3
  <1>5. CASE DDiscard  BY <1>5 DEF DDiscard
  <1>6. CASE DCheck  BY <1>6 DEF DCheck
  <1>7. CASE DAccepted  BY <1>7 DEF DAccepted
  <1>8. CASE DRefused  BY <1>8 DEF DRefused
  <1>9. QED  BY <1>1, <1>2, <1>3, <1>4, <1>5, <1>6, <1>7, <1>8 DEF SWDeliverThread

LEMMA StopKeepsLicence ==
  ASSUME PlacesOK, WorkerOK, TypeOK, OneOwner, Lifetimes, Licence, RoomAnnounced,
      NEW t \in {"S", "A"}, StopSWPipeline(t)
  PROVE  Licence' /\ RoomAnnounced'
  <1> USE NullAssumption, QueueAssumption DEF Goto, Step, PlacesOK, Places, WorkerOK,
      OneOwner, Lifetimes, Licence, RoomAnnounced, Pushing, Stopping, Told, events, worker,
          stream, outside
  <1>1. CASE StopExit(t)  BY <1>1 DEF StopExit
  <1>2. CASE StopWake(t)  BY <1>2 DEF StopWake
  <1>3. CASE StopJoin(t)  BY <1>3 DEF StopJoin
  <1>4. CASE StopClear(t)  BY <1>4, EmptyFacts DEF StopClear
  <1>5. QED  BY <1>1, <1>2, <1>3, <1>4 DEF StopSWPipeline

LEMMA PushKeepsLicence ==
  ASSUME PlacesOK, WorkerOK, TypeOK, OneOwner, Lifetimes, Licence, RoomAnnounced, PushSWFrame
  PROVE  Licence' /\ RoomAnnounced'
  <1> USE NullAssumption, QueueAssumption DEF Goto, Step, PlacesOK, Places, WorkerOK,
      OneOwner, Lifetimes, Licence, RoomAnnounced, Pushing, Stopping, Told, events, worker,
          stream, outside
  <1>1. CASE PushDrop  BY <1>1 DEF PushDrop
  <1>2. CASE PushCheck  BY <1>2 DEF PushCheck
  <1>3. CASE PushTimeout  BY <1>3 DEF PushTimeout
  <1>4. CASE PushWait  BY <1>4 DEF PushWait
  <1>5. CASE PushInsert
    <2>1. /\ queue' \in Seq(Frames) /\ Len(queue') = Len(queue) + 1
          /\ Len(queue) \in Nat /\ Len(queue') \in Nat
      BY <1>5, AppendFacts DEF PushInsert, TypeOK, StreamOK
    <2>2. pc["S"]' = "push.space" /\ pc["S"] = "push.insert" /\ notFullEv' = notFullEv
      BY <1>5 DEF PushInsert
    <2>3. room' <=> Len(queue) + 1 < QueueMax
      BY <1>5, Zenon DEF PushInsert
    <2>4. Licence'  BY <2>1, <2>2, <2>3
    <2>5. RoomAnnounced'  BY <2>1, <2>2, <2>3
    <2>6. QED  BY <2>4, <2>5
  <1>6. CASE PushSpace  BY <1>6 DEF PushSpace
  <1>7. CASE PushReady  BY <1>7 DEF PushReady
  <1>8. QED  BY <1>1, <1>2, <1>3, <1>4, <1>5, <1>6, <1>7 DEF PushSWFrame

LEMMA StreamKeepsLicence ==
  ASSUME PlacesOK, WorkerOK, TypeOK, OneOwner, Lifetimes, Licence, RoomAnnounced,
      StreamStep \/ Upstream
  PROVE  Licence' /\ RoomAnnounced'
  <1> USE NullAssumption, QueueAssumption DEF Goto, Step, PlacesOK, Places, WorkerOK,
      OneOwner, Lifetimes, Licence, RoomAnnounced, Pushing, Stopping, Told, events, worker,
          stream, outside
  <1>1. CASE Decoded  BY <1>1 DEF Decoded
  <1>2. CASE StartSWPipeline  BY <1>2 DEF StartSWPipeline
  <1>3. CASE Leave  BY <1>3 DEF Leave
  <1>4. CASE Upstream
    <2>1. PICK l \in {"decode", "leave", "stop.exit", "stopped"} :
             /\ Step("S", "idle", l)
             /\ l = "stop.exit" => thread
             /\ l = "stopped" => ~thread
             /\ ~Connecting /\ csReceive = NULL /\ csReceive' = "S"
             /\ UNCHANGED <<frame, room, decoded, events, worker, outside>>
      BY <1>4, UpstreamEffect
    <2>2. QED  BY <2>1
  <1>5. QED  BY <1>1, <1>2, <1>3, <1>4, PushKeepsLicence, StopKeepsLicence DEF StreamStep

LEMMA ApplicationKeepsLicence ==
  ASSUME PlacesOK, WorkerOK, TypeOK, OneOwner, Lifetimes, Licence, RoomAnnounced,
      Application \/ ApplicationStep
  PROVE  Licence' /\ RoomAnnounced'
  <1> USE NullAssumption, QueueAssumption DEF Goto, Step, PlacesOK, Places, WorkerOK,
      OneOwner, Lifetimes, Licence, RoomAnnounced, Pushing, Stopping, Told, events, worker,
          stream, outside
  <1>1. CASE BeginFlush  BY <1>1 DEF BeginFlush
  <1>2. CASE Control  BY <1>2 DEF Control
  <1>3. CASE BreakConnect  BY <1>3 DEF BreakConnect, StopEntry
  <1>4. CASE FlushTest  BY <1>4 DEF FlushTest
  <1>5. CASE FlushSet  BY <1>5 DEF FlushSet
  <1>6. CASE FlushWake  BY <1>6 DEF FlushWake
  <1>7. CASE FlushPoll  BY <1>7 DEF FlushPoll
  <1>8. CASE EndFlush  BY <1>8 DEF EndFlush
  <1>9. CASE EndFlushBase  BY <1>9 DEF EndFlushBase
  <1>10. CASE EndFlushPin  BY <1>10 DEF EndFlushPin
  <1>11. CASE CompleteConnect  BY <1>11 DEF CompleteConnect
  <1>12. CASE ReconnectOutput  BY <1>12 DEF ReconnectOutput, StopEntry
  <1>13. QED  BY <1>1, <1>2, <1>3, <1>4, <1>5, <1>6, <1>7, <1>8, <1>9, <1>10, <1>11, <1>12,
      StopKeepsLicence DEF Application, ApplicationStep

LEMMA WorkerKeepsWakeup ==
  ASSUME PlacesOK, OneOwner, Lifetimes, StopLosesNothing, WakeupPending, SWDeliverThread
  PROVE  WakeupPending'
  <1> USE NullAssumption DEF Goto, Step, PlacesOK, Places, OneOwner, Lifetimes,
      StopLosesNothing, WakeupPending, Pushing, Stopping, Told, events, worker, stream, outside
  <1>1. CASE DWake  BY <1>1 DEF DWake
  <1>2. CASE DExit  BY <1>2 DEF DExit
  <1>3. CASE DEmpty  BY <1>3 DEF DEmpty
  <1>4. CASE DPop  BY <1>4 DEF DPop
  <1>5. CASE DDiscard  BY <1>5 DEF DDiscard
  <1>6. CASE DCheck  BY <1>6 DEF DCheck
  <1>7. CASE DAccepted  BY <1>7 DEF DAccepted
  <1>8. CASE DRefused  BY <1>8 DEF DRefused
  <1>9. QED  BY <1>1, <1>2, <1>3, <1>4, <1>5, <1>6, <1>7, <1>8 DEF SWDeliverThread

LEMMA StopKeepsWakeup ==
  ASSUME PlacesOK, OneOwner, Lifetimes, StopLosesNothing, WakeupPending, NEW t \in {"S", "A"},
      StopSWPipeline(t)
  PROVE  WakeupPending'
  <1> USE NullAssumption DEF Goto, Step, PlacesOK, Places, OneOwner, Lifetimes,
      StopLosesNothing, WakeupPending, Pushing, Stopping, Told, events, worker, stream, outside
  <1>1. CASE StopExit(t)  BY <1>1 DEF StopExit
  <1>2. CASE StopWake(t)  BY <1>2 DEF StopWake
  <1>3. CASE StopJoin(t)  BY <1>3 DEF StopJoin
  <1>4. CASE StopClear(t)  BY <1>4 DEF StopClear
  <1>5. QED  BY <1>1, <1>2, <1>3, <1>4 DEF StopSWPipeline

LEMMA PushKeepsWakeup ==
  ASSUME PlacesOK, OneOwner, Lifetimes, StopLosesNothing, WakeupPending, PushSWFrame
  PROVE  WakeupPending'
  <1> USE NullAssumption DEF Goto, Step, PlacesOK, Places, OneOwner, Lifetimes,
      StopLosesNothing, WakeupPending, Pushing, Stopping, Told, events, worker, stream, outside
  <1>1. CASE PushDrop  BY <1>1 DEF PushDrop
  <1>2. CASE PushCheck  BY <1>2 DEF PushCheck
  <1>3. CASE PushTimeout  BY <1>3 DEF PushTimeout
  <1>4. CASE PushWait  BY <1>4 DEF PushWait
  <1>5. CASE PushInsert  BY <1>5 DEF PushInsert
  <1>6. CASE PushSpace  BY <1>6 DEF PushSpace
  <1>7. CASE PushReady  BY <1>7 DEF PushReady
  <1>8. QED  BY <1>1, <1>2, <1>3, <1>4, <1>5, <1>6, <1>7 DEF PushSWFrame

LEMMA StreamKeepsWakeup ==
  ASSUME PlacesOK, OneOwner, Lifetimes, StopLosesNothing, WakeupPending, StreamStep \/ Upstream
  PROVE  WakeupPending'
  <1> USE NullAssumption DEF Goto, Step, PlacesOK, Places, OneOwner, Lifetimes,
      StopLosesNothing, WakeupPending, Pushing, Stopping, Told, events, worker, stream, outside
  <1>1. CASE Decoded  BY <1>1 DEF Decoded
  <1>2. CASE StartSWPipeline  BY <1>2 DEF StartSWPipeline
  <1>3. CASE Leave  BY <1>3 DEF Leave
  <1>4. CASE Upstream
    <2>1. PICK l \in {"decode", "leave", "stop.exit", "stopped"} :
             /\ Step("S", "idle", l)
             /\ l = "stop.exit" => thread
             /\ l = "stopped" => ~thread
             /\ ~Connecting /\ csReceive = NULL /\ csReceive' = "S"
             /\ UNCHANGED <<frame, room, decoded, events, worker, outside>>
      BY <1>4, UpstreamEffect
    <2>2. QED  BY <2>1
  <1>5. QED  BY <1>1, <1>2, <1>3, <1>4, PushKeepsWakeup, StopKeepsWakeup DEF StreamStep

LEMMA ApplicationKeepsWakeup ==
  ASSUME PlacesOK, OneOwner, Lifetimes, StopLosesNothing, WakeupPending,
      Application \/ ApplicationStep
  PROVE  WakeupPending'
  <1> USE NullAssumption DEF Goto, Step, PlacesOK, Places, OneOwner, Lifetimes,
      StopLosesNothing, WakeupPending, Pushing, Stopping, Told, events, worker, stream, outside
  <1>1. CASE BeginFlush  BY <1>1 DEF BeginFlush
  <1>2. CASE Control  BY <1>2 DEF Control
  <1>3. CASE BreakConnect  BY <1>3 DEF BreakConnect, StopEntry
  <1>4. CASE FlushTest  BY <1>4 DEF FlushTest
  <1>5. CASE FlushSet  BY <1>5 DEF FlushSet
  <1>6. CASE FlushWake  BY <1>6 DEF FlushWake
  <1>7. CASE FlushPoll  BY <1>7 DEF FlushPoll
  <1>8. CASE EndFlush  BY <1>8 DEF EndFlush
  <1>9. CASE EndFlushBase  BY <1>9 DEF EndFlushBase
  <1>10. CASE EndFlushPin  BY <1>10 DEF EndFlushPin
  <1>11. CASE CompleteConnect  BY <1>11 DEF CompleteConnect
  <1>12. CASE ReconnectOutput  BY <1>12 DEF ReconnectOutput, StopEntry
  <1>13. QED  BY <1>1, <1>2, <1>3, <1>4, <1>5, <1>6, <1>7, <1>8, <1>9, <1>10, <1>11, <1>12,
      StopKeepsWakeup DEF Application, ApplicationStep

-----------------------------------------------------------------------------
(***************************************************************************)
(* The order of the frames.                                                *)
(***************************************************************************)
numbers == <<queue, hand, frame, decoded, epoch, delivered>>

\* The frames are frames, in whatever place they are, and the counts are counts.
LEMMA FramesAreFrames ==
  ASSUME TypeOK
  PROVE  /\ \A i \in DOMAIN queue : queue[i] \in Frames
         /\ \A i \in DOMAIN delivered : delivered[i] \in Frames
         /\ hand # NULL => hand \in Frames
         /\ frame # NULL => frame \in Frames
         /\ decoded \in Nat /\ epoch \in Nat
  <1>1. \A q \in Seq(Frames) : \A i \in DOMAIN q : q[i] \in Frames
    OBVIOUS
  <1>2. queue \in Seq(Frames) /\ delivered \in Seq(Frames) /\ decoded \in Nat /\ epoch \in Nat
    BY BoundsAssumption DEF TypeOK, WorkerOK, StreamOK, OutsideOK
  <1>3. hand \in Frames \cup {NULL} /\ frame \in Frames \cup {NULL}
    BY DEF TypeOK, WorkerOK, StreamOK
  <1>4. QED  BY <1>1, <1>2, <1>3

\* A frame that is past stays past when the counts grow, and comes before the next decoded.
LEMMA PastStaysPast ==
  ASSUME NEW f \in Frames, NEW n \in Nat, NEW e \in Nat, NEW m \in Nat, NEW d \in Nat,
         f.no <= n, f.epoch <= e, n <= m, e <= d
  PROVE  f.no <= m /\ f.epoch <= d /\ f.no < m + 1
  <1>1. f.no \in Nat /\ f.epoch \in Nat
    BY BoundsAssumption DEF Frames
  <1>2. QED  BY <1>1

LEMMA NumberedKept ==
  ASSUME Numbered, UNCHANGED numbers
  PROVE  Numbered'
  BY DEF Numbered, InOrder, Before, Past, numbers

LEMMA PopKeepsOrder ==
  ASSUME TypeOK, Numbered, DPop
  PROVE  Numbered'
  <1> USE DEF DPop, Step, Goto, stream, outside
  <1>1. pc["D"] = "pop" /\ hand = NULL
    BY DEF TypeOK
  <1>2. /\ DOMAIN queue = 1 .. Len(queue) /\ DOMAIN queue' = 1 .. Len(queue) - 1
        /\ Len(queue) \in Nat \ {0} /\ hand' = queue[1]
        /\ \A i \in DOMAIN queue' : i + 1 \in DOMAIN queue /\ queue'[i] = queue[i + 1] /\ 1 < i + 1
        /\ 1 \in DOMAIN queue
    BY TailFacts DEF TypeOK, WorkerOK
  <1>3. UNCHANGED <<frame, decoded, epoch, delivered>>
    OBVIOUS
  <1>4. \A i, j \in DOMAIN queue' : i < j => i + 1 < j + 1
    BY <1>2
  <1>5. \A i, j \in DOMAIN queue' : i < j => Before(queue'[i], queue'[j])
    BY <1>2, <1>4 DEF Numbered
  <1>6. QED
    BY <1>2, <1>3, <1>5 DEF Numbered, InOrder, Past, Before

LEMMA AcceptKeepsOrder ==
  ASSUME TypeOK, Numbered, DAccepted
  PROVE  Numbered'
  <1> USE DEF DAccepted, Step, Goto, stream, outside
  <1>1. hand # NULL /\ hand \in Frames /\ hand' = NULL
    BY DEF TypeOK, WorkerOK
  <1>2. /\ DOMAIN delivered = 1 .. Len(delivered) /\ Len(delivered) \in Nat
        /\ DOMAIN delivered' = 1 .. Len(delivered) + 1
        /\ \A i \in DOMAIN delivered : delivered'[i] = delivered[i]
        /\ delivered'[Len(delivered) + 1] = hand
    BY <1>1, AppendFacts DEF TypeOK, OutsideOK
  <1>3. UNCHANGED <<frame, decoded, epoch, queue>>
    OBVIOUS
  <1>4. \A i \in DOMAIN delivered' : i \in DOMAIN delivered \/ i = Len(delivered) + 1
    BY <1>2
  <1>5. InOrder'
    BY <1>1, <1>2, <1>4, FramesAreFrames DEF Numbered, InOrder
  <1>6. QED
    BY <1>1, <1>2, <1>3, <1>4, <1>5 DEF Numbered, Past, Before

LEMMA InsertKeepsOrder ==
  ASSUME TypeOK, Numbered, PushInsert
  PROVE  Numbered'
  <1> USE DEF PushInsert, Step, Goto, outside
  <1>1. frame # NULL /\ frame \in Frames /\ frame' = NULL
    BY DEF TypeOK, StreamOK
  <1>2. /\ DOMAIN queue = 1 .. Len(queue) /\ Len(queue) \in Nat
        /\ DOMAIN queue' = 1 .. Len(queue) + 1
        /\ \A i \in DOMAIN queue : queue'[i] = queue[i]
        /\ queue'[Len(queue) + 1] = frame
    BY <1>1, AppendFacts DEF TypeOK, WorkerOK
  <1>3. UNCHANGED <<hand, decoded, epoch, delivered>>
    OBVIOUS
  <1>4. \A i \in DOMAIN queue' : i \in DOMAIN queue \/ i = Len(queue) + 1
    BY <1>2
  <1>5. \A i, j \in DOMAIN queue' : i < j => Before(queue'[i], queue'[j])
    BY <1>1, <1>2, <1>4, FramesAreFrames DEF Numbered
  <1>6. QED
    BY <1>1, <1>2, <1>3, <1>4, <1>5 DEF Numbered, InOrder, Past, Before

LEMMA DecodedKeepsOrder ==
  ASSUME TypeOK, Numbered, Decoded
  PROVE  Numbered'
  <1> USE DEF Decoded, worker, outside
  <1>1. /\ frame' # NULL /\ frame'.no = decoded + 1 /\ frame'.epoch = epoch
        /\ decoded' = decoded + 1 /\ epoch' = epoch
    <2>1. frame' \in Frames
      BY BoundsAssumption DEF TypeOK, StreamOK, OutsideOK, Frames
    <2>2. QED  BY <2>1, NullAssumption
  <1>2. frame = NULL
    BY DEF TypeOK, Goto
  <1>3. UNCHANGED <<queue, hand, delivered>>
    OBVIOUS
  <1>4. \A f \in Frames : Past(f) => Past(f)' /\ Before(f, frame')
    BY <1>1, FramesAreFrames, PastStaysPast DEF Past, Before
  <1>5. Past(frame)'
    BY <1>1, FramesAreFrames DEF Past
  <1>6. InOrder' /\ \A i, j \in DOMAIN queue' : i < j => Before(queue'[i], queue'[j])
    BY <1>3 DEF Numbered, InOrder
  <1>7. \A i \in DOMAIN delivered' :
          /\ Past(delivered[i])'
          /\ hand' # NULL => Before(delivered'[i], hand')
          /\ Before(delivered'[i], frame')
          /\ \A j \in DOMAIN queue' : Before(delivered'[i], queue'[j])
    BY <1>3, <1>4, FramesAreFrames DEF Numbered
  <1>8. \A j \in DOMAIN queue' :
          /\ Past(queue[j])'
          /\ hand' # NULL => Before(hand', queue'[j])
          /\ Before(queue'[j], frame')
    BY <1>3, <1>4, FramesAreFrames DEF Numbered
  <1>9. hand' # NULL => Past(hand)' /\ Before(hand', frame')
    BY <1>3, <1>4, FramesAreFrames DEF Numbered
  <1>10. QED
    BY <1>5, <1>6, <1>7, <1>8, <1>9 DEF Numbered, Past

\* The end of a flush only puts more frames into the past.
LEMMA FlushKeepsOrder ==
  ASSUME TypeOK, Numbered, EndFlushBase
  PROVE  Numbered'
  <1> USE DEF EndFlushBase, worker
  <1>1. UNCHANGED <<queue, hand, frame, decoded, delivered>> /\ epoch' = epoch + 1
    OBVIOUS
  <1>2. \A f \in Frames : Past(f) => Past(f)'
    BY <1>1, FramesAreFrames, PastStaysPast DEF Past
  <1>3. /\ \A i \in DOMAIN delivered' : Past(delivered[i])'
        /\ \A j \in DOMAIN queue' : Past(queue[j])'
        /\ hand' # NULL => Past(hand)'
        /\ frame' # NULL => Past(frame)'
    BY <1>1, <1>2, FramesAreFrames DEF Numbered
  <1>4. QED
    BY <1>1, <1>3 DEF Numbered, InOrder, Before, Past

\* Every other step keeps the frames where they are, or drops some.
LEMMA NextKeepsOrder ==
  ASSUME TypeOK, OneOwner, Lifetimes, StopLosesNothing, Numbered, Next
  PROVE  Numbered'
  <1> USE DEF numbers, events, worker, stream, outside
  <1>1. CASE SWDeliverThread
    <2>1. CASE DWake  BY <2>1, NumberedKept DEF DWake
    <2>2. CASE DExit  BY <2>2, NumberedKept DEF DExit
    <2>3. CASE DEmpty  BY <2>3, NumberedKept DEF DEmpty
    <2>4. CASE DPop  BY <2>4, PopKeepsOrder
    <2>5. CASE DDiscard  BY <2>5 DEF DDiscard, Numbered, InOrder, Past
    <2>6. CASE DCheck  BY <2>6, NumberedKept DEF DCheck
    <2>7. CASE DAccepted  BY <2>7, AcceptKeepsOrder
    <2>8. CASE DRefused  BY <2>8 DEF DRefused, Numbered, InOrder, Past
    <2>9. QED
      BY <1>1, <2>1, <2>2, <2>3, <2>4, <2>5, <2>6, <2>7, <2>8 DEF SWDeliverThread
  <1>2. ASSUME NEW t \in {"S", "A"}, StopSWPipeline(t)
        PROVE  Numbered'
    <2>1. CASE StopExit(t)  BY <2>1, NumberedKept DEF StopExit
    <2>2. CASE StopWake(t)  BY <2>2, NumberedKept DEF StopWake
    <2>3. CASE StopJoin(t)  BY <2>3, NumberedKept DEF StopJoin
    <2>4. CASE StopClear(t)
      BY <2>4, NumberedKept DEF StopClear, Step, OneOwner, Lifetimes
    <2>5. QED  BY <1>2, <2>1, <2>2, <2>3, <2>4 DEF StopSWPipeline
  <1>3. CASE PushSWFrame
    <2>1. CASE PushDrop  BY <2>1 DEF PushDrop, Numbered, InOrder, Past
    <2>2. CASE PushCheck  BY <2>2, NumberedKept DEF PushCheck
    <2>3. CASE PushTimeout  BY <2>3, NumberedKept DEF PushTimeout
    <2>4. CASE PushWait  BY <2>4, NumberedKept DEF PushWait
    <2>5. CASE PushInsert  BY <2>5, InsertKeepsOrder
    <2>6. CASE PushSpace  BY <2>6, NumberedKept DEF PushSpace
    <2>7. CASE PushReady  BY <2>7, NumberedKept DEF PushReady
    <2>8. QED
      BY <1>3, <2>1, <2>2, <2>3, <2>4, <2>5, <2>6, <2>7 DEF PushSWFrame
  <1>4. CASE StreamStep \/ Upstream
    <2>1. CASE Decoded  BY <2>1, DecodedKeepsOrder
    <2>2. CASE StartSWPipeline  BY <2>2, NumberedKept DEF StartSWPipeline
    <2>3. CASE Leave  BY <2>3, NumberedKept DEF Leave
    <2>4. CASE Upstream  BY <2>4, UpstreamEffect, NumberedKept
    <2>5. QED
      BY <1>2, <1>3, <1>4, <2>1, <2>2, <2>3, <2>4 DEF StreamStep
  <1>5. CASE Application \/ ApplicationStep
    <2>1. CASE BeginFlush  BY <2>1, NumberedKept DEF BeginFlush
    <2>2. CASE Control  BY <2>2, NumberedKept DEF Control
    <2>3. CASE BreakConnect  BY <2>3, NumberedKept DEF BreakConnect
    <2>4. CASE FlushTest  BY <2>4, NumberedKept DEF FlushTest
    <2>5. CASE FlushSet  BY <2>5, NumberedKept DEF FlushSet
    <2>6. CASE FlushWake  BY <2>6, NumberedKept DEF FlushWake
    <2>7. CASE FlushPoll  BY <2>7, NumberedKept DEF FlushPoll
    <2>8. CASE EndFlush  BY <2>8, NumberedKept DEF EndFlush
    <2>9. CASE EndFlushBase  BY <2>9, FlushKeepsOrder
    <2>10. CASE EndFlushPin  BY <2>10, NumberedKept DEF EndFlushPin
    <2>11. CASE CompleteConnect  BY <2>11, NumberedKept DEF CompleteConnect
    <2>12. CASE ReconnectOutput  BY <2>12, NumberedKept DEF ReconnectOutput
    <2>13. QED
      BY <1>2, <1>5, <2>1, <2>2, <2>3, <2>4, <2>5, <2>6, <2>7, <2>8, <2>9, <2>10, <2>11, <2>12
      DEF Application, ApplicationStep
  <1>6. QED
    BY <1>1, <1>4, <1>5 DEF Next

-----------------------------------------------------------------------------
(***************************************************************************)
(* The invariant holds.                                                    *)
(***************************************************************************)
LEMMA Initially ==
  Init => PipelineInv /\ Numbered
  <1> SUFFICES ASSUME Init PROVE PipelineInv /\ Numbered
    OBVIOUS
  <1> USE NullAssumption, BoundsAssumption, QueueAssumption, EmptyFacts DEF Init
  <1>1. PlacesOK  BY DEF PlacesOK, Places
  <1>2. TypeOK
    <2>1. WorkerOK  BY DEF WorkerOK
    <2>2. EventsOK  BY DEF EventsOK
    <2>3. StreamOK
      <3>1. csReceive \in {NULL, "S", "A"} /\ frame \in Frames \cup {NULL}  OBVIOUS
      <3>2. room \in BOOLEAN /\ reinit \in BOOLEAN  OBVIOUS
      <3>3. decoded \in 0 .. MaxFrames  OBVIOUS
      <3>4. QED  BY <3>1, <3>2, <3>3 DEF StreamOK
    <2>4. OutsideOK
      <3>1. pinFlush \in BOOLEAN /\ outFlush \in BOOLEAN  OBVIOUS
      <3>2. graph \in {"stopped", "paused", "running"}  OBVIOUS
      <3>3. epoch \in 0 .. MaxFlushes  OBVIOUS
      <3>4. delivered \in Seq(Frames)  OBVIOUS
      <3>5. QED  BY <3>1, <3>2, <3>3, <3>4 DEF OutsideOK
    <2>5. QED  BY <1>1, <2>1, <2>2, <2>3, <2>4 DEF TypeOK
  <1>3. OneOwner /\ Lifetimes
    BY DEF OneOwner, Connecting, Lifetimes, Pushing, Stopping, Told, Flushing
  <1>4. Licence /\ WakeupPending /\ RoomAnnounced /\ StopLosesNothing
    BY DEF Licence, WakeupPending, RoomAnnounced, StopLosesNothing
  <1>5. Numbered
    BY DEF Numbered, InOrder
  <1>6. QED
    BY <1>2, <1>3, <1>4, <1>5 DEF PipelineInv

LEMMA NextKeepsInv ==
  ASSUME PipelineInv, Next
  PROVE  PipelineInv'
  <1> USE DEF PipelineInv
  <1> PlacesOK /\ WorkerOK
    BY DEF TypeOK
  <1>1. CASE SWDeliverThread
    BY <1>1, WorkerKeepsTypes, WorkerKeepsOwners, WorkerKeepsLifetimes, WorkerKeepsLicence,
       WorkerKeepsWakeup
  <1>2. CASE StreamStep \/ Upstream
    BY <1>2, StreamKeepsTypes, StreamKeepsOwners, StreamKeepsLifetimes, StreamKeepsLicence,
       StreamKeepsWakeup
  <1>3. CASE Application \/ ApplicationStep
    BY <1>3, ApplicationKeepsTypes, ApplicationKeepsOwners, ApplicationKeepsLifetimes,
       ApplicationKeepsLicence, ApplicationKeepsWakeup
  <1>4. QED
    BY <1>1, <1>2, <1>3 DEF Next

LEMMA StutterKeepsInv ==
  ASSUME PipelineInv, Numbered, UNCHANGED vars
  PROVE  PipelineInv' /\ Numbered'
  <1> USE DEF vars, events, worker, stream, outside
  <1>1. TypeOK'
    BY DEF PipelineInv, TypeOK, PlacesOK, EventsOK, WorkerOK, StreamOK, OutsideOK
  <1>2. OneOwner' /\ Lifetimes'
    BY DEF PipelineInv, OneOwner, Connecting, Lifetimes
  <1>3. Licence' /\ WakeupPending' /\ RoomAnnounced' /\ StopLosesNothing'
    BY DEF PipelineInv, Licence, WakeupPending, RoomAnnounced, StopLosesNothing
  <1>4. Numbered'
    BY DEF Numbered, InOrder, Past
  <1>5. QED
    BY <1>1, <1>2, <1>3, <1>4 DEF PipelineInv

LEMMA Invariant ==
  Spec => [](PipelineInv /\ Numbered)
  <1>1. PipelineInv /\ Numbered /\ [Next]_vars => (PipelineInv /\ Numbered)'
    BY NextKeepsInv, NextKeepsOrder, StutterKeepsInv DEF PipelineInv
  <1>2. QED
    BY Initially, <1>1, PTL DEF Spec

\* Every variable of the pipeline keeps its type; a frame is in the worker's hand, or in the
\* hands of PushSWFrame, exactly where the code holds one.
THEOREM PipelineTypes == Spec => []TypeOK
  <1>1. PipelineInv => TypeOK  BY DEF PipelineInv
  <1>2. QED  BY Invariant, <1>1, PTL

\* At most one thread at a time starts, feeds or stops the worker.  It holds m_csReceive, or is
\* the application in CompleteConnect, which takes no lock but finds nobody in the filter.
THEOREM PipelineOneOwner == Spec => []OneOwner
  <1>1. PipelineInv => OneOwner  BY DEF PipelineInv
  <1>2. QED  BY Invariant, <1>1, PTL

\* PushSWFrame never fills the queue beyond SW_PIPELINE_MAX_QUEUE.
THEOREM PipelineQueueBounded == Spec => []QueueBounded
  <1>1. PipelineInv => QueueBounded  BY DEF PipelineInv, Licence, QueueBounded
  <1>2. QED  BY Invariant, <1>1, PTL

\* No wakeup of SWDeliverThread is lost: frames in the queue have its event set, or it is
\* about to look.
THEOREM PipelineWakeups == Spec => []WakeupPending
  <1>1. PipelineInv => WakeupPending  BY DEF PipelineInv
  <1>2. QED  BY Invariant, <1>1, PTL

\* No announcement of room to a waiting PushSWFrame is lost.
THEOREM PipelineRoom == Spec => []RoomAnnounced
  <1>1. PipelineInv => RoomAnnounced  BY DEF PipelineInv
  <1>2. QED  BY Invariant, <1>1, PTL

\* StopSWPipeline finds the queue empty: it throws no frame away.
THEOREM PipelineStopLosesNothing == Spec => []StopLosesNothing
  <1>1. PipelineInv => StopLosesNothing  BY DEF PipelineInv
  <1>2. QED  BY Invariant, <1>1, PTL

\* Frames reach the renderer in the order in which they were decoded, each at most once, and
\* none from before a flush comes behind one from after it.
THEOREM PipelineInOrder == Spec => []InOrder
  <1>1. Numbered => InOrder  BY DEF Numbered
  <1>2. QED  BY Invariant, <1>1, PTL

-----------------------------------------------------------------------------
(***************************************************************************)
(* The pipeline implements FrameChannel.                                   *)
(***************************************************************************)
Way == IF hand = NULL THEN queue ELSE <<hand>> \o queue

LEMMA WayIsSeq ==
  ASSUME TypeOK
  PROVE  /\ Way \in Seq(Frames)
         /\ hand # NULL => Way # <<>> /\ Head(Way) = hand /\ Tail(Way) = queue
         /\ Len(Way) <= Len(queue) + 1
  <1>1. queue \in Seq(Frames) /\ hand \in Frames \cup {NULL} /\ Len(queue) \in Nat
    BY DEF TypeOK, WorkerOK
  <1>2. CASE hand = NULL  BY <1>1, <1>2 DEF Way
  <1>3. CASE hand # NULL  BY <1>1, <1>3, ConcatFacts DEF Way
  <1>4. QED  BY <1>2, <1>3

\* A frame comes from the queue into the worker's hand: it is still on its way.
LEMMA PopIsSilent ==
  ASSUME TypeOK, DPop
  PROVE  Way' = Way /\ UNCHANGED <<delivered, flushing, outFlush, graph>>
  <1>1. hand = NULL /\ hand' = Head(queue) /\ queue' = Tail(queue) /\ queue # <<>>
    BY DEF DPop, Step, TypeOK
  <1>2. queue \in Seq(Frames)
    BY DEF TypeOK, WorkerOK
  <1>3. hand' # NULL
    BY <1>1, <1>2, TailFacts, NullAssumption
  <1>4. Way' = Way
    BY <1>1, <1>2, <1>3, TailFacts DEF Way
  <1>5. QED
    BY <1>4 DEF DPop, outside

LEMMA InsertIsSend ==
  ASSUME TypeOK, Licence, PushInsert
  PROVE  Channel!Send
  <1> USE DEF PushInsert, Step
  <1>1. frame \in Frames /\ queue \in Seq(Frames) /\ hand \in Frames \cup {NULL}
    BY DEF TypeOK, StreamOK, WorkerOK
  <1>2. Len(queue) \in Nat /\ Len(queue) < QueueMax
    BY <1>1 DEF Licence
  <1>3. Len(Way) \in Nat /\ Len(Way) < QueueMax + 1
    BY <1>2, WayIsSeq, QueueAssumption
  <1>4. Way' = Append(Way, frame)
    <2>1. CASE hand = NULL  BY <2>1 DEF Way
    <2>2. CASE hand # NULL  BY <1>1, <2>2, ConcatFacts DEF Way
    <2>3. QED  BY <2>1, <2>2
  <1>5. UNCHANGED <<delivered, flushing, outFlush, graph>>
    BY DEF outside
  <1>6. QED
    BY <1>1, <1>3, <1>4, <1>5 DEF Channel!Send, Way

\* The worker lets go of the frame in its hand.
LEMMA ReleaseIsTail ==
  ASSUME TypeOK, hand # NULL, hand' = NULL, queue' = queue
  PROVE  Way # <<>> /\ Way' = Tail(Way) /\ Head(Way) = hand
  BY WayIsSeq DEF Way

LEMMA NextIsChannelStep ==
  ASSUME PipelineInv, Next
  PROVE  [Channel!Next]_Channel!vars
  <1> USE DEF PipelineInv
  <1> DEFINE Silent == UNCHANGED <<Way, delivered>>
  <1>1. Silent => [Channel!Next]_Channel!vars
    <2> SUFFICES ASSUME Silent PROVE [Channel!Next]_Channel!vars
      OBVIOUS
    <2>1. CASE UNCHANGED (flushing \/ outFlush \/ graph = "stopped")
      BY <2>1 DEF Channel!vars, Way
    <2>2. CASE ~ UNCHANGED (flushing \/ outFlush \/ graph = "stopped")
      BY <2>2, Zenon DEF Channel!Next, Channel!Flush, Way
    <2>3. QED  BY <2>1, <2>2
  <1>2. UNCHANGED <<queue, hand, delivered>> => Silent
    BY DEF Way
  <1>. HIDE DEF Silent
  <1>3. CASE SWDeliverThread
    <2> USE DEF events, worker, stream, outside
    <2>1. CASE DWake  BY <1>1, <1>2, <2>1 DEF DWake
    <2>2. CASE DExit  BY <1>1, <1>2, <2>2 DEF DExit
    <2>3. CASE DEmpty  BY <1>1, <1>2, <2>3 DEF DEmpty
    <2>4. CASE DPop  BY <1>1, <2>4, PopIsSilent DEF Silent
    <2>5. CASE DDiscard
      <3>1. hand # NULL /\ hand' = NULL /\ queue' = queue /\ flushing
        BY <2>5 DEF DDiscard, Step, TypeOK
      <3>2. UNCHANGED <<delivered, flushing, outFlush, graph>>
        BY <2>5 DEF DDiscard
      <3>3. QED
        BY <3>1, <3>2, ReleaseIsTail DEF Channel!Next, Channel!Discard, Way
    <2>6. CASE DCheck  BY <1>1, <1>2, <2>6 DEF DCheck
    <2>7. CASE DAccepted
      <3>1. hand # NULL /\ hand' = NULL /\ queue' = queue
        BY <2>7 DEF DAccepted, Step, TypeOK
      <3>2. delivered' = Append(delivered, hand) /\ UNCHANGED <<flushing, outFlush, graph>>
        BY <2>7 DEF DAccepted
      <3>3. QED
        BY <3>1, <3>2, ReleaseIsTail DEF Channel!Next, Channel!Deliver, Way
    <2>8. CASE DRefused
      <3>1. hand # NULL /\ hand' = NULL /\ queue' = queue
        BY <2>8 DEF DRefused, Step, TypeOK
      <3>2. UNCHANGED <<delivered, flushing, outFlush, graph>>
        BY <2>8 DEF DRefused
      <3>3. outFlush \/ graph = "stopped" \/ Refuses
        BY <2>8 DEF DRefused
      <3>4. QED
        BY <3>1, <3>2, <3>3, ReleaseIsTail DEF Channel!Next, Channel!Discard, Way
    <2>9. QED
      BY <1>3, <2>1, <2>2, <2>3, <2>4, <2>5, <2>6, <2>7, <2>8 DEF SWDeliverThread
  <1>4. ASSUME NEW t \in {"S", "A"}, StopSWPipeline(t)
        PROVE  Silent
    <2> USE DEF worker, stream, outside
    <2>1. CASE StopExit(t)  BY <1>2, <2>1 DEF StopExit
    <2>2. CASE StopWake(t)  BY <1>2, <2>2 DEF StopWake
    <2>3. CASE StopJoin(t)  BY <1>2, <2>3 DEF StopJoin
    <2>4. CASE StopClear(t)
      BY <1>2, <2>4 DEF StopClear, Step, OneOwner, Lifetimes
    <2>5. QED  BY <1>4, <2>1, <2>2, <2>3, <2>4 DEF StopSWPipeline
  <1>5. CASE PushSWFrame
    <2> USE DEF worker, stream, outside
    <2>1. CASE PushDrop  BY <1>1, <1>2, <2>1 DEF PushDrop
    <2>2. CASE PushCheck  BY <1>1, <1>2, <2>2 DEF PushCheck
    <2>3. CASE PushTimeout  BY <1>1, <1>2, <2>3 DEF PushTimeout
    <2>4. CASE PushWait  BY <1>1, <1>2, <2>4 DEF PushWait
    <2>5. CASE PushInsert  BY <2>5, InsertIsSend DEF Channel!Next
    <2>6. CASE PushSpace  BY <1>1, <1>2, <2>6 DEF PushSpace
    <2>7. CASE PushReady  BY <1>1, <1>2, <2>7 DEF PushReady
    <2>8. QED
      BY <1>5, <2>1, <2>2, <2>3, <2>4, <2>5, <2>6, <2>7 DEF PushSWFrame
  <1>6. CASE Decoded \/ StartSWPipeline \/ Leave \/ Upstream
    <2> USE DEF worker, outside
    <2>1. CASE Decoded  BY <1>1, <1>2, <2>1 DEF Decoded
    <2>2. CASE StartSWPipeline  BY <1>1, <1>2, <2>2 DEF StartSWPipeline
    <2>3. CASE Leave  BY <1>1, <1>2, <2>3 DEF Leave
    <2>4. CASE Upstream  BY <1>1, <1>2, <2>4, UpstreamEffect
    <2>5. QED  BY <1>6, <2>1, <2>2, <2>3, <2>4
  <1>7. CASE Application \/ ApplicationStep
    <2> USE DEF worker, stream, outside
    <2>1. CASE BeginFlush  BY <1>1, <1>2, <2>1 DEF BeginFlush
    <2>2. CASE Control  BY <1>1, <1>2, <2>2 DEF Control
    <2>3. CASE BreakConnect  BY <1>1, <1>2, <2>3 DEF BreakConnect
    <2>4. CASE FlushTest  BY <1>1, <1>2, <2>4 DEF FlushTest
    <2>5. CASE FlushSet  BY <1>1, <1>2, <2>5 DEF FlushSet
    <2>6. CASE FlushWake  BY <1>1, <1>2, <2>6 DEF FlushWake
    <2>7. CASE FlushPoll  BY <1>1, <1>2, <2>7 DEF FlushPoll
    <2>8. CASE EndFlush  BY <1>1, <1>2, <2>8 DEF EndFlush
    <2>9. CASE EndFlushBase  BY <1>1, <1>2, <2>9 DEF EndFlushBase
    <2>10. CASE EndFlushPin  BY <1>1, <1>2, <2>10 DEF EndFlushPin
    <2>11. CASE CompleteConnect  BY <1>1, <1>2, <2>11 DEF CompleteConnect
    <2>12. CASE ReconnectOutput  BY <1>1, <1>2, <2>12 DEF ReconnectOutput
    <2>13. QED
      BY <1>1, <1>4, <1>7, <2>1, <2>2, <2>3, <2>4, <2>5, <2>6, <2>7, <2>8, <2>9, <2>10, <2>11,
         <2>12
      DEF Application, ApplicationStep
  <1>8. QED
    BY <1>1, <1>3, <1>4, <1>5, <1>6, <1>7 DEF Next, StreamStep

\* The threads, events and locks of the pipeline do what the bounded channel promises: frames
\* leave in order, each at most once, and one that was pushed is dropped only in a flush, when
\* the graph has stopped, or because the output refuses it.
THEOREM PipelineIsChannel == Spec => ImplementsChannel
  <1>1. Init => Channel!Init
    BY DEF Init, Channel!Init
  <1>2. PipelineInv /\ [Next]_vars => [Channel!Next]_Channel!vars
    <2>1. ASSUME UNCHANGED vars PROVE UNCHANGED Channel!vars
      BY <2>1 DEF vars, worker, outside, Channel!vars
    <2>2. QED  BY <2>1, NextIsChannelStep
  <1>3. QED
    BY <1>1, <1>2, Invariant, PTL DEF Spec, ImplementsChannel, Channel!Spec

=============================================================================
