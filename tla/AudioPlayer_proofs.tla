-------------------------- MODULE AudioPlayer_proofs -------------------------
(***************************************************************************)
(* The proof that CMpcAudioRenderer is a PacketPlayer as long as it neither*)
(* releases an idle device nor renders while it is paused: every step of   *)
(* its threads is a step of the player, or none.                           *)
(***************************************************************************)
EXTENDS AudioFormats_proofs

PlayerStep == [Player!Next]_(Player!vars)

\* What is known of the state a step starts from.
PlayerInv ==
    /\ TypeOK /\ LockDiscipline /\ Rendezvous /\ ClientsLive /\ FormatsAgree /\ QueueInv
    /\ ~PauseKeepActive

-----------------------------------------------------------------------------
(***************************************************************************)
(* The steps of the player, seen from the renderer.                        *)
(***************************************************************************)
UsersStay == \A t \in {"R", "S"} : pc'[t] \in Using[t] <=> pc[t] \in Using[t]

LEMMA UsersKept == UsersStay => Users' = Users
  BY DEF UsersStay, Users

LEMMA StutterStep ==
  ASSUME UNCHANGED <<renderClient, halfMade, queue>>, UsersStay
  PROVE  PlayerStep
  BY UsersKept DEF PlayerStep, Player!vars, HalfMade

LEMMA EnterStep ==
  ASSUME NEW t \in {"R", "S"}, NEW l \in Using[t], TypeOK, Goto(t, l),
         renderClient # NULL, UNCHANGED <<renderClient, halfMade, queue>>
  PROVE  PlayerStep
  <1>1. Users' = Users \cup {t}
    BY DEF Users, Goto, TypeOK, PlacesOK, Threads
  <1>2. QED
    BY <1>1 DEF PlayerStep, Player!Next, Player!Enter, HalfMade

LEMMA LeaveStep ==
  ASSUME NEW t \in {"R", "S"}, NEW l, l \notin Using[t], pc[t] \in Using[t], TypeOK, Goto(t, l),
         renderClient # NULL, QueueMatchesClient, UNCHANGED <<renderClient, halfMade>>,
         queue' \in {queue, Played}
  PROVE  PlayerStep
  <1>1. Users' = Users \ {t} /\ t \in Users
    BY DEF Users, Goto, TypeOK, PlacesOK, Threads
  <1>2. \/ UNCHANGED queue
        \/ queue # <<>> /\ (HalfMade \/ Head(queue) = renderClient) /\ queue' = Tail(queue)
    BY DEF Played, QueueMatchesClient, TypeOK, FlowOK
  <1>3. QED
    BY <1>1, <1>2 DEF PlayerStep, Player!Next, Player!Leave, HalfMade

LEMMA PutStep ==
  ASSUME NEW f \in Format, HalfMade \/ renderClient \in {f, NULL},
         queue' = Append(queue, f), UNCHANGED <<renderClient, halfMade>>, UsersStay
  PROVE  PlayerStep
  BY UsersKept DEF PlayerStep, Player!Next, Player!Put, HalfMade

LEMMA ReleaseStep ==
  ASSUME Users = {}, renderClient' = NULL, UNCHANGED queue, UsersStay
  PROVE  PlayerStep
  BY UsersKept DEF PlayerStep, Player!Next, Player!Release, HalfMade

LEMMA MakeStep ==
  ASSUME Users = {}, renderClient = NULL, renderClient' \in Format, queue' = <<>>, UsersStay
  PROVE  PlayerStep
  BY UsersKept DEF PlayerStep, Player!Next, Player!Make, HalfMade

LEMMA FlushStep ==
  ASSUME queue' = <<>>, UNCHANGED <<renderClient, halfMade>>, UsersStay
  PROVE  PlayerStep
  BY UsersKept DEF PlayerStep, Player!Next, Player!Flush, HalfMade

\* While the render thread is parked and the streaming thread is elsewhere, no one is inside.
LEMMA NoUsers ==
  ASSUME PlayerInv, pc["S"] \in Holding
  PROVE  Users = {}
  BY DEF PlayerInv, Rendezvous, Users, Using, Holding, Away, Parked, Keeping

-----------------------------------------------------------------------------
(***************************************************************************)
(* RenderWasapiBuffer, whichever thread is in it.                          *)
(***************************************************************************)
LEMMA RenderSteps ==
  ASSUME NEW t \in {"R", "S"}, PlayerInv,
         NEW check, NEW lock \in Using[t], NEW fill \in Using[t], NEW done, NEW looksAtResult,
         check \notin Using[t], done \notin Using[t],
         pc[t] \in {lock, fill} => renderClient # NULL,
         RenderWasapiBuffer(t, check, lock, fill, done, looksAtResult)
  PROVE  PlayerStep
  <1> USE DEF Step, Branch, client, flow, formats
  <1>1. TypeOK /\ QueueMatchesClient
    BY DEF PlayerInv, QueueInv
  <1>2. CASE RenderCheck(t, check, lock, done)
    <2>1. CASE renderClient # NULL /\ outFmt # NULL
      BY <1>1, <1>2, <2>1, EnterStep DEF RenderCheck
    <2>2. CASE ~(renderClient # NULL /\ outFmt # NULL)
      <3>1. UsersStay
        BY <1>1, <1>2, <2>2 DEF RenderCheck, UsersStay, Goto, TypeOK, PlacesOK, Threads
      <3>2. QED
        BY <1>2, <3>1, StutterStep DEF RenderCheck
    <2>3. QED
      BY <2>1, <2>2
  <1>3. CASE RenderLock(t, lock, fill)
    <2>1. UsersStay
      BY <1>1, <1>3 DEF RenderLock, UsersStay, Goto, TypeOK, PlacesOK, Threads
    <2>2. QED
      BY <1>3, <2>1, StutterStep DEF RenderLock
  <1>4. CASE FillBuffer(t, fill, done)
    BY <1>1, <1>4, LeaveStep DEF FillBuffer
  <1>5. CASE FillFails(t, fill, done, looksAtResult)
    BY <1>1, <1>5, LeaveStep DEF FillFails
  <1>6. QED
    BY <1>2, <1>3, <1>4, <1>5 DEF RenderWasapiBuffer

LEMMA StartSteps ==
  ASSUME PlayerInv,
         NEW at, NEW check, NEW lock \in Using.S, NEW fill \in Using.S, NEW start, NEW done,
         at \notin Using.S, check \notin Using.S, start \notin Using.S, done \notin Using.S,
         pc["S"] \in {lock, fill} => renderClient # NULL,
         StartAudioClient(at, check, lock, fill, start, done)
  PROVE  PlayerStep
  <1> USE DEF Step, Branch, client, flow, formats
  <1>1. TypeOK /\ Using.S = Using["S"]
    BY DEF PlayerInv
  <1>2. CASE RenderWasapiBuffer("S", check, lock, fill, start, FALSE)
    BY <1>1, <1>2, RenderSteps
  <1>3. ASSUME NEW l, l \in {check, start, done}, l \notin Using.S, pc["S"] \notin Using.S,
               Goto("S", l), UNCHANGED <<renderClient, halfMade, queue>>
        PROVE  PlayerStep
    <2>1. UsersStay
      BY <1>1, <1>3 DEF UsersStay, Goto, TypeOK, PlacesOK, Threads
    <2>2. QED
      BY <1>3, <2>1, StutterStep
  <1>4. CASE /\ Branch("S", at, audioClient /\ ~started, check, done)
             /\ UNCHANGED <<locks, handshake, flow, client, formats, requests, control, locals>>
    BY <1>3, <1>4
  <1>5. CASE /\ Step("S", start, done)
             /\ UNCHANGED <<device, useDefault, audioClient, renderClient>>
             /\ UNCHANGED <<locks, handshake, flow, formats, requests, control, locals>>
    BY <1>3, <1>5
  <1>6. QED
    BY <1>2, <1>4, <1>5 DEF StartAudioClient

-----------------------------------------------------------------------------
(***************************************************************************)
(* The steps of the player, thread by thread.                              *)
(***************************************************************************)
LEMMA RenderThreadPlays ==
  ASSUME PlayerInv, RenderThread
  PROVE  PlayerStep
  <1> USE DEF Goto, Step, Branch, PlayerInv, TypeOK, PlacesOK, Threads, flow, client, formats,
     UsersStay, Using
  <1>1. CASE RTop
    BY <1>1, StutterStep DEF RTop, CheckBufferStatus
  <1>2. CASE RRender
    <2>1. pc["R"] \in {"r.lock", "r.fill"} => renderClient # NULL
      BY DEF ClientsLive
    <2>2. AfterFill \notin Using["R"]
      BY DEF AfterFill
    <2>3. QED
      BY <1>2, <2>1, <2>2, RenderSteps DEF RRender
  <1>3. CASE RData
    BY <1>3, StutterStep DEF RData
  <1>4. CASE RTimeout
    BY <1>4, StutterStep DEF RTimeout, SetReinitializeAudioDevice
  <1>5. CASE RPause
    BY <1>5, StutterStep DEF RPause
  <1>6. CASE RParkFlag
    BY <1>6, StutterStep DEF RParkFlag
  <1>7. CASE RParkAnswer
    BY <1>7, StutterStep DEF RParkAnswer, RParkReset, RParkAck
  <1>8. CASE RParked
    BY <1>8, StutterStep DEF RParked, KeepsActive
  <1>9. CASE RKeepActive
    <2>1. pc["R"] \notin Keeping
      BY DEF Rendezvous
    <2>2. QED
      BY <1>9, <2>1 DEF RKeepActive, RenderWasapiBuffer, RenderCheck, RenderLock, FillBuffer,
         FillFails, Keeping
  <1>10. CASE RKeepTimeout
    BY <1>10, StutterStep DEF RKeepTimeout
  <1>11. CASE RResume
    BY <1>11, StutterStep DEF RResume
  <1>12. QED
    BY <1>1, <1>2, <1>3, <1>4, <1>5, <1>6, <1>7, <1>8, <1>9, <1>10, <1>11 DEF RenderThread

LEMMA CheckAudioClientPlays ==
  ASSUME PlayerInv, CheckAudioClient
  PROVE  PlayerStep
  <1> USE DEF Goto, Step, Branch, PlayerInv, TypeOK, PlacesOK, Threads, flow, client, formats,
     UsersStay, Using
  <1>1. CASE CacEnter
    BY <1>1, StutterStep DEF CacEnter
  <1>2. CASE CacLock
    BY <1>2, StutterStep DEF CacLock
  <1>3. CASE CacCreate
    BY <1>3, StutterStep, CacCreateStep
  <1>4. CASE CacFormat
    BY <1>4, StutterStep DEF CacFormat
  <1>5. CASE CacKeep
    BY <1>5, StutterStep DEF CacKeep
  <1>6. CASE RelUnlock
    BY <1>6, StutterStep DEF RelUnlock
  <1>7. CASE RelPause
    BY <1>7, StutterStep DEF RelPause, PauseAsk, PauseSet, PauseAck
  <1>8. CASE RelLock
    BY <1>8, StutterStep DEF RelLock
  <1>9. CASE RelDrop
    <2>1. Users = {}
      BY <1>9, NoUsers DEF RelDrop, Holding
    <2>2. QED
      BY <1>9, <2>1, ReleaseStep DEF RelDrop
  <1>10. CASE CacInit
    BY <1>10, StutterStep DEF CacInit, ClientRefused
  <1>11. CASE CrcAlign
    <2>1. pc["S"] = "crc.align" => renderClient = NULL
      BY DEF ClientsLive, ClientsWhole
    <2>2. QED
      BY <1>11, <2>1, StutterStep DEF CrcAlign, PauseAsk, PauseSet, PauseAck, ClientRefused
  <1>12. CASE CrcCreate
    <2>1. Users = {}
      BY <1>12, NoUsers DEF CrcCreate, Holding
    <2>2. renderClient = NULL /\ outFmt \in Format
      BY <1>12 DEF CrcCreate, ClientsLive, ClientsWhole, FormatsAgree, InCreate, FormatsOK
    <2>3. queue' = <<>>
      BY <1>12 DEF CrcCreate, QueueInv, NeverReleased
    <2>4. QED
      BY <1>12, <2>1, <2>2, <2>3, MakeStep DEF CrcCreate
  <1>13. CASE CrcStart
    BY <1>13, StutterStep DEF CrcStart, StartRendererThread, ResumeAck, HasThread
  <1>14. CASE CacReturn
    BY <1>14, StutterStep DEF CacReturn
  <1>15. QED
    BY <1>1, <1>2, <1>3, <1>4, <1>5, <1>6, <1>7, <1>8, <1>9, <1>10, <1>11, <1>12, <1>13,
       <1>14 DEF CheckAudioClient

LEMMA ReinitializePlays ==
  ASSUME PlayerInv, ReinitializeAudioDevice
  PROVE  PlayerStep
  <1> USE DEF Goto, Step, Branch, PlayerInv, TypeOK, PlacesOK, Threads, flow, client, formats,
     UsersStay, Using
  <1>1. CASE RePause
    BY <1>1, StutterStep DEF RePause, PauseAsk, PauseSet, PauseAck
  <1>2. CASE ReLock
    BY <1>2, StutterStep DEF ReLock
  <1>3. CASE ReDrop
    <2>1. Users = {}
      BY <1>3, NoUsers DEF ReDrop, Holding
    <2>2. ~full => UNCHANGED <<renderClient, halfMade>>
      BY <1>3 DEF ReDrop, FormatsOK
    <2>3. QED
      BY <1>3, <2>1, <2>2, ReleaseStep, StutterStep DEF ReDrop
  <1>4. CASE ReCreate
    BY <1>4, StutterStep, ReCreateStep
  <1>5. CASE ReCheck
    BY <1>5, StutterStep DEF ReCheck, Call
  <1>6. CASE ReDone
    BY <1>6, StutterStep DEF ReDone
  <1>7. QED
    BY <1>1, <1>2, <1>3, <1>4, <1>5, <1>6 DEF ReinitializeAudioDevice

LEMMA StreamingPlays ==
  ASSUME PlayerInv, Streaming
  PROVE  PlayerStep
  <1> USE DEF Goto, Step, Branch, PlayerInv, TypeOK, PlacesOK, Threads, flow, client, formats,
     UsersStay, Using
  <1>0. CASE PrepareReceive
    BY <1>0, StutterStep, PrepareReceiveStep
  <1>1. CASE Transform
    BY <1>1, StutterStep DEF Transform
  <1>2. CASE TReinit
    BY <1>2, StutterStep DEF TReinit
  <1>3. CASE TStatus
    BY <1>3, StutterStep DEF TStatus, CheckBufferStatus
  <1>4. CASE TWait
    BY <1>4, StutterStep DEF TWait
  <1>5. CASE TRender
    BY <1>5, StutterStep DEF TRender
  <1>6. CASE TCheck
    BY <1>6, StutterStep DEF TCheck, Call
  <1>7. CASE TClient
    BY <1>7, StutterStep DEF TClient
  <1>8. CASE TJitter
    <2>1. outFmt \in Format /\ renderClient \in {outFmt, NULL}
      BY <1>8 DEF TJitter, Convertible, FormatsOK, FormatsAgree, InRelease
    <2>2. QED
      BY <1>8, <2>1, PutStep DEF TJitter
  <1>9. CASE TQueue
    <2>1. Convertible => outParams \in Format /\ (HalfMade \/ renderClient \in {outParams, NULL})
      BY <1>9 DEF TQueue, Convertible, FormatsOK, FormatsAgree, HalfMade, InStart
    <2>2. QED
      BY <1>9, <2>1, PutStep, StutterStep DEF TQueue
  <1>10. CASE TStart
    BY <1>10, StutterStep DEF TStart, StartRendererThread, ResumeAck, HasThread
  <1>11. CASE StartAudioClient("sc.client", "sc.check", "sc.lock", "sc.fill", "sc.start", "idle")
    <2>1. pc["S"] \in {"sc.lock", "sc.fill"} => renderClient # NULL
      BY DEF ClientsLive
    <2>2. QED
      BY <1>11, <2>1, StartSteps
  <1>12. CASE StartAudioClient("j.client", "j.check", "j.lock", "j.fill", "j.start", "t.queue")
    <2>1. pc["S"] \in {"j.lock", "j.fill"} => renderClient # NULL
      BY DEF ClientsLive
    <2>2. QED
      BY <1>12, <2>1, StartSteps
  <1>13. CASE WaitFinish
    BY <1>13, StutterStep DEF WaitFinish
  <1>14. CASE EndFlush("S", "eos.flush")
    BY <1>14, FlushStep DEF EndFlush
  <1>15. QED
    BY <1>0, <1>1, <1>2, <1>3, <1>4, <1>5, <1>6, <1>7, <1>8, <1>9, <1>10, <1>11, <1>12, <1>13, 
       <1>14, ReinitializePlays, CheckAudioClientPlays DEF Streaming

LEMMA UpstreamPlays ==
  ASSUME PlayerInv, Upstream
  PROVE  PlayerStep
  <1> USE DEF Goto, Step, Branch, PlayerInv, TypeOK, PlacesOK, Threads, flow, client, formats,
     UsersStay, Using
  <1>1. CASE ReceiveSample
    BY <1>1, StutterStep DEF ReceiveSample
  <1>2. CASE EndOfStream
    <2>1. Convertible => outParams \in Format /\ (HalfMade \/ renderClient \in {outParams, NULL})
      BY <1>2 DEF EndOfStream, Convertible, FormatsOK, FormatsAgree, HalfMade, InStart
    <2>2. QED
      BY <1>2, <2>1, PutStep, StutterStep DEF EndOfStream
  <1>3. CASE NewSegment
    BY <1>3, StutterStep DEF NewSegment
  <1>4. CASE \E f \in Format : Connect(f)
    BY <1>4, StutterStep, ConnectStep
  <1>5. QED
    BY <1>1, <1>2, <1>3, <1>4 DEF Upstream

LEMMA ApplicationPlays ==
  ASSUME PlayerInv, Application \/ ApplicationStep
  PROVE  PlayerStep
  <1> USE DEF Goto, Step, Branch, PlayerInv, TypeOK, PlacesOK, Threads, flow, client, formats,
     UsersStay, Using
  <1>1. CASE Run
    BY <1>1, StutterStep DEF Run
  <1>2. CASE RunEndTimer
    BY <1>2, StutterStep DEF RunEndTimer
  <1>3. CASE RunMore
    BY <1>3, StutterStep DEF RunMore
  <1>4. CASE RunSlave
    BY <1>4, StutterStep DEF RunSlave
  <1>5. CASE Pause
    BY <1>5, StutterStep DEF Pause, Leave
  <1>6. CASE Stop
    BY <1>6, StutterStep DEF Stop, Leave
  <1>7. CASE StopReturn
    BY <1>7, StutterStep DEF StopReturn
  <1>8. CASE BeginFlush
    BY <1>8, StutterStep DEF BeginFlush
  <1>9. CASE FlushReceive
    BY <1>9, StutterStep DEF FlushReceive
  <1>10. CASE EndFlush("A", "flush.end")
    BY <1>10, FlushStep DEF EndFlush
  <1>11. QED
    BY <1>1, <1>2, <1>3, <1>4, <1>5, <1>6, <1>7, <1>8, <1>9, <1>10 DEF Application, ApplicationStep

LEMMA ReleasePlays ==
  ASSUME PlayerInv, TimerFires \/ ReleaseDevice \/ DeviceTick \/ Change
  PROVE  PlayerStep
  <1> USE DEF Goto, Step, Branch, PlayerInv, TypeOK, PlacesOK, Threads, flow, client, formats,
     UsersStay, Using
  <1>1. CASE TimerFires \/ ReleaseDevice
    <2>1. timer = "none" /\ pc["T"] = "idle"
      BY DEF Rendezvous
    <2>2. QED
      BY <1>1, <2>1 DEF TimerFires, ReleaseDevice, RdLock, RdPause, RdDrop, PauseAsk, PauseSet,
         PauseAck
  <1>2. CASE DeviceTick
    BY <1>2, StutterStep DEF DeviceTick
  <1>3. CASE Change
    BY <1>3, StutterStep DEF Change, SetReinitializeAudioDevice
  <1>4. QED
    BY <1>1, <1>2, <1>3

-----------------------------------------------------------------------------
(***************************************************************************)
(* When neither an idle device is released nor a paused one kept active:   *)
(* RenderWasapiBuffer plays every packet, in the order in which Transform  *)
(* queued them, with a client made for its format, or the packet goes with *)
(* all that wait with it; and ReleaseAudio, ReinitializeAudioDevice and    *)
(* CreateRenderClient neither release nor make a client that a thread uses.*)
(* Only on a client that CreateRenderClient made before it failed may a    *)
(* packet of another format be played.                                     *)
(***************************************************************************)
THEOREM PacketsArePlayed ==
  ASSUME ~ReleaseDeviceIdle, ~PauseKeepActive
  PROVE  Spec => ImplementsPlayer
  <1>1. Init => Player!Init
    BY DEF Init, Player!Init, Users, Using, Threads, HalfMade
  <1>2. PlayerInv /\ [Next]_vars => [Player!Next]_(Player!vars)
    <2>1. SUFFICES ASSUME PlayerInv, [Next]_vars PROVE PlayerStep
      BY DEF PlayerStep
    <2>2. CASE Next
      BY <2>1, <2>2, RenderThreadPlays, StreamingPlays, UpstreamPlays, ApplicationPlays,
         ReleasePlays DEF Next
    <2>3. CASE UNCHANGED vars
      BY <2>3, StutterStep DEF vars, flow, client, formats, UsersStay
    <2>4. QED
      BY <2>1, <2>2, <2>3
  <1>3. TypeOK /\ LockDiscipline /\ Rendezvous /\ ClientsLive /\ FormatsAgree
         /\ QueueInv => PlayerInv
    BY DEF PlayerInv
  <1>4. QED
    BY <1>1, <1>2, <1>3, TypesAndLocks, RendezvousCorrect, FormatsCorrect, QueueCorrect, PTL
       DEF Spec, ImplementsPlayer, Player!Spec
=============================================================================
