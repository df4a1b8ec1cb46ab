------------------------- MODULE AudioFormats_proofs -------------------------
(***************************************************************************)
(* Two more proofs about AudioRenderer: that the packets of the queue have *)
(* the format of the client that will play them (for a renderer that does  *)
(* not release an idle device), and that no retry of CheckAudioClient      *)
(* repeats an attempt (as long as nobody changes the device mode).         *)
(***************************************************************************)
EXTENDS AudioRenderer_proofs

\* Nobody but ReleaseDevice makes CreateRenderClient keep the queue.
NeverReleased == timer = "none" /\ pc["T"] = "idle" /\ ~released

QueueInv == NeverReleased /\ QueueMatchesClient

(***************************************************************************)
(* A retry is forced to the default device only if that was not tried, and *)
(* goes on in shared mode only from exclusive mode.                        *)
(***************************************************************************)
RetryInv ==
    /\ force => useDefault \/ (pc["S"] = "cac.create" /\ ~device)
    /\ pc["S"] \in InRelease =>
           \/ after = "init"
           \/ after = "shared" /\ ~shared
           \/ after = "default" /\ ~useDefault

\* What RetryIsNew says of a step.
NewAttempt ==
    pc["S"] = "rel.drop" /\ pc'["S"] = "cac.create" => <<force, shared>>' # <<force, shared>>


-----------------------------------------------------------------------------
(***************************************************************************)
(* What may be done to the queue and to the client.                        *)
(***************************************************************************)
LEMMA QueueKept ==
  ASSUME TypeOK, QueueMatchesClient
  PROVE  /\ UNCHANGED <<queue, renderClient, halfMade>> => QueueMatchesClient'
         /\ renderClient' = NULL => QueueMatchesClient'
         /\ queue' = <<>> => QueueMatchesClient'
         /\ \A f \in Format :
              /\ HalfMade \/ renderClient \in {f, NULL}
              /\ UNCHANGED <<renderClient, halfMade>> /\ queue' = Append(queue, f)
              => QueueMatchesClient'
  BY DEF TypeOK, FlowOK, QueueMatchesClient, HalfMade

(***************************************************************************)
(* RenderWasapiBuffer takes packets from the head of the queue and leaves  *)
(* the clients, the formats and the device alone.                          *)
(***************************************************************************)
\* All that matters here of a FillFails.
FillGivenUp(t, fill, done) ==
    /\ Step(t, fill, done) /\ queue' \in {queue, Played}
    /\ UNCHANGED <<client, formats, control, locals>>

LEMMA RenderKeepsFormats ==
  ASSUME TypeOK, NEW t, NEW check, NEW lock, NEW fill, NEW done,
         \/ RenderCheck(t, check, lock, done)
         \/ RenderLock(t, lock, fill)
         \/ FillBuffer(t, fill, done)
         \/ FillGivenUp(t, fill, done)
  PROVE  /\ UNCHANGED <<client, formats, control, locals>>
         /\ QueueMatchesClient => QueueMatchesClient'
         /\ \E l \in {lock, fill, done} : pc[t] \in {check, lock, fill} /\ Goto(t, l)
  <1>1. /\ UNCHANGED <<client, formats, control, locals>>
        /\ queue' \in {queue, Played}
        /\ \E l \in {lock, fill, done} : pc[t] \in {check, lock, fill} /\ Goto(t, l)
    <2> USE DEF Step, Branch, flow
    <2>1. CASE RenderCheck(t, check, lock, done)
      BY <2>1 DEF RenderCheck, Goto
    <2>2. CASE RenderLock(t, lock, fill)
      BY <2>2 DEF RenderLock
    <2>3. CASE FillBuffer(t, fill, done)
      BY <2>3 DEF FillBuffer
    <2>4. CASE FillGivenUp(t, fill, done)
      BY <2>4 DEF FillGivenUp
    <2>5. QED
      BY <2>1, <2>2, <2>3, <2>4
  <1>2. ASSUME QueueMatchesClient  PROVE QueueMatchesClient'
    <2>1. queue' = queue \/ (queue # <<>> /\ queue' = Tail(queue))
      BY <1>1 DEF Played
    <2>2. renderClient' = renderClient /\ halfMade' = halfMade
      BY <1>1 DEF client, formats
    <2>3. CASE queue' = queue
      BY <1>2, <2>2, <2>3 DEF QueueMatchesClient, HalfMade
    <2>4. CASE queue # <<>> /\ queue' = Tail(queue)
      BY <1>2, <2>2, <2>4 DEF QueueMatchesClient, HalfMade, TypeOK, FlowOK
    <2>5. QED
      BY <2>1, <2>3, <2>4
  <1>3. QED
    BY <1>1, <1>2

LEMMA StartKeepsFormats ==
  ASSUME TypeOK, NEW at, NEW check, NEW lock, NEW fill, NEW start, NEW done,
         StartAudioClient(at, check, lock, fill, start, done)
  PROVE  /\ UNCHANGED <<renderClient, device, useDefault, formats, control, locals>>
         /\ QueueMatchesClient => QueueMatchesClient'
         /\ \E l \in {check, lock, fill, start, done} :
                pc["S"] \in {at, check, lock, fill, start} /\ Goto("S", l)
  <1>1. CASE RenderWasapiBuffer("S", check, lock, fill, start, FALSE)
    <2>1. \/ RenderCheck("S", check, lock, start)
          \/ RenderLock("S", lock, fill)
          \/ FillBuffer("S", fill, start)
          \/ FillGivenUp("S", fill, start)
      BY <1>1 DEF RenderWasapiBuffer, FillFails, FillGivenUp
    <2> QED
      BY <2>1, RenderKeepsFormats DEF client
  <1>2. CASE /\ Branch("S", at, audioClient /\ ~started, check, done)
             /\ UNCHANGED <<locks, handshake, flow, client, formats, requests, control, locals>>
    BY <1>2, QueueKept DEF Branch, Goto, flow, client, formats
  <1>3. CASE /\ Step("S", start, done)
             /\ UNCHANGED <<device, useDefault, audioClient, renderClient>>
             /\ UNCHANGED <<locks, handshake, flow, formats, requests, control, locals>>
    BY <1>3, QueueKept DEF Step, flow, formats
  <1>4. QED
    BY <1>1, <1>2, <1>3 DEF StartAudioClient

LEMMA RenderThreadKeepsFormats ==
  ASSUME TypeOK, RRender \/ RKeepActive
  PROVE  /\ UNCHANGED <<client, formats, control, locals>>
         /\ QueueMatchesClient => QueueMatchesClient'
         /\ pc'["S"] = pc["S"] /\ pc'["T"] = pc["T"]
  <1>1. \A l : Goto("R", l) => pc'["S"] = pc["S"] /\ pc'["T"] = pc["T"]
    BY DEF Goto, TypeOK, PlacesOK, Threads
  <1>2. CASE RRender
    <2>1. \/ RenderCheck("R", "r.check", "r.lock", AfterFill)
          \/ RenderLock("R", "r.lock", "r.fill")
          \/ FillBuffer("R", "r.fill", AfterFill)
          \/ FillGivenUp("R", "r.fill", AfterFill)
      BY <1>2 DEF RRender, RenderWasapiBuffer, FillFails, FillGivenUp
    <2> QED
      BY <1>1, <2>1, RenderKeepsFormats
  <1>3. CASE RKeepActive
    <2>1. \/ RenderCheck("R", "k.check", "k.lock", "k.wait")
          \/ RenderLock("R", "k.lock", "k.fill")
          \/ FillBuffer("R", "k.fill", "k.wait")
          \/ FillGivenUp("R", "k.fill", "k.wait")
      BY <1>3 DEF RKeepActive, RenderWasapiBuffer, FillFails, FillGivenUp
    <2> QED
      BY <1>1, <2>1, RenderKeepsFormats
  <1>4. QED
    BY <1>2, <1>3

-----------------------------------------------------------------------------
(***************************************************************************)
(* The formats and the queue, thread by thread, when no idle device is     *)
(* released.                                                               *)
(***************************************************************************)

LEMMA RenderThreadKeepsQueue ==
  ASSUME TypeOK, FormatsAgree, QueueInv, ~ReleaseDeviceIdle,
         RenderThread
  PROVE  QueueInv'
  <1> USE DEF Goto, Step, Branch, TypeOK, PlacesOK, Threads, handshake, flow, client, formats,
     control, QueueInv, NeverReleased, FormatsAgree, InRelease
  <1>1. CASE RTop
    BY <1>1, QueueKept DEF RTop, CheckBufferStatus
  <1>2. CASE RRender
    BY <1>2, RenderThreadKeepsFormats
  <1>3. CASE RData
    BY <1>3, QueueKept DEF RData
  <1>4. CASE RTimeout
    BY <1>4, QueueKept DEF RTimeout, SetReinitializeAudioDevice
  <1>5. CASE RPause
    BY <1>5, QueueKept DEF RPause
  <1>6. CASE RParkFlag
    BY <1>6, QueueKept DEF RParkFlag
  <1>7. CASE RParkAnswer
    BY <1>7, QueueKept DEF RParkAnswer, RParkReset, RParkAck
  <1>8. CASE RParked
    BY <1>8, QueueKept DEF RParked
  <1>9. CASE RKeepActive
    BY <1>9, RenderThreadKeepsFormats
  <1>10. CASE RKeepTimeout
    BY <1>10, QueueKept DEF RKeepTimeout
  <1>11. CASE RResume
    BY <1>11, QueueKept DEF RResume
  <1>12. QED
    BY <1>1, <1>2, <1>3, <1>4, <1>5, <1>6, <1>7, <1>8, <1>9, <1>10, <1>11 DEF RenderThread

LEMMA CheckAudioClientKeepsQueue ==
  ASSUME TypeOK, FormatsAgree, QueueInv, ~ReleaseDeviceIdle,
         CheckAudioClient
  PROVE  QueueInv'
  <1> USE DEF Goto, Step, Branch, TypeOK, PlacesOK, Threads, handshake, flow, client, formats,
     control, QueueInv, NeverReleased, FormatsAgree, InRelease
  <1>1. CASE CacEnter
    BY <1>1, QueueKept DEF CacEnter
  <1>2. CASE CacLock
    BY <1>2, QueueKept DEF CacLock
  <1>3. CASE CacCreate
    BY <1>3, QueueKept, CacCreateStep
  <1>4. CASE CacFormat
    BY <1>4, QueueKept DEF CacFormat, Renegotiate
  <1>5. CASE CacKeep
    BY <1>5, QueueKept DEF CacKeep, Renegotiate
  <1>6. CASE RelUnlock
    BY <1>6, QueueKept DEF RelUnlock
  <1>7. CASE RelPause
    BY <1>7, QueueKept DEF RelPause, PauseAsk, PauseSet, PauseAck
  <1>8. CASE RelLock
    BY <1>8, QueueKept DEF RelLock
  <1>9. CASE RelDrop
    BY <1>9, QueueKept DEF RelDrop
  <1>10. CASE CacInit
    BY <1>10, QueueKept DEF CacInit, ClientRefused
  <1>11. CASE CrcAlign
    BY <1>11, QueueKept DEF CrcAlign, PauseAsk, PauseSet, PauseAck, ClientRefused
  <1>12. CASE CrcCreate
    BY <1>12, QueueKept DEF CrcCreate
  <1>13. CASE CrcStart
    BY <1>13, QueueKept DEF CrcStart, StartRendererThread, ResumeAck
  <1>14. CASE CacReturn
    BY <1>14, QueueKept DEF CacReturn
  <1>15. QED
    BY <1>1, <1>2, <1>3, <1>4, <1>5, <1>6, <1>7, <1>8, <1>9, <1>10, <1>11, <1>12, <1>13,
       <1>14 DEF CheckAudioClient

LEMMA ReinitializeKeepsQueue ==
  ASSUME TypeOK, FormatsAgree, QueueInv, ~ReleaseDeviceIdle,
         ReinitializeAudioDevice
  PROVE  QueueInv'
  <1> USE DEF Goto, Step, Branch, TypeOK, PlacesOK, Threads, handshake, flow, client, formats,
     control, QueueInv, NeverReleased, FormatsAgree, InRelease
  <1>1. CASE RePause
    BY <1>1, QueueKept DEF RePause, PauseAsk, PauseSet, PauseAck
  <1>2. CASE ReLock
    BY <1>2, QueueKept DEF ReLock
  <1>3. CASE ReDrop
    <2>1. ~full => UNCHANGED <<queue, renderClient, halfMade>>
      BY <1>3 DEF ReDrop, FormatsOK
    <2>2. QED
      BY <1>3, <2>1, QueueKept DEF ReDrop
  <1>4. CASE ReCreate
    BY <1>4, QueueKept, ReCreateStep
  <1>5. CASE ReCheck
    BY <1>5, QueueKept DEF ReCheck, Call
  <1>6. CASE ReDone
    BY <1>6, QueueKept DEF ReDone
  <1>7. QED
    BY <1>1, <1>2, <1>3, <1>4, <1>5, <1>6 DEF ReinitializeAudioDevice

LEMMA StreamingKeepsQueue ==
  ASSUME TypeOK, FormatsAgree, QueueInv, ~ReleaseDeviceIdle,
         Streaming
  PROVE  QueueInv'
  <1> USE DEF Goto, Step, Branch, TypeOK, PlacesOK, Threads, handshake, flow, client, formats,
     control, QueueInv, NeverReleased, FormatsAgree, InRelease
  <1>0. CASE PrepareReceive
    BY <1>0, QueueKept, PrepareReceiveStep
  <1>1. CASE Transform
    BY <1>1, QueueKept DEF Transform
  <1>2. CASE TReinit
    BY <1>2, QueueKept DEF TReinit
  <1>3. CASE TStatus
    BY <1>3, QueueKept DEF TStatus, CheckBufferStatus
  <1>4. CASE TWait
    BY <1>4, QueueKept DEF TWait
  <1>5. CASE TRender
    BY <1>5, QueueKept DEF TRender
  <1>6. CASE TCheck
    BY <1>6, QueueKept DEF TCheck, Call
  <1>7. CASE TClient
    BY <1>7, QueueKept DEF TClient
  <1>8. CASE TJitter
    <2>1. outFmt \in Format /\ renderClient \in {outFmt, NULL}
      BY <1>8 DEF TJitter, Convertible, FormatsOK
    <2>2. QED
      BY <1>8, <2>1, QueueKept DEF TJitter
  <1>9. CASE TQueue
    <2>1. Convertible => outParams \in Format /\ (HalfMade \/ renderClient \in {outParams, NULL})
      BY <1>9 DEF TQueue, Convertible, FormatsOK, HalfMade, InStart
    <2>2. QED
      BY <1>9, <2>1, QueueKept DEF TQueue
  <1>10. CASE TStart
    BY <1>10, QueueKept DEF TStart, StartRendererThread, ResumeAck
  <1>11. CASE StartAudioClient("sc.client", "sc.check", "sc.lock", "sc.fill", "sc.start", "idle")
    BY <1>11, StartKeepsFormats
  <1>12. CASE StartAudioClient("j.client", "j.check", "j.lock", "j.fill", "j.start", "t.queue")
    BY <1>12, StartKeepsFormats
  <1>13. CASE WaitFinish
    BY <1>13, QueueKept DEF WaitFinish, StartReleaseTimer
  <1>14. CASE EndFlush("S", "eos.flush")
    BY <1>14, QueueKept DEF EndFlush
  <1>15. QED
    BY <1>0, <1>1, <1>2, <1>3, <1>4, <1>5, <1>6, <1>7, <1>8, <1>9, <1>10, <1>11, <1>12, <1>13,
       <1>14, ReinitializeKeepsQueue, CheckAudioClientKeepsQueue DEF Streaming

LEMMA UpstreamKeepsQueue ==
  ASSUME TypeOK, FormatsAgree, QueueInv, ~ReleaseDeviceIdle,
         Upstream
  PROVE  QueueInv'
  <1> USE DEF Goto, Step, Branch, TypeOK, PlacesOK, Threads, handshake, flow, client, formats,
     control, QueueInv, NeverReleased, FormatsAgree, InRelease
  <1>1. CASE ReceiveSample
    BY <1>1, QueueKept DEF ReceiveSample
  <1>2. CASE EndOfStream
    <2>1. Convertible => outParams \in Format /\ (HalfMade \/ renderClient \in {outParams, NULL})
      BY <1>2 DEF EndOfStream, Convertible, FormatsOK, HalfMade, InStart
    <2>2. QED
      BY <1>2, <2>1, QueueKept DEF EndOfStream
  <1>3. CASE NewSegment
    BY <1>3, QueueKept DEF NewSegment, StartReleaseTimer
  <1>4. ASSUME NEW f \in Format, Connect(f)
        PROVE  QueueInv'
    BY <1>4, QueueKept, ConnectStep
  <1>5. QED
    BY <1>1, <1>2, <1>3, <1>4 DEF Upstream

LEMMA ApplicationKeepsQueue ==
  ASSUME TypeOK, FormatsAgree, QueueInv, ~ReleaseDeviceIdle,
         Application \/ ApplicationStep
  PROVE  QueueInv'
  <1> USE DEF Goto, Step, Branch, TypeOK, PlacesOK, Threads, handshake, flow, client, formats,
     control, QueueInv, NeverReleased, FormatsAgree, InRelease
  <1>1. CASE Run
    BY <1>1, QueueKept DEF Run
  <1>2. CASE RunEndTimer
    BY <1>2, QueueKept DEF RunEndTimer
  <1>3. CASE RunMore
    BY <1>3, QueueKept DEF RunMore, StartReleaseTimer
  <1>4. CASE RunSlave
    BY <1>4, QueueKept DEF RunSlave
  <1>5. CASE Pause
    BY <1>5, QueueKept DEF Pause, Leave, StartReleaseTimer
  <1>6. CASE Stop
    BY <1>6, QueueKept DEF Stop, Leave, StartReleaseTimer
  <1>7. CASE StopReturn
    BY <1>7, QueueKept DEF StopReturn
  <1>8. CASE BeginFlush
    BY <1>8, QueueKept DEF BeginFlush
  <1>9. CASE FlushReceive
    BY <1>9, QueueKept DEF FlushReceive
  <1>10. CASE EndFlush("A", "flush.end")
    BY <1>10, QueueKept DEF EndFlush
  <1>11. QED
    BY <1>1, <1>2, <1>3, <1>4, <1>5, <1>6, <1>7, <1>8, <1>9, <1>10 DEF Application,
       ApplicationStep

LEMMA ReleaseKeepsQueue ==
  ASSUME TypeOK, FormatsAgree, QueueInv, ~ReleaseDeviceIdle,
         TimerFires \/ ReleaseDevice \/ DeviceTick \/ Change
  PROVE  QueueInv'
  <1> USE DEF Goto, Step, Branch, TypeOK, PlacesOK, Threads, handshake, flow, client, formats,
     control, QueueInv, NeverReleased, FormatsAgree, InRelease
  <1>1. CASE TimerFires
    BY <1>1, QueueKept DEF TimerFires
  <1>2. CASE RdLock
    BY <1>2, QueueKept DEF RdLock
  <1>3. CASE RdPause
    BY <1>3, QueueKept DEF RdPause, PauseAsk, PauseSet, PauseAck
  <1>4. CASE RdDrop
    BY <1>4, QueueKept DEF RdDrop
  <1>5. CASE DeviceTick
    BY <1>5, QueueKept DEF DeviceTick
  <1>6. CASE Change
    BY <1>6, QueueKept DEF Change, SetReinitializeAudioDevice
  <1>7. QED
    BY <1>1, <1>2, <1>3, <1>4, <1>5, <1>6 DEF ReleaseDevice

-----------------------------------------------------------------------------
\* The two are inductive with FormatsAgree: no client is made over packets of another format.
LEMMA QueueCorrect ==
  ASSUME ~ReleaseDeviceIdle
  PROVE  Spec => []QueueInv
  <1>1. Init => QueueInv
    BY DEF Init, QueueInv, NeverReleased, QueueMatchesClient, Threads
  <1>2. TypeOK /\ FormatsAgree /\ QueueInv /\ [Next]_vars => QueueInv'
    <2>1. SUFFICES ASSUME TypeOK, FormatsAgree, QueueInv, [Next]_vars PROVE QueueInv'
      OBVIOUS
    <2>2. CASE Next
      BY <2>1, <2>2, RenderThreadKeepsQueue, StreamingKeepsQueue, UpstreamKeepsQueue,
         ApplicationKeepsQueue, ReleaseKeepsQueue DEF Next
    <2>3. CASE UNCHANGED vars
      BY <2>1, <2>3 DEF vars, flow, client, formats, control, QueueInv, NeverReleased,
         QueueMatchesClient, HalfMade
    <2>4. QED
      BY <2>1, <2>2, <2>3
  <1>3. QED
    BY <1>1, <1>2, TypeCorrect, FormatsCorrect, PTL DEF Spec

(***************************************************************************)
(* Without an idle release: packets wait only for a client of their own    *)
(* format, although CheckAudioClient replaces the output format first, the *)
(* client later, flushes the queue then, and fills in m_output_params,     *)
(* what Transform converts to, last, after success only.  The one exception*)
(* is a client that CreateRenderClient made before it failed.              *)
(***************************************************************************)
THEOREM PacketsMeetTheirFormat ==
  ASSUME ~ReleaseDeviceIdle
  PROVE  Spec => []QueueMatchesClient
  <1>1. QueueInv => QueueMatchesClient
    BY DEF QueueInv
  <1>2. QED
    BY <1>1, QueueCorrect, PTL

-----------------------------------------------------------------------------
(***************************************************************************)
(* The retries of CheckAudioClient, thread by thread, when the device mode *)
(* is not changed from outside.                                            *)
(***************************************************************************)

\* A device that CreateAudioClient looks for is the default one when that is forced.
LEMMA FoundDeviceIsForced ==
  ASSUME TypeOK, RetryInv, NEW ok \in BOOLEAN, CreateAudioClient(ok)
  PROVE  useDefault' \in BOOLEAN /\ (force => useDefault')
  BY DEF CreateAudioClient, FoundDevice, RetryInv, TypeOK, ClientOK

LEMMA SetMediaTypeEffect ==
  ASSUME TypeOK, RetryInv, NEW who, NEW f \in Format, NEW at, at \in {"idle", "rcv"},
         SetMediaType(who, f, at)
  PROVE  /\ force' => useDefault'
         /\ pc["S"] = at /\ pc'["S"] \in {"idle", "cac.enter"}
  <1>1. CASE CreateAudioClient(TRUE) /\ Call(who, f, at)
    BY <1>1 DEF Call, Goto, TypeOK, PlacesOK, Threads
  <1>2. CASE CreateAudioClient(FALSE) /\ Step("S", at, "idle") /\ UNCHANGED <<caller, wanted, force>>
    BY <1>2, FoundDeviceIsForced DEF Step, Goto, TypeOK, PlacesOK, Threads, RetryInv
  <1>3. QED
    BY <1>1, <1>2 DEF SetMediaType

\* Nothing is changed from outside when MaxChanges is 0.
LEMMA NoChange ==
  ASSUME TypeOK, MaxChanges = 0
  PROVE  ~(changes < MaxChanges)
  BY DEF TypeOK, RequestsOK

LEMMA RenderThreadKeepsRetry ==
  ASSUME TypeOK, RetryInv, MaxChanges = 0,
         RenderThread
  PROVE  RetryInv' /\ NewAttempt
  <1> USE DEF Goto, Step, Branch, TypeOK, PlacesOK, Threads, client, formats, locals, RetryInv,
     NewAttempt, InRelease
  <1>1. CASE RTop
    BY <1>1 DEF RTop, CheckBufferStatus
  <1>2. CASE RRender
    BY <1>2, RenderThreadKeepsFormats
  <1>3. CASE RData
    BY <1>3 DEF RData
  <1>4. CASE RTimeout
    BY <1>4 DEF RTimeout, SetReinitializeAudioDevice
  <1>5. CASE RPause
    BY <1>5 DEF RPause
  <1>6. CASE RParkFlag
    BY <1>6 DEF RParkFlag
  <1>7. CASE RParkAnswer
    BY <1>7 DEF RParkAnswer, RParkReset, RParkAck
  <1>8. CASE RParked
    BY <1>8 DEF RParked
  <1>9. CASE RKeepActive
    BY <1>9, RenderThreadKeepsFormats
  <1>10. CASE RKeepTimeout
    BY <1>10 DEF RKeepTimeout
  <1>11. CASE RResume
    BY <1>11 DEF RResume
  <1>12. QED
    BY <1>1, <1>2, <1>3, <1>4, <1>5, <1>6, <1>7, <1>8, <1>9, <1>10, <1>11 DEF RenderThread

LEMMA CheckAudioClientKeepsRetry ==
  ASSUME TypeOK, RetryInv, MaxChanges = 0,
         CheckAudioClient
  PROVE  RetryInv' /\ NewAttempt
  <1> USE DEF Goto, Step, Branch, TypeOK, PlacesOK, Threads, client, formats, locals, RetryInv,
     NewAttempt, InRelease
  <1>1. CASE CacEnter
    BY <1>1 DEF CacEnter
  <1>2. CASE CacLock
    BY <1>2 DEF CacLock
  <1>3. CASE CacCreate
    BY <1>3, FoundDeviceIsForced DEF CacCreate
  <1>4. CASE CacFormat
    BY <1>4 DEF CacFormat, Renegotiate
  <1>5. CASE CacKeep
    BY <1>5 DEF CacKeep, Renegotiate
  <1>6. CASE RelUnlock
    BY <1>6 DEF RelUnlock
  <1>7. CASE RelPause
    BY <1>7 DEF RelPause, PauseAsk, PauseSet, PauseAck
  <1>8. CASE RelLock
    BY <1>8 DEF RelLock
  <1>9. CASE RelDrop
    BY <1>9 DEF RelDrop
  <1>10. CASE CacInit
    BY <1>10 DEF CacInit, ClientRefused
  <1>11. CASE CrcAlign
    BY <1>11 DEF CrcAlign, PauseAsk, PauseSet, PauseAck, ClientRefused
  <1>12. CASE CrcCreate
    BY <1>12 DEF CrcCreate
  <1>13. CASE CrcStart
    BY <1>13 DEF CrcStart, StartRendererThread, ResumeAck
  <1>14. CASE CacReturn
    BY <1>14 DEF CacReturn
  <1>15. QED
    BY <1>1, <1>2, <1>3, <1>4, <1>5, <1>6, <1>7, <1>8, <1>9, <1>10, <1>11, <1>12, <1>13,
       <1>14 DEF CheckAudioClient

LEMMA ReinitializeKeepsRetry ==
  ASSUME TypeOK, RetryInv, MaxChanges = 0,
         ReinitializeAudioDevice
  PROVE  RetryInv' /\ NewAttempt
  <1> USE DEF Goto, Step, Branch, TypeOK, PlacesOK, Threads, client, formats, locals, RetryInv,
     NewAttempt, InRelease
  <1>1. CASE RePause
    BY <1>1 DEF RePause, PauseAsk, PauseSet, PauseAck
  <1>2. CASE ReLock
    BY <1>2 DEF ReLock
  <1>3. CASE ReDrop
    BY <1>3 DEF ReDrop
  <1>4. CASE ReCreate
    BY <1>4, FoundDeviceIsForced DEF ReCreate
  <1>5. CASE ReCheck
    BY <1>5 DEF ReCheck, Call
  <1>6. CASE ReDone
    BY <1>6 DEF ReDone
  <1>7. QED
    BY <1>1, <1>2, <1>3, <1>4, <1>5, <1>6 DEF ReinitializeAudioDevice

LEMMA StreamingKeepsRetry ==
  ASSUME TypeOK, RetryInv, MaxChanges = 0,
         Streaming
  PROVE  RetryInv' /\ NewAttempt
  <1> USE DEF Goto, Step, Branch, TypeOK, PlacesOK, Threads, client, formats, locals, RetryInv,
     NewAttempt, InRelease
  <1>0. CASE PrepareReceive
    <2>1. CASE \E f \in Format : SetMediaType("SetMediaType", f, "rcv")
      BY <2>1, SetMediaTypeEffect
    <2>2. CASE /\ Goto("S", IF filterState = "Stopped" THEN "idle" ELSE "receive")
               /\ UNCHANGED <<locks, handshake, flow, client, formats, requests, locals>>
      BY <1>0, <2>2 DEF PrepareReceive
    <2>3. QED
      BY <1>0, <2>1, <2>2 DEF PrepareReceive
  <1>1. CASE Transform
    BY <1>1 DEF Transform
  <1>2. CASE TReinit
    BY <1>2 DEF TReinit
  <1>3. CASE TStatus
    BY <1>3 DEF TStatus, CheckBufferStatus
  <1>4. CASE TWait
    BY <1>4 DEF TWait
  <1>5. CASE TRender
    BY <1>5 DEF TRender
  <1>6. CASE TCheck
    BY <1>6 DEF TCheck, Call
  <1>7. CASE TClient
    BY <1>7 DEF TClient
  <1>8. CASE TJitter
    BY <1>8 DEF TJitter
  <1>9. CASE TQueue
    BY <1>9 DEF TQueue
  <1>10. CASE TStart
    BY <1>10 DEF TStart, StartRendererThread, ResumeAck
  <1>11. CASE StartAudioClient("sc.client", "sc.check", "sc.lock", "sc.fill", "sc.start", "idle")
    BY <1>11, StartKeepsFormats
  <1>12. CASE StartAudioClient("j.client", "j.check", "j.lock", "j.fill", "j.start", "t.queue")
    BY <1>12, StartKeepsFormats
  <1>13. CASE WaitFinish
    BY <1>13 DEF WaitFinish, StartReleaseTimer
  <1>14. CASE EndFlush("S", "eos.flush")
    BY <1>14 DEF EndFlush
  <1>15. QED
    BY <1>0, <1>1, <1>2, <1>3, <1>4, <1>5, <1>6, <1>7, <1>8, <1>9, <1>10, <1>11, <1>12, <1>13,
       <1>14, ReinitializeKeepsRetry, CheckAudioClientKeepsRetry DEF Streaming

LEMMA UpstreamKeepsRetry ==
  ASSUME TypeOK, RetryInv, MaxChanges = 0,
         Upstream
  PROVE  RetryInv' /\ NewAttempt
  <1> USE DEF Goto, Step, Branch, TypeOK, PlacesOK, Threads, client, formats, locals, RetryInv,
     NewAttempt, InRelease
  <1>1. CASE ReceiveSample
    BY <1>1 DEF ReceiveSample
  <1>2. CASE EndOfStream
    BY <1>2 DEF EndOfStream
  <1>3. CASE NewSegment
    BY <1>3 DEF NewSegment, StartReleaseTimer
  <1>4. ASSUME NEW f \in Format, Connect(f)
        PROVE  RetryInv' /\ NewAttempt
    BY <1>4, SetMediaTypeEffect DEF Connect
  <1>5. QED
    BY <1>1, <1>2, <1>3, <1>4 DEF Upstream

LEMMA ApplicationKeepsRetry ==
  ASSUME TypeOK, RetryInv, MaxChanges = 0,
         Application \/ ApplicationStep
  PROVE  RetryInv' /\ NewAttempt
  <1> USE DEF Goto, Step, Branch, TypeOK, PlacesOK, Threads, client, formats, locals, RetryInv,
     NewAttempt, InRelease
  <1>1. CASE Run
    BY <1>1 DEF Run
  <1>2. CASE RunEndTimer
    BY <1>2 DEF RunEndTimer
  <1>3. CASE RunMore
    BY <1>3 DEF RunMore, StartReleaseTimer
  <1>4. CASE RunSlave
    BY <1>4 DEF RunSlave
  <1>5. CASE Pause
    BY <1>5 DEF Pause, Leave, StartReleaseTimer
  <1>6. CASE Stop
    BY <1>6 DEF Stop, Leave, StartReleaseTimer
  <1>7. CASE StopReturn
    BY <1>7 DEF StopReturn
  <1>8. CASE BeginFlush
    BY <1>8 DEF BeginFlush
  <1>9. CASE FlushReceive
    BY <1>9 DEF FlushReceive
  <1>10. CASE EndFlush("A", "flush.end")
    BY <1>10 DEF EndFlush
  <1>11. QED
    BY <1>1, <1>2, <1>3, <1>4, <1>5, <1>6, <1>7, <1>8, <1>9, <1>10 DEF Application,
       ApplicationStep

LEMMA ReleaseKeepsRetry ==
  ASSUME TypeOK, RetryInv, MaxChanges = 0,
         TimerFires \/ ReleaseDevice \/ DeviceTick \/ Change
  PROVE  RetryInv' /\ NewAttempt
  <1> USE DEF Goto, Step, Branch, TypeOK, PlacesOK, Threads, client, formats, locals, RetryInv,
     NewAttempt, InRelease
  <1>1. CASE TimerFires
    BY <1>1 DEF TimerFires
  <1>2. CASE RdLock
    BY <1>2 DEF RdLock
  <1>3. CASE RdPause
    BY <1>3 DEF RdPause, PauseAsk, PauseSet, PauseAck
  <1>4. CASE RdDrop
    BY <1>4 DEF RdDrop
  <1>5. CASE DeviceTick
    BY <1>5 DEF DeviceTick
  <1>6. CASE Change
    BY <1>6, NoChange DEF Change, SetReinitializeAudioDevice
  <1>7. QED
    BY <1>1, <1>2, <1>3, <1>4, <1>5, <1>6 DEF ReleaseDevice

(***************************************************************************)
(* When the device mode is not changed from outside: whatever the device   *)
(* refuses, no "goto again" of CheckAudioClient repeats an attempt.        *)
(***************************************************************************)
THEOREM RetriesAreNew ==
  ASSUME MaxChanges = 0
  PROVE  Spec => RetryIsNew
  <1>1. Init => RetryInv
    BY DEF Init, RetryInv, InRelease, Threads
  <1>2. TypeOK /\ RetryInv /\ [Next]_vars => RetryInv' /\ [NewAttempt]_vars
    <2>1. SUFFICES ASSUME TypeOK, RetryInv, [Next]_vars PROVE RetryInv' /\ [NewAttempt]_vars
      OBVIOUS
    <2>2. CASE Next
      BY <2>1, <2>2, RenderThreadKeepsRetry, StreamingKeepsRetry, UpstreamKeepsRetry,
         ApplicationKeepsRetry, ReleaseKeepsRetry DEF Next
    <2>3. CASE UNCHANGED vars
      BY <2>1, <2>3 DEF vars, client, formats, locals, RetryInv
    <2>4. QED
      BY <2>1, <2>2, <2>3
  <1>3. QED
    BY <1>1, <1>2, TypeCorrect, PTL DEF Spec, RetryIsNew, NewAttempt
=============================================================================
