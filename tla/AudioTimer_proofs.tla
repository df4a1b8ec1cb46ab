------------------------- MODULE AudioTimer_proofs -------------------------
(***************************************************************************)
(* Proofs about AudioRenderer for all its settings, the default ones among *)
(* them, in which a timer releases the idle device: a second thread then   *)
(* asks the render thread to pause, and either may take the answer to the  *)
(* other's request.  The streaming thread still never waits for the render *)
(* thread with m_csRender held, and, unless the pause loop renders, never  *)
(* takes the clients down under it.                                        *)
(***************************************************************************)
EXTENDS AudioRenderer_proofs

-----------------------------------------------------------------------------
(***************************************************************************)
(* The rendezvous of three threads, thread by thread.                      *)
(***************************************************************************)

LEMMA RenderThreadKeepsAnswers ==
  ASSUME TypeOK, LockDiscipline, Answers,
         RenderThread
  PROVE  Answers'
  <1> USE NullAssumption DEF Goto, Step, Branch, HasThread, LockRender, UnlockRender, Free,
     KeepsActive, TypeOK, PlacesOK, HandshakeOK, Threads, handshake, control, client,
     locals, Answers, Parking, Flagged, Keeping, Parked, Away, Inside, TimerAsks, Pausing, Resuming,
     Active, Holding, AlignmentNeverWaits
  <1>1. CASE RTop
    BY <1>1 DEF RTop, CheckBufferStatus
  <1>2. CASE RRender
    BY <1>2 DEF RRender, RenderWasapiBuffer, RenderCheck, RenderLock, FillBuffer,
       FillFails, Played, SetReinitializeAudioDevice, AfterFill
  <1>3. CASE RData
    BY <1>3 DEF RData
  <1>4. CASE RTimeout
    BY <1>4 DEF RTimeout, SetReinitializeAudioDevice
  <1>5. CASE RPause
    BY <1>5 DEF RPause
  <1>6. CASE RParkFlag
    BY <1>6 DEF RParkFlag
  <1>7. CASE RParkAnswer
    BY <1>7 DEF RParkAnswer, RParkReset, RParkAck
  <1>8. CASE RParked
    BY <1>8 DEF RParked
  <1>9. CASE RKeepActive
    BY <1>9 DEF RKeepActive, RenderWasapiBuffer, RenderCheck, RenderLock, FillBuffer,
       FillFails, Played, SetReinitializeAudioDevice
  <1>10. CASE RKeepTimeout
    BY <1>10 DEF RKeepTimeout
  <1>11. CASE RResume
    BY <1>11 DEF RResume
  <1>12. QED
    BY <1>1, <1>2, <1>3, <1>4, <1>5, <1>6, <1>7, <1>8, <1>9, <1>10, <1>11 DEF RenderThread

LEMMA CheckAudioClientKeepsAnswers ==
  ASSUME TypeOK, LockDiscipline, Answers,
         CheckAudioClient
  PROVE  Answers'
  <1> USE NullAssumption DEF Goto, Step, Branch, HasThread, LockRender, UnlockRender, Free,
     KeepsActive, TypeOK, PlacesOK, HandshakeOK, Threads, handshake, control, client,
     locals, Answers, Parking, Flagged, Keeping, Parked, Away, Inside, TimerAsks, Pausing, Resuming,
     Active, Holding, AlignmentNeverWaits
  <1>1. CASE CacEnter
    BY <1>1 DEF CacEnter, LockDiscipline, Depth, Takes, InCheck, InCall
  <1>2. CASE CacLock
    BY <1>2 DEF CacLock, LockDiscipline, Depth, Takes, InCheck, InCall
  <1>3. CASE CacCreate
    BY <1>3, CacCreateStep
  <1>4. CASE CacFormat
    BY <1>4 DEF CacFormat, Renegotiate
  <1>5. CASE CacKeep
    BY <1>5 DEF CacKeep, Renegotiate
  <1>6. CASE RelUnlock
    BY <1>6 DEF RelUnlock, LockDiscipline, Depth, Takes, InCheck, InCall
  <1>7. CASE RelPause
    BY <1>7 DEF RelPause, PauseAsk, PauseSet, PauseAck, LockDiscipline, Depth, Takes,
       InCheck, InCall
  <1>8. CASE RelLock
    BY <1>8 DEF RelLock, LockDiscipline, Depth, Takes, InCheck, InCall
  <1>9. CASE RelDrop
    BY <1>9 DEF RelDrop
  <1>10. CASE CacInit
    BY <1>10 DEF CacInit, ClientRefused
  <1>11. CASE CrcAlign
    BY <1>11 DEF CrcAlign, PauseAsk, PauseSet, PauseAck, ClientRefused
  <1>12. CASE CrcCreate
    BY <1>12 DEF CrcCreate
  <1>13. CASE CrcStart
    BY <1>13 DEF CrcStart, StartRendererThread, ResumeAck
  <1>14. CASE CacReturn
    BY <1>14 DEF CacReturn, LockDiscipline, Depth, Takes, InCheck, InCall
  <1>15. QED
    BY <1>1, <1>2, <1>3, <1>4, <1>5, <1>6, <1>7, <1>8, <1>9, <1>10, <1>11, <1>12, <1>13,
       <1>14 DEF CheckAudioClient

LEMMA ReinitializeKeepsAnswers ==
  ASSUME TypeOK, LockDiscipline, Answers,
         ReinitializeAudioDevice
  PROVE  Answers'
  <1> USE NullAssumption DEF Goto, Step, Branch, HasThread, LockRender, UnlockRender, Free,
     KeepsActive, TypeOK, PlacesOK, HandshakeOK, Threads, handshake, control, client,
     locals, Answers, Parking, Flagged, Keeping, Parked, Away, Inside, TimerAsks, Pausing, Resuming,
     Active, Holding, AlignmentNeverWaits
  <1>1. CASE RePause
    BY <1>1 DEF RePause, PauseAsk, PauseSet, PauseAck, LockDiscipline, Depth, Takes,
       InCheck, InCall
  <1>2. CASE ReLock
    BY <1>2 DEF ReLock, LockDiscipline, Depth, Takes, InCheck, InCall
  <1>3. CASE ReDrop
    BY <1>3 DEF ReDrop, LockDiscipline, Depth, Takes, InCheck, InCall
  <1>4. CASE ReCreate
    BY <1>4, ReCreateStep
  <1>5. CASE ReCheck
    BY <1>5 DEF ReCheck, Call, LockDiscipline, Depth, Takes, InCheck, InCall
  <1>6. CASE ReDone
    BY <1>6 DEF ReDone
  <1>7. QED
    BY <1>1, <1>2, <1>3, <1>4, <1>5, <1>6 DEF ReinitializeAudioDevice

LEMMA StreamingKeepsAnswers ==
  ASSUME TypeOK, LockDiscipline, Answers,
         Streaming
  PROVE  Answers'
  <1> USE NullAssumption DEF Goto, Step, Branch, HasThread, LockRender, UnlockRender, Free,
     KeepsActive, TypeOK, PlacesOK, HandshakeOK, Threads, handshake, control, client,
     locals, Answers, Parking, Flagged, Keeping, Parked, Away, Inside, TimerAsks, Pausing, Resuming,
     Active, Holding, AlignmentNeverWaits
  <1>0. CASE PrepareReceive
    BY <1>0, PrepareReceiveStep
  <1>1. CASE Transform
    BY <1>1 DEF Transform
  <1>2. CASE TReinit
    BY <1>2 DEF TReinit
  <1>3. CASE TStatus
    BY <1>3 DEF TStatus, CheckBufferStatus
  <1>4. CASE TWait
    BY <1>4 DEF TWait
  <1>5. CASE TRender
    BY <1>5 DEF TRender
  <1>6. CASE TCheck
    BY <1>6 DEF TCheck, Call
  <1>7. CASE TClient
    BY <1>7 DEF TClient
  <1>8. CASE TJitter
    BY <1>8 DEF TJitter
  <1>9. CASE TQueue
    BY <1>9 DEF TQueue
  <1>10. CASE TStart
    BY <1>10 DEF TStart, StartRendererThread, ResumeAck
  <1>11. CASE StartAudioClient("sc.client", "sc.check", "sc.lock", "sc.fill", "sc.start", "idle")
    BY <1>11 DEF StartAudioClient, RenderWasapiBuffer, RenderCheck, RenderLock, FillBuffer,
       FillFails, Played, SetReinitializeAudioDevice
  <1>12. CASE StartAudioClient("j.client", "j.check", "j.lock", "j.fill", "j.start", "t.queue")
    BY <1>12 DEF StartAudioClient, RenderWasapiBuffer, RenderCheck, RenderLock, FillBuffer,
       FillFails, Played, SetReinitializeAudioDevice
  <1>13. CASE WaitFinish
    BY <1>13 DEF WaitFinish, StartReleaseTimer
  <1>14. CASE EndFlush("S", "eos.flush")
    BY <1>14 DEF EndFlush
  <1>15. QED
    BY <1>0, <1>1, <1>2, <1>3, <1>4, <1>5, <1>6, <1>7, <1>8, <1>9, <1>10, <1>11, <1>12, <1>13,
       <1>14, ReinitializeKeepsAnswers, CheckAudioClientKeepsAnswers DEF Streaming

LEMMA UpstreamKeepsAnswers ==
  ASSUME TypeOK, LockDiscipline, Answers,
         Upstream
  PROVE  Answers'
  <1> USE NullAssumption DEF Goto, Step, Branch, HasThread, LockRender, UnlockRender, Free,
     KeepsActive, TypeOK, PlacesOK, HandshakeOK, Threads, handshake, control, client,
     locals, Answers, Parking, Flagged, Keeping, Parked, Away, Inside, TimerAsks, Pausing, Resuming,
     Active, Holding, AlignmentNeverWaits
  <1>1. CASE ReceiveSample
    BY <1>1 DEF ReceiveSample
  <1>2. CASE EndOfStream
    BY <1>2 DEF EndOfStream
  <1>3. CASE NewSegment
    BY <1>3 DEF NewSegment, StartReleaseTimer
  <1>4. ASSUME NEW f \in Format, Connect(f)
        PROVE  Answers'
    BY <1>4, ConnectStep
  <1>5. QED
    BY <1>1, <1>2, <1>3, <1>4 DEF Upstream

LEMMA ApplicationKeepsAnswers ==
  ASSUME TypeOK, LockDiscipline, Answers,
         Application \/ ApplicationStep
  PROVE  Answers'
  <1> USE NullAssumption DEF Goto, Step, Branch, HasThread, LockRender, UnlockRender, Free,
     KeepsActive, TypeOK, PlacesOK, HandshakeOK, Threads, handshake, control, client,
     locals, Answers, Parking, Flagged, Keeping, Parked, Away, Inside, TimerAsks, Pausing, Resuming,
     Active, Holding, AlignmentNeverWaits
  <1>1. CASE Run
    BY <1>1 DEF Run
  <1>2. CASE RunEndTimer
    BY <1>2 DEF RunEndTimer
  <1>3. CASE RunMore
    BY <1>3 DEF RunMore, StartReleaseTimer
  <1>4. CASE RunSlave
    BY <1>4 DEF RunSlave
  <1>5. CASE Pause
    BY <1>5 DEF Pause, Leave, StartReleaseTimer
  <1>6. CASE Stop
    BY <1>6 DEF Stop, Leave, StartReleaseTimer
  <1>7. CASE StopReturn
    BY <1>7 DEF StopReturn
  <1>8. CASE BeginFlush
    BY <1>8 DEF BeginFlush
  <1>9. CASE FlushReceive
    BY <1>9 DEF FlushReceive
  <1>10. CASE EndFlush("A", "flush.end")
    BY <1>10 DEF EndFlush
  <1>11. QED
    BY <1>1, <1>2, <1>3, <1>4, <1>5, <1>6, <1>7, <1>8, <1>9, <1>10 DEF Application, ApplicationStep

LEMMA ReleaseKeepsAnswers ==
  ASSUME TypeOK, LockDiscipline, Answers,
         TimerFires \/ ReleaseDevice \/ DeviceTick \/ Change
  PROVE  Answers'
  <1> USE NullAssumption DEF Goto, Step, Branch, HasThread, LockRender, UnlockRender, Free,
     KeepsActive, TypeOK, PlacesOK, HandshakeOK, Threads, handshake, control, client,
     locals, Answers, Parking, Flagged, Keeping, Parked, Away, Inside, TimerAsks, Pausing, Resuming,
     Active, Holding, AlignmentNeverWaits
  <1>1. CASE TimerFires
    BY <1>1 DEF TimerFires
  <1>2. CASE RdLock
    BY <1>2 DEF RdLock
  <1>3. CASE RdPause
    BY <1>3 DEF RdPause, PauseAsk, PauseSet, PauseAck, LockDiscipline, Depth, Takes,
       InCheck, InCall
  <1>4. CASE RdDrop
    BY <1>4 DEF RdDrop
  <1>5. CASE DeviceTick
    BY <1>5 DEF DeviceTick
  <1>6. CASE Change
    BY <1>6 DEF Change, SetReinitializeAudioDevice
  <1>7. QED
    BY <1>1, <1>2, <1>3, <1>4, <1>5, <1>6 DEF ReleaseDevice

-----------------------------------------------------------------------------
(***************************************************************************)
(* For all settings: the requests to pause and their answers are what      *)
(* Answers says, whoever asks.                                             *)
(***************************************************************************)
THEOREM AnswersCorrect == Spec => []Answers
  <1>1. Init => Answers
    BY DEF Init, Threads,
           Answers, Parking, Flagged, Keeping, Parked, Away, Inside, TimerAsks, Pausing, Resuming,
           Active, Holding, AlignmentNeverWaits
  <1>2. TypeOK /\ LockDiscipline /\ Answers /\ [Next]_vars => Answers'
    <2>1. SUFFICES ASSUME TypeOK, LockDiscipline, Answers, [Next]_vars
                   PROVE  Answers'
      OBVIOUS
    <2>2. CASE Next
      BY <2>1, <2>2, RenderThreadKeepsAnswers, StreamingKeepsAnswers, UpstreamKeepsAnswers,
         ApplicationKeepsAnswers, ReleaseKeepsAnswers DEF Next
    <2>3. CASE UNCHANGED vars
      BY <2>1, <2>3 DEF vars, handshake, locals, Answers, Inside, TimerAsks, Pausing, Resuming,
         AlignmentNeverWaits
    <2>4. QED
      BY <2>1, <2>2, <2>3
  <1>3. QED
    BY <1>1, <1>2, TypesAndLocks, PTL DEF Spec

(***************************************************************************)
(* Unless the pause loop of a paused device renders, with and without the  *)
(* idle release: while ReleaseAudio, CreateRenderClient or                 *)
(* ReinitializeAudioDevice takes the clients down or makes them, the render*)
(* thread is not past its test of m_pRenderClient.                         *)
(***************************************************************************)
THEOREM TeardownIsExclusive ==
  ASSUME PauseKeepActive => ReleaseDeviceIdle
  PROVE  Spec => []TeardownExcludesRendering
  <1>1. Answers => TeardownExcludesRendering
    BY DEF Answers, TeardownExcludesRendering, Teardown, Rendering, Holding, Away, Parked,
           Keeping, Active, Flagged
  <1>2. QED
    BY <1>1, AnswersCorrect, PTL

(***************************************************************************)
(* For all settings: the alignment retry of CreateRenderClient, which      *)
(* pauses the render thread with m_csRender held, never waits for it.      *)
(***************************************************************************)
THEOREM AlignmentIsSafe == Spec => []AlignmentNeverWaits
  <1>1. Answers => AlignmentNeverWaits
    BY DEF Answers
  <1>2. QED
    BY <1>1, AnswersCorrect, PTL

(***************************************************************************)
(* For all settings: wherever the streaming thread waits for the render    *)
(* thread to answer its pause, it has let go of m_csRender, although       *)
(* CheckAudioClient may be entered with a level of it held by              *)
(* ReinitializeAudioDevice; so the one the answer is wanted from can finish*)
(* the buffer it fills.  Only the timer thread waits with the lock held.   *)
(***************************************************************************)
THEOREM StreamingWaitsUnlocked == Spec => []WaitsUnlocked
  <1>1. Answers /\ LockDiscipline => WaitsUnlocked
    <2>1. SUFFICES ASSUME Answers, LockDiscipline, pc["S"] \in {"rel.wait", "re.wait", "crc.wait"}
                   PROVE  csRender.by # "S"
      BY DEF WaitsUnlocked
    <2>2. pc["S"] # "crc.wait"
      BY <2>1 DEF Answers, AlignmentNeverWaits
    <2>3. caller # "Reinitialize"
      BY <2>1, <2>2, NullAssumption DEF Answers, LockDiscipline, InCall, InCheck
    <2>4. Depth = 0
      BY <2>1, <2>2, <2>3 DEF Depth, Takes
    <2>5. QED
      BY <2>1, <2>4 DEF LockDiscipline
  <1>2. QED
    BY <1>1, AnswersCorrect, TypesAndLocks, PTL

=============================================================================
