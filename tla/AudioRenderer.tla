---------------------------- MODULE AudioRenderer ----------------------------
(***************************************************************************)
(* The threads of CMpcAudioRenderer (MpcAudioRenderer.cpp) and what they   *)
(* share: the WASAPI client objects, the two formats, the packet queue,    *)
(* the critical sections m_csRender and m_csCheck, and the events with     *)
(* which the render thread is parked and resumed.                          *)
(*                                                                         *)
(*   "R"  the render thread (RenderThread)                                 *)
(*   "S"  the streaming thread of the upstream filter: Receive with the    *)
(*        SetMediaType of a type change, Transform, EndOfStream, NewSegment*)
(*   "A"  the application thread: Run, Pause, Stop, BeginFlush/EndFlush    *)
(*   "T"  the timer-queue thread that runs ReleaseDevice                   *)
(*                                                                         *)
(* pc[t] is the place of thread t in the code.  A label is one stretch of  *)
(* code between two points where another thread matters: a wait, a lock or *)
(* an unlocked access to shared state.                                     *)
(***************************************************************************)
EXTENDS Naturals, Sequences

CONSTANTS
    Format,             \* wave formats (m_pWaveFormatExInput / Output point to one)
    NULL,               \* a null pointer
    EventDriven,        \* m_WasapiMethod is EVENT (TRUE) or PUSH (FALSE)
    ExclusiveMode,      \* m_DeviceMode, the user's choice at the start: exclusive or shared
    ReleaseDeviceIdle,  \* m_bReleaseDeviceIdle
    PauseKeepActive,    \* m_bPauseKeepActive
    QueueMax,           \* m_nMaxWasapiQueueSize, in packets
    QueueCap,           \* bound of the model: no sample is received above it
    MaxChanges,         \* bound of the model: device notifications and setting changes
    DeviceFaults        \* whether a device may fail or refuse what it is asked

ASSUME FormatAssumption == NULL \notin Format
ASSUME NullAssumption ==
    NULL \notin {"R", "S", "A", "T", "Connect", "SetMediaType", "Reinitialize", "Transform"}
ASSUME SettingsAssumption ==
    /\ EventDriven \in BOOLEAN /\ ExclusiveMode \in BOOLEAN
    /\ ReleaseDeviceIdle \in BOOLEAN /\ PauseKeepActive \in BOOLEAN /\ DeviceFaults \in BOOLEAN
ASSUME BoundsAssumption == QueueMax \in Nat /\ QueueCap \in Nat /\ MaxChanges \in Nat

VARIABLES
    pc,
    csRender,           \* [by |-> owner, n |-> recursion depth] of m_csRender
    csCheck,            \* owner of m_csCheck
    \* m_bThreadPaused; m_hPauseEvent, m_hWaitPauseEvent, m_hResumeEvent, m_hWaitResumeEvent
    paused, pauseEv, pausedEv, resumeEv, resumedEv,
    needMoreEv,         \* m_hRendererNeedMoreData (manual reset)
    dataEv,             \* m_hDataEvent (auto reset)
    flushEv,            \* m_FlushEvent (manual reset)
    queue,              \* m_CurrentPacket and m_WasapiQueue: the format of each packet
    device,             \* m_pMMDevice # nullptr
    useDefault,         \* m_bUseDefaultDevice
    audioClient,        \* m_pAudioClient # nullptr
    started,            \* m_bIsAudioClientStarted
    renderClient,       \* m_pRenderClient: NULL, or the format it was initialized with
    outFmt, inFmt,      \* m_pWaveFormatExOutput, m_pWaveFormatExInput
    outParams,          \* m_output_params, what Transform converts to; NULL before the first
    halfMade,           \* history: CreateRenderClient made the client and then failed
    released,           \* m_bReleased
    shared,             \* m_DeviceModeCurrent = MODE_WASAPI_SHARED
    needFull, needReinit,  \* m_bNeedReinitializeFull, m_bNeedReinitialize
    changes,            \* notifications and setting changes so far
    filterState,        \* m_filterState
    flushing,           \* m_bFlushing: since BeginFlush no sample, NewSegment or Run
    timer,              \* m_hReleaseTimerHandle: "none", "armed", "fired"
    eos,                \* m_bEOS of CBaseRenderer: samples are refused until a flush or Stop
    \* locals of the streaming thread's calls: argument of CheckAudioClient, who called
    \* it, bFullInitialization, bForceUseDefaultDevice, what follows ReleaseAudio, m_rtEstimateSlavingJitter > 0
    wanted, caller, full, force, after, jitter

locks     == <<csRender, csCheck>>
handshake == <<paused, pauseEv, pausedEv, resumeEv, resumedEv>>
flow      == <<needMoreEv, dataEv, flushEv, queue>>
client    == <<device, useDefault, audioClient, started, renderClient>>
formats   == <<outFmt, inFmt, outParams, halfMade, released, shared>>
requests  == <<needFull, needReinit, changes>>
control   == <<filterState, timer, eos, flushing>>
locals    == <<wanted, caller, full, force, after, jitter>>
vars == <<pc, locks, handshake, flow, client, formats, requests, control, locals>>

Threads == {"R", "S", "A", "T"}

Goto(t, l) == pc' = [pc EXCEPT ![t] = l]
Step(t, from, to) == pc[t] = from /\ Goto(t, to)
Branch(t, from, cond, yes, no) == pc[t] = from /\ Goto(t, IF cond THEN yes ELSE no)

(***************************************************************************)
(* CCritSec is recursive: only its owner may take it again.                *)
(***************************************************************************)
Free == [by |-> NULL, n |-> 0]
LockRender(t) ==
    /\ csRender.by \in {NULL, t}
    /\ csRender' = [by |-> t, n |-> csRender.n + 1]
UnlockRender(t) ==
    csRender' = IF csRender.n = 1 THEN Free ELSE [csRender EXCEPT !.n = @ - 1]

HasThread == pc["R"] # "none"       \* m_hRenderThread

\* Faulty variant: the event is reset when there is no room, never set again.
CheckBufferStatusOnlyResets ==
    needMoreEv' = IF outFmt = NULL THEN needMoreEv
                  ELSE needMoreEv /\ (renderClient = NULL \/ ~started \/ Len(queue) < QueueMax)

(***************************************************************************)
(* CheckBufferStatus: whether the upstream filter may deliver more.        *)
(***************************************************************************)
CheckBufferStatus ==
    needMoreEv' = IF outFmt = NULL THEN needMoreEv
                  ELSE renderClient = NULL \/ ~started \/ Len(queue) < QueueMax

(***************************************************************************)
(* SetReinitializeAudioDevice(bFullInitialization)                         *)
(***************************************************************************)
SetReinitializeAudioDevice(bFull) ==
    /\ needFull' = (needFull \/ bFull)
    /\ needReinit' = (needReinit \/ ~bFull)
    /\ needMoreEv' = (needMoreEv \/ filterState = "Running")

(***************************************************************************)
(* StartReleaseTimer: one shot, after three seconds.                       *)
(***************************************************************************)
StartReleaseTimer ==
    timer' = IF ReleaseDeviceIdle /\ ~PauseKeepActive /\ timer = "none" THEN "armed" ELSE timer

(***************************************************************************)
(* PauseRendererThread by thread t: nothing to do if m_bThreadPaused or    *)
(* without a thread, else SetEvent(m_hPauseEvent) and wait for the answer. *)
(***************************************************************************)
PauseAsk(t, at, set, done) ==
    /\ Branch(t, at, ~paused /\ HasThread, set, done)
    /\ UNCHANGED <<locks, handshake, flow, client, formats, requests, control, locals>>
PauseSet(t, set, wait) ==
    /\ Step(t, set, wait)
    /\ pauseEv' = TRUE
    /\ UNCHANGED <<paused, pausedEv, resumeEv, resumedEv>>
    /\ UNCHANGED <<locks, flow, client, formats, requests, control, locals>>
PauseAck(t, wait, done) ==
    /\ Step(t, wait, done)
    /\ pausedEv /\ pausedEv' = FALSE
    /\ UNCHANGED <<paused, pauseEv, resumeEv, resumedEv>>
    /\ UNCHANGED <<locks, flow, client, formats, requests, control, locals>>

(***************************************************************************)
(* StartRendererThread by "S": create the thread, or resume a parked one   *)
(* and wait until it has left its pause loop.                              *)
(***************************************************************************)
StartRendererThread(at, wait, done) ==
    /\ pc["S"] = at
    /\ IF ~HasThread
       THEN pc' = [pc EXCEPT !["S"] = done, !["R"] = "top"] /\ UNCHANGED resumeEv
       ELSE IF paused THEN Goto("S", wait) /\ resumeEv' = TRUE
                      ELSE Goto("S", done) /\ UNCHANGED resumeEv
    /\ UNCHANGED <<paused, pauseEv, pausedEv, resumedEv>>
    /\ UNCHANGED <<locks, flow, client, formats, requests, control, locals>>
ResumeAck(wait, done) ==
    /\ Step("S", wait, done)
    /\ resumedEv /\ resumedEv' = FALSE
    /\ UNCHANGED <<paused, pauseEv, pausedEv, resumeEv>>
    /\ UNCHANGED <<locks, flow, client, formats, requests, control, locals>>

(***************************************************************************)
(* RenderWasapiBuffer by thread t: the two pointers are tested before      *)
(* m_csRender is taken, and used after.                                    *)
(***************************************************************************)
RenderCheck(t, at, lock, done) ==
    /\ Branch(t, at, renderClient # NULL /\ outFmt # NULL, lock, done)
    /\ UNCHANGED <<locks, handshake, flow, client, formats, requests, control, locals>>
RenderLock(t, lock, fill) ==
    /\ Step(t, lock, fill)
    /\ LockRender(t)
    /\ UNCHANGED <<csCheck, handshake, flow, client, formats, requests, control, locals>>
\* A device buffer takes one packet of the queue, or silence.
Played == IF queue # <<>> /\ filterState = "Running" /\ ~flushEv THEN Tail(queue) ELSE queue
FillBuffer(t, fill, done) ==
    /\ Step(t, fill, done)
    /\ UnlockRender(t)
    /\ queue' = Played
    /\ UNCHANGED <<csCheck, handshake, needMoreEv, dataEv, flushEv>>
    /\ UNCHANGED <<client, formats, requests, control, locals>>
\* GetCurrentPadding, GetBuffer or, at the end, ReleaseBuffer fails; only the calls of the
\* render thread's loop look at the result, and ask for a full reinitialization when the
\* device has been invalidated.
FillFails(t, fill, done, looksAtResult) ==
    /\ Step(t, fill, done)
    /\ UnlockRender(t)
    /\ changes < MaxChanges /\ changes' = changes + 1
    /\ \/ looksAtResult /\ SetReinitializeAudioDevice(TRUE)
       \/ UNCHANGED <<needFull, needReinit, needMoreEv>>
    /\ queue' \in {queue, Played}
    /\ UNCHANGED <<csCheck, handshake, dataEv, flushEv, client, formats, control, locals>>
RenderWasapiBuffer(t, check, lock, fill, done, looksAtResult) ==
    \/ RenderCheck(t, check, lock, done)
    \/ RenderLock(t, lock, fill)
    \/ FillBuffer(t, fill, done)
    \/ FillFails(t, fill, done, looksAtResult)

-----------------------------------------------------------------------------
(***************************************************************************)
(* The render thread.                                                      *)
(***************************************************************************)
AfterFill == IF EventDriven THEN "top" ELSE "wait"

RTop ==         \* CheckBufferStatus at the head of the loop; PUSH renders before it waits
    /\ Step("R", "top", IF EventDriven THEN "wait" ELSE "r.check")
    /\ CheckBufferStatus
    /\ UNCHANGED <<locks, handshake, dataEv, flushEv, queue, client, formats, requests, control, locals>>

RRender == RenderWasapiBuffer("R", "r.check", "r.lock", "r.fill", AfterFill, TRUE)

RData ==        \* m_hDataEvent: WaitForMultipleObjects prefers m_hPauseEvent
    /\ EventDriven /\ Step("R", "wait", "r.check")
    /\ ~pauseEv /\ dataEv /\ dataEv' = FALSE
    /\ UNCHANGED <<locks, handshake, needMoreEv, flushEv, queue>>
    /\ UNCHANGED <<client, formats, requests, control, locals>>

RTimeout ==
    /\ Step("R", "wait", "top")
    /\ ~pauseEv /\ ~(EventDriven /\ dataEv)
    /\ IF EventDriven /\ renderClient # NULL THEN SetReinitializeAudioDevice(TRUE)
       ELSE UNCHANGED <<needFull, needReinit, needMoreEv>>
    /\ UNCHANGED <<locks, handshake, dataEv, flushEv, queue, client, formats, changes, control, locals>>

RPauseManualReset ==    \* faulty variant: m_hPauseEvent stays set
    /\ Step("R", "wait", "park.flag")
    /\ pauseEv
    /\ UNCHANGED <<locks, handshake, flow, client, formats, requests, control, locals>>
RPause ==       \* the wait consumes m_hPauseEvent
    /\ Step("R", "wait", "park.flag")
    /\ pauseEv /\ pauseEv' = FALSE
    /\ UNCHANGED <<paused, pausedEv, resumeEv, resumedEv>>
    /\ UNCHANGED <<locks, flow, client, formats, requests, control, locals>>
RParkFlag ==    \* m_bThreadPaused = TRUE
    /\ Step("R", "park.flag", "park.reset")
    /\ paused' = TRUE
    /\ UNCHANGED <<pauseEv, pausedEv, resumeEv, resumedEv>>
    /\ UNCHANGED <<locks, flow, client, formats, requests, control, locals>>
RParkReset ==   \* ResetEvent(m_hResumeEvent)
    /\ Step("R", "park.reset", "park.ack")
    /\ resumeEv' = FALSE
    /\ UNCHANGED <<paused, pauseEv, pausedEv, resumedEv>>
    /\ UNCHANGED <<locks, flow, client, formats, requests, control, locals>>
RParkSilently ==    \* faulty variant: m_hWaitPauseEvent is not set
    /\ Step("R", "park.ack", "parked")
    /\ UNCHANGED <<locks, handshake, flow, client, formats, requests, control, locals>>
RParkAck ==     \* SetEvent(m_hWaitPauseEvent)
    /\ Step("R", "park.ack", "parked")
    /\ pausedEv' = TRUE
    /\ UNCHANGED <<paused, pauseEv, resumeEv, resumedEv>>
    /\ UNCHANGED <<locks, flow, client, formats, requests, control, locals>>
RParkAnswerFirst ==     \* faulty variant: the answer is given before m_hResumeEvent is reset
    /\ \/ Step("R", "park.reset", "park.ack") /\ pausedEv' = TRUE /\ UNCHANGED resumeEv
       \/ Step("R", "park.ack", "parked") /\ resumeEv' = FALSE /\ UNCHANGED pausedEv
    /\ UNCHANGED <<paused, pauseEv, resumedEv>>
    /\ UNCHANGED <<locks, flow, client, formats, requests, control, locals>>
RParkAnswer == RParkReset \/ RParkAck

\* The pause loop renders while it waits when the device is to be kept active.
KeepsActive == PauseKeepActive /\ ~ReleaseDeviceIdle /\ renderClient # NULL
RParked ==
    /\ Branch("R", "parked", KeepsActive, "k.check", "parked.wait")
    /\ UNCHANGED <<locks, handshake, flow, client, formats, requests, control, locals>>
RKeepActive == RenderWasapiBuffer("R", "k.check", "k.lock", "k.fill", "k.wait", FALSE)
RKeepTimeout ==
    /\ Step("R", "k.wait", "parked")
    /\ ~resumeEv
    /\ UNCHANGED <<locks, handshake, flow, client, formats, requests, control, locals>>
RResume ==      \* m_hResumeEvent: m_bThreadPaused = FALSE, SetEvent(m_hWaitResumeEvent)
    /\ pc["R"] \in {"parked.wait", "k.wait"} /\ Goto("R", "top")
    /\ resumeEv /\ resumeEv' = FALSE
    /\ paused' = FALSE /\ resumedEv' = TRUE
    /\ UNCHANGED <<pauseEv, pausedEv>>
    /\ UNCHANGED <<locks, flow, client, formats, requests, control, locals>>

RenderThread ==
    \/ RTop \/ RRender \/ RData \/ RTimeout
    \/ RPause \/ RParkFlag \/ RParkAnswer
    \/ RParked \/ RKeepActive \/ RKeepTimeout \/ RResume

-----------------------------------------------------------------------------
(***************************************************************************)
(* CheckAudioClient(wanted), called by SetMediaType, ReinitializeAudio-    *)
(* Device and Transform.  It ends in failure at "cac.fail", in success at  *)
(* "cac.ok", or at "cac.kept" when there was nothing to do.                *)
(***************************************************************************)
Call(who, fmt, at) ==
    /\ pc["S"] = at /\ Goto("S", "cac.enter")
    /\ caller' = who /\ wanted' = fmt /\ force' = FALSE

CacEnter ==
    /\ Step("S", "cac.enter", "cac.lock")
    /\ csCheck = NULL /\ csCheck' = "S"
    /\ UNCHANGED <<csRender, handshake, flow, client, formats, requests, control, locals>>
CacLock ==
    /\ Step("S", "cac.lock", "cac.create")
    /\ LockRender("S")
    /\ UNCHANGED <<csCheck, handshake, flow, client, formats, requests, control, locals>>

\* CreateAudioClient(bForceUseDefaultDevice): GetAudioDevice unless there is a device,
\* InitAudioClient unless there is a client.
FoundDevice == IF device THEN {useDefault} ELSE IF force THEN {TRUE} ELSE BOOLEAN
CreateAudioClient(ok) ==
    /\ \/ ok /\ device' = TRUE /\ audioClient' = TRUE /\ useDefault' \in FoundDevice
       \/ ~ok /\ DeviceFaults /\ ~audioClient /\ audioClient' = FALSE
          /\ device' \in {device, TRUE} /\ useDefault' \in FoundDevice
    /\ UNCHANGED <<started, renderClient>>
CacCreate ==
    /\ \/ Step("S", "cac.create", "cac.format") /\ CreateAudioClient(TRUE)
       \/ Step("S", "cac.create", "cac.fail") /\ CreateAudioClient(FALSE)
    /\ UNCHANGED <<locks, handshake, flow, formats, requests, control, locals>>

\* The formats are overwritten before the render thread is asked to pause.
Renegotiate == inFmt = NULL \/ wanted # inFmt \/ outFmt = NULL
CacFormat ==
    /\ pc["S"] = "cac.format" /\ Renegotiate
    /\ inFmt' = wanted
    /\ \/ \E f \in Format : outFmt' = f /\ Goto("S", "rel.unlock") /\ after' = "init"
       \/ DeviceFaults /\ outFmt' = NULL /\ Goto("S", "cac.fail") /\ UNCHANGED after
       \/ /\ DeviceFaults /\ ~shared     \* AUDCLNT_E_EXCLUSIVE_MODE_NOT_ALLOWED
          /\ outFmt' = wanted /\ Goto("S", "rel.unlock") /\ after' = "shared"
    /\ UNCHANGED <<locks, handshake, flow, client, outParams, halfMade, released, shared, requests, control>>
    /\ UNCHANGED <<wanted, caller, full, force, jitter>>
\* The format stays: nothing but the clients is made, or nothing at all.
CacKeep ==
    /\ ~Renegotiate
    /\ Branch("S", "cac.format", renderClient = NULL, "rel.unlock", "cac.kept")
    /\ after' = "init"
    /\ UNCHANGED <<locks, handshake, flow, client, formats, requests, control>>
    /\ UNCHANGED <<wanted, caller, full, force, jitter>>

\* ReleaseAudio: m_csRender is released, one level of it, around the pause.
RelUnlock ==
    /\ Step("S", "rel.unlock", "rel.pause")
    /\ UnlockRender("S")
    /\ UNCHANGED <<csCheck, handshake, flow, client, formats, requests, control, locals>>
RelNoPause ==           \* faulty variant: the render thread is not paused
    /\ Step("S", "rel.pause", "rel.lock")
    /\ UNCHANGED <<locks, handshake, flow, client, formats, requests, control, locals>>
RelPause ==
    \/ PauseAsk("S", "rel.pause", "rel.set", "rel.lock")
    \/ PauseSet("S", "rel.set", "rel.wait")
    \/ PauseAck("S", "rel.wait", "rel.lock")
RelLockForgotten ==     \* faulty variant: m_csRender is not taken again
    /\ Step("S", "rel.lock", "rel.drop")
    /\ UNCHANGED <<locks, handshake, flow, client, formats, requests, control, locals>>
RelLock ==
    /\ Step("S", "rel.lock", "rel.drop")
    /\ LockRender("S")
    /\ UNCHANGED <<csCheck, handshake, flow, client, formats, requests, control, locals>>
\* Faulty variant: m_pAudioClient is released, m_pRenderClient is not.
RelDropHalf ==
    /\ Branch("S", "rel.drop", after = "init", "cac.init", "cac.create")
    /\ started' = FALSE /\ renderClient' = renderClient /\ audioClient' = FALSE
    /\ device' = (device /\ after # "default")
    /\ outFmt' = IF after = "init" THEN outFmt ELSE NULL
    /\ shared' = (shared \/ after = "shared")
    /\ force' = (force \/ after = "default")
    /\ UNCHANGED <<useDefault, inFmt, outParams, halfMade, released, locks, handshake, flow, requests, control>>
    /\ UNCHANGED <<wanted, caller, full, after, jitter>>
\* Faulty variant: bForceUseDefaultDevice is not set for the retry.
RelDropUnforced ==
    /\ Branch("S", "rel.drop", after = "init", "cac.init", "cac.create")
    /\ started' = FALSE /\ renderClient' = NULL /\ halfMade' = FALSE /\ audioClient' = FALSE
    /\ device' = (device /\ after # "default")
    /\ outFmt' = IF after = "init" THEN outFmt ELSE NULL
    /\ shared' = (shared \/ after = "shared")
    /\ UNCHANGED <<force, useDefault, inFmt, outParams, released, locks, handshake, flow, requests, control>>
    /\ UNCHANGED <<wanted, caller, full, after, jitter>>
\* The clients are released; with "default" the device too, and a retry is forced to the
\* default device; with "shared" the retry is in shared mode.
RelDrop ==
    /\ Branch("S", "rel.drop", after = "init", "cac.init", "cac.create")
    /\ started' = FALSE /\ renderClient' = NULL /\ halfMade' = FALSE /\ audioClient' = FALSE
    /\ device' = (device /\ after # "default")
    /\ outFmt' = IF after = "init" THEN outFmt ELSE NULL
    /\ shared' = (shared \/ after = "shared")
    /\ force' = (force \/ after = "default")
    /\ UNCHANGED <<useDefault, inFmt, outParams, released, locks, handshake, flow, requests, control>>
    /\ UNCHANGED <<wanted, caller, full, after, jitter>>

\* InitAudioClient, and CreateRenderClient up to the point where the client is made.
ClientRefused ==
    /\ DeviceFaults
    /\ \/ audioClient' \in BOOLEAN /\ Goto("S", "cac.fail") /\ UNCHANGED after
       \/ ~useDefault /\ audioClient' = TRUE      \* AUDCLNT_E_DEVICE_IN_USE
          /\ Goto("S", "rel.unlock") /\ after' = "default"
       \/ ~shared /\ audioClient' = TRUE          \* AUDCLNT_E_EXCLUSIVE_MODE_NOT_ALLOWED
          /\ Goto("S", "rel.unlock") /\ after' = "shared"
CacInit ==
    /\ pc["S"] = "cac.init"
    /\ \/ audioClient' = TRUE /\ Goto("S", "crc.create") /\ UNCHANGED after
       \/ audioClient' = TRUE /\ ~shared /\ Goto("S", "crc.pause") /\ UNCHANGED after
       \/ ClientRefused
    /\ UNCHANGED <<device, useDefault, started, renderClient>>
    /\ UNCHANGED <<locks, handshake, flow, formats, requests, control, wanted, caller, full, force, jitter>>
\* AUDCLNT_E_BUFFER_SIZE_NOT_ALIGNED: the client is thrown away and made again, after a
\* PauseRendererThread with m_csRender held.
CrcAlign ==
    \/ PauseAsk("S", "crc.pause", "crc.set", "crc.align")
    \/ PauseSet("S", "crc.set", "crc.wait")
    \/ PauseAck("S", "crc.wait", "crc.align")
    \/ /\ pc["S"] = "crc.align"
       /\ started' = FALSE /\ renderClient' = NULL
       /\ \/ audioClient' = TRUE /\ Goto("S", "crc.create") /\ UNCHANGED after
          \/ ClientRefused
       /\ UNCHANGED <<device, useDefault, wanted, caller, full, force, jitter>>
       /\ UNCHANGED <<locks, handshake, flow, formats, requests, control>>
\* Faulty variant: the queue is never flushed.
CrcCreateKeepingQueue ==
    /\ pc["S"] = "crc.create"
    /\ renderClient' = outFmt
    /\ released' = FALSE
    /\ Goto("S", "crc.start") /\ halfMade' = FALSE
    /\ UNCHANGED <<device, useDefault, audioClient, started, outFmt, inFmt, outParams, shared>>
    /\ UNCHANGED <<locks, handshake, flow, requests, control, locals>>
\* The rest of CreateRenderClient: the queue is flushed unless the device had been released
\* by ReleaseDevice.
CrcCreate ==
    /\ pc["S"] = "crc.create"
    /\ renderClient' = outFmt
    /\ queue' = IF released THEN queue ELSE <<>>
    /\ released' = FALSE
    /\ jitter' \in {FALSE, filterState = "Running" /\ ~released}
    /\ \/ Goto("S", "crc.start") /\ halfMade' = FALSE
       \/ DeviceFaults /\ EventDriven       \* SetEventHandle fails
          /\ Goto("S", "cac.fail") /\ halfMade' = TRUE
    /\ UNCHANGED <<device, useDefault, audioClient, started, outFmt, inFmt, outParams, shared>>
    /\ UNCHANGED <<locks, handshake, needMoreEv, dataEv, flushEv, requests, control>>
    /\ UNCHANGED <<wanted, caller, full, force, after>>
CrcStart ==
    \/ StartRendererThread("crc.start", "crc.resumed", "cac.ok")
    \/ ResumeAck("crc.resumed", "cac.ok")

\* Faulty variant: m_output_params is filled in by SetMediaType only.
CacReturnOldParams ==
    /\ pc["S"] \in {"cac.ok", "cac.kept", "cac.fail"}
    /\ Goto("S", CASE caller = "SetMediaType" /\ pc["S"] # "cac.fail" -> "receive"
                   [] caller = "Reinitialize" -> "re.done"
                   [] caller = "Transform" -> "t.client"
                   [] OTHER -> "idle")
    /\ outParams' = IF pc["S"] = "cac.ok" /\ caller # "Reinitialize" THEN outFmt ELSE outParams
    /\ UnlockRender("S") /\ csCheck' = NULL
    /\ wanted' = NULL /\ caller' = NULL /\ force' = FALSE /\ after' = NULL
    /\ UNCHANGED <<full, jitter, outFmt, inFmt, halfMade, released, shared>>
    /\ UNCHANGED <<handshake, flow, client, requests, control>>
\* m_output_params is filled in by a call that has made the client, and by no other.
CacReturn ==
    /\ pc["S"] \in {"cac.ok", "cac.kept", "cac.fail"}
    /\ Goto("S", CASE caller = "SetMediaType" /\ pc["S"] # "cac.fail" -> "receive"
                   [] caller = "Reinitialize" -> "re.done"
                   [] caller = "Transform" -> "t.client"
                   [] OTHER -> "idle")
    /\ outParams' = IF pc["S"] = "cac.ok" THEN outFmt ELSE outParams
    /\ UnlockRender("S") /\ csCheck' = NULL
    /\ wanted' = NULL /\ caller' = NULL /\ force' = FALSE /\ after' = NULL
    /\ UNCHANGED <<full, jitter, outFmt, inFmt, halfMade, released, shared>>
    /\ UNCHANGED <<handshake, flow, client, requests, control>>

CheckAudioClient ==
    \/ CacEnter \/ CacLock \/ CacCreate \/ CacFormat \/ CacKeep
    \/ RelUnlock \/ RelPause \/ RelLock \/ RelDrop
    \/ CacInit \/ CrcAlign \/ CrcCreate \/ CrcStart \/ CacReturn

-----------------------------------------------------------------------------
(***************************************************************************)
(* ReinitializeAudioDevice(full): the thread is paused before m_csRender   *)
(* is taken; both requests are cleared at the end.                         *)
(***************************************************************************)
ReNoPause ==            \* faulty variant: the render thread is not paused
    /\ Step("S", "re.pause", "re.lock")
    /\ UNCHANGED <<locks, handshake, flow, client, formats, requests, control, locals>>
RePause ==
    \/ PauseAsk("S", "re.pause", "re.set", "re.lock")
    \/ PauseSet("S", "re.set", "re.wait")
    \/ PauseAck("S", "re.wait", "re.lock")
ReLock ==
    /\ Step("S", "re.lock", "re.drop")
    /\ LockRender("S")
    /\ UNCHANGED <<csCheck, handshake, flow, client, formats, requests, control, locals>>
ReDrop ==
    /\ Branch("S", "re.drop", full, "re.create", "re.check")
    /\ started' = FALSE /\ released' = FALSE /\ outFmt' = NULL
    /\ renderClient' = IF full THEN NULL ELSE renderClient
    /\ halfMade' = (halfMade /\ ~full)
    /\ audioClient' = (audioClient /\ ~full) /\ device' = (device /\ ~full)
    /\ UNCHANGED <<useDefault, inFmt, outParams, shared>>
    /\ UNCHANGED <<locks, handshake, flow, requests, control, locals>>
ReCreate ==
    /\ \/ Step("S", "re.create", "re.check") /\ CreateAudioClient(TRUE)
       \/ Step("S", "re.create", "re.done") /\ CreateAudioClient(FALSE)
    /\ UNCHANGED <<locks, handshake, flow, formats, requests, control, locals>>
ReCheck ==
    /\ Call("Reinitialize", inFmt, "re.check")
    /\ UNCHANGED <<full, after, jitter, locks, handshake, flow, client, formats, requests, control>>
ReDone ==
    /\ Branch("S", "re.done", full, "t.reinit2", "t.status")
    /\ needFull' = FALSE /\ needReinit' = FALSE
    /\ UnlockRender("S")
    /\ full' = FALSE
    /\ UNCHANGED <<csCheck, changes, wanted, caller, force, after, jitter>>
    /\ UNCHANGED <<handshake, flow, client, formats, control>>
ReinitializeAudioDevice == RePause \/ ReLock \/ ReDrop \/ ReCreate \/ ReCheck \/ ReDone

(***************************************************************************)
(* The streaming thread: Receive, with the SetMediaType of a sample that   *)
(* brings a new type, and Transform.                                       *)
(***************************************************************************)
SetMediaType(who, f, at) ==
    /\ \/ CreateAudioClient(TRUE) /\ Call(who, f, at)
       \/ CreateAudioClient(FALSE) /\ Step("S", at, "idle") /\ UNCHANGED <<caller, wanted, force>>
    /\ UNCHANGED <<full, after, jitter, locks, handshake, flow, formats, requests>>
\* The connection: the application is inside it and does nothing else.
Connect(f) ==
    /\ ~HasThread
    /\ SetMediaType("Connect", f, "idle")
    /\ UNCHANGED control

\* Receive up to its test of m_FlushEvent, and from there to PrepareReceive, which refuses
\* the sample when the filter is stopped.
ReceiveSample ==
    /\ HasThread /\ ~flushEv /\ ~eos
    /\ Len(queue) < QueueCap
    /\ Step("S", "idle", "rcv")
    /\ UNCHANGED <<locks, handshake, flow, client, formats, requests, control, locals>>
PrepareReceive ==
    /\ pc["S"] = "rcv"
    /\ flushing' = FALSE
    /\ \/ /\ Goto("S", IF filterState = "Stopped" THEN "idle" ELSE "receive")
          /\ UNCHANGED <<locks, handshake, flow, client, formats, requests, locals>>
       \/ filterState # "Stopped" /\ \E f \in Format : SetMediaType("SetMediaType", f, "rcv")
    /\ UNCHANGED <<filterState, timer, eos>>

Transform ==    \* the early return, and the first request
    /\ pc["S"] = "receive"
    /\ Goto("S", IF filterState = "Stopped" \/ ~HasThread THEN "idle"
                 ELSE IF needFull THEN "re.pause" ELSE "t.reinit2")
    /\ full' = (filterState # "Stopped" /\ HasThread /\ needFull)
    /\ UNCHANGED <<wanted, caller, force, after, jitter>>
    /\ UNCHANGED <<locks, handshake, flow, client, formats, requests, control>>
TReinit ==
    /\ Branch("S", "t.reinit2", needReinit, "re.pause", "t.status")
    /\ UNCHANGED <<locks, handshake, flow, client, formats, requests, control, locals>>
TStatus ==
    /\ Step("S", "t.status", "t.wait")
    /\ CheckBufferStatus
    /\ UNCHANGED <<locks, handshake, dataEv, flushEv, queue, client, formats, requests, control, locals>>
\* Faulty variant: a flush does not end the wait.
TWaitForRoomOnly ==
    /\ pc["S"] = "t.wait" /\ needMoreEv
    /\ Goto("S", "idle") \/ (~flushEv /\ Goto("S", "t.render"))
    /\ UNCHANGED <<locks, handshake, flow, client, formats, requests, control, locals>>
\* The wait for m_hStopRenderThreadEvent, m_FlushEvent or m_hRendererNeedMoreData; after it an
\* empty sample, or one before the start, is dropped.
TWait ==
    /\ pc["S"] = "t.wait" /\ (flushEv \/ needMoreEv)
    /\ Goto("S", "idle") \/ (~flushEv /\ Goto("S", "t.render"))
    /\ UNCHANGED <<locks, handshake, flow, client, formats, requests, control, locals>>
\* Without a render client: InitAudioClient (no lock is held), CheckAudioClient.
TRender ==
    /\ pc["S"] = "t.render"
    /\ \/ renderClient # NULL /\ Goto("S", "t.queue") /\ UNCHANGED audioClient
       \/ /\ renderClient = NULL /\ Goto("S", "t.check")
          /\ \/ audioClient' = (audioClient \/ device)
             \/ DeviceFaults /\ ~audioClient /\ UNCHANGED audioClient
    /\ UNCHANGED <<device, useDefault, started, renderClient>>
    /\ UNCHANGED <<locks, handshake, flow, formats, requests, control, locals>>
TCheck ==
    /\ IF renderClient = NULL /\ audioClient THEN Call("Transform", inFmt, "t.check")
       ELSE Step("S", "t.check", "t.client") /\ UNCHANGED <<wanted, caller, force>>
    /\ UNCHANGED <<full, after, jitter, locks, handshake, flow, client, formats, requests, control>>
TClient ==      \* still none: the sample is dropped
    /\ Branch("S", "t.client", renderClient = NULL, "idle", "t.queue")
    /\ released' = (released /\ renderClient # NULL)
    /\ UNCHANGED <<outFmt, inFmt, outParams, halfMade, shared>>
    /\ UNCHANGED <<locks, handshake, flow, client, requests, control, locals>>
\* Transform goes on with an output format and with m_output_params to convert to.
Convertible == outFmt # NULL /\ outParams # NULL
\* Faulty variant: neither is tested.
TJitterUnchecked ==
    /\ Step("S", "t.queue", "j.client")
    /\ jitter /\ jitter' = FALSE
    /\ queue' = Append(queue, outFmt)
    /\ UNCHANGED <<needMoreEv, dataEv, flushEv, wanted, caller, full, force, after>>
    /\ UNCHANGED <<locks, handshake, client, formats, requests, control>>
\* After CreateRenderClient in the running state a packet of silence, against the jitter of
\* slaving, is queued and started before the sample's own.  It is sized by the output format.
TJitter ==
    /\ Step("S", "t.queue", "j.client")
    /\ Convertible /\ jitter /\ jitter' = FALSE
    /\ queue' = Append(queue, outFmt)
    /\ UNCHANGED <<needMoreEv, dataEv, flushEv, wanted, caller, full, force, after>>
    /\ UNCHANGED <<locks, handshake, client, formats, requests, control>>
\* The sample is converted to m_output_params and queued, unless the conversion fails, or the
\* audio filter keeps it, or PushToQueue drops it.
TQueue ==
    /\ pc["S"] = "t.queue"
    /\ \/ Goto("S", "t.start") /\ Convertible /\ ~jitter
          /\ queue' \in {queue, Append(queue, outParams)}
       \/ Goto("S", "idle") /\ (~Convertible \/ ~jitter) /\ UNCHANGED queue
    /\ UNCHANGED <<needMoreEv, dataEv, flushEv>>
    /\ UNCHANGED <<locks, handshake, client, formats, requests, control, locals>>
TStart ==
    \/ /\ started /\ Step("S", "t.start", "idle")
       /\ UNCHANGED <<locks, handshake, flow, client, formats, requests, control, locals>>
    \/ ~started /\ StartRendererThread("t.start", "t.resumed", "sc.client")
    \/ ResumeAck("t.resumed", "sc.client")

(***************************************************************************)
(* StartAudioClient: the first buffer is filled on the streaming thread.   *)
(***************************************************************************)
StartAudioClient(at, check, lock, fill, start, done) ==
    \/ /\ Branch("S", at, audioClient /\ ~started, check, done)
       /\ UNCHANGED <<locks, handshake, flow, client, formats, requests, control, locals>>
    \/ RenderWasapiBuffer("S", check, lock, fill, start, FALSE)
    \/ /\ Step("S", start, done)
       /\ started' = TRUE \/ (DeviceFaults /\ started' = started)
       /\ UNCHANGED <<device, useDefault, audioClient, renderClient>>
       /\ UNCHANGED <<locks, handshake, flow, formats, requests, control, locals>>

(***************************************************************************)
(* EndOfStream: WaitFinish, StartReleaseTimer, EndFlush; NewSegment.       *)
(***************************************************************************)
\* What the resampler still holds is queued.
EndOfStream ==
    /\ HasThread /\ filterState # "Stopped" /\ ~eos
    /\ Step("S", "idle", "eos.finish")
    /\ queue' \in {queue} \cup (IF Convertible THEN {Append(queue, outParams)} ELSE {})
    /\ UNCHANGED <<needMoreEv, dataEv, flushEv>>
    /\ UNCHANGED <<locks, handshake, client, formats, requests, control, locals>>
WaitFinish ==
    /\ needReinit \/ needFull \/ filterState = "Stopped" \/ flushing \/ queue = <<>>
    /\ Step("S", "eos.finish", "eos.flush")
    /\ StartReleaseTimer
    /\ UNCHANGED <<filterState, eos, flushing, locks, handshake, flow, client, formats, requests, locals>>
EndFlush(t, at) ==
    /\ Step(t, at, "idle")
    /\ csRender.by = NULL
    /\ queue' = <<>> /\ flushEv' = FALSE
    /\ eos' = (t = "S")
    /\ UNCHANGED <<needMoreEv, dataEv, filterState, timer, flushing>>
    /\ UNCHANGED <<locks, handshake, client, formats, requests, locals>>
NewSegment ==
    /\ HasThread /\ pc["S"] = "idle"
    /\ jitter' = FALSE
    /\ flushing' = FALSE
    /\ IF filterState # "Running" THEN StartReleaseTimer ELSE UNCHANGED timer
    /\ UNCHANGED <<pc, filterState, eos, locks, handshake, flow, client, formats, requests>>
    /\ UNCHANGED <<wanted, caller, full, force, after>>

Streaming ==
    \/ PrepareReceive \/ Transform \/ TReinit \/ TStatus \/ TWait \/ TRender \/ TCheck \/ TClient
    \/ TJitter \/ TQueue \/ TStart
    \/ ReinitializeAudioDevice \/ CheckAudioClient
    \/ StartAudioClient("sc.client", "sc.check", "sc.lock", "sc.fill", "sc.start", "idle")
    \/ StartAudioClient("j.client", "j.check", "j.lock", "j.fill", "j.start", "t.queue")
    \/ WaitFinish \/ EndFlush("S", "eos.flush")
Upstream == ReceiveSample \/ EndOfStream \/ NewSegment \/ \E f \in Format : Connect(f)

-----------------------------------------------------------------------------
(***************************************************************************)
(* The application thread.                                                 *)
(***************************************************************************)
Run ==
    /\ HasThread /\ filterState # "Running"
    /\ Step("A", "idle", "run.timer")
    /\ filterState' = "Running"
    /\ UNCHANGED <<timer, eos, flushing, locks, handshake, flow, client, formats, requests, locals>>
\* EndReleaseTimer: DeleteTimerQueueTimer with INVALID_HANDLE_VALUE waits for the callback.
RunEndTimer ==
    \/ /\ Branch("A", "run.timer", timer = "none", "run.more", "run.cancel")
       /\ UNCHANGED <<locks, handshake, flow, client, formats, requests, control, locals>>
    \/ /\ Step("A", "run.cancel", "run.more")
       /\ pc["T"] = "idle"
       /\ timer' = "none"
       /\ UNCHANGED <<filterState, eos, flushing, locks, handshake, flow, client, formats, requests, locals>>
RunMore ==      \* NewSegment is called when a flush was the last thing that happened
    /\ Step("A", "run.more", "run.slave")
    /\ needMoreEv' = TRUE
    /\ flushing' = FALSE
    /\ jitter' = (jitter /\ ~flushing)
    /\ IF flushing /\ filterState # "Running" THEN StartReleaseTimer ELSE UNCHANGED timer
    /\ UNCHANGED <<dataEv, flushEv, queue, filterState, eos>>
    /\ UNCHANGED <<locks, handshake, client, formats, requests, wanted, caller, full, force, after>>
RunSlave ==     \* the clock is slaved with m_csCheck held
    /\ Step("A", "run.slave", "idle")
    /\ csCheck = NULL
    /\ UNCHANGED <<locks, handshake, flow, client, formats, requests, control, locals>>

Leave(state, next) ==
    /\ HasThread /\ filterState # state
    /\ Step("A", "idle", next)
    /\ filterState' = state
    /\ needMoreEv' = TRUE
    /\ eos' = (eos /\ state # "Stopped")
    /\ IF filterState = "Running" THEN StartReleaseTimer ELSE UNCHANGED timer
    /\ UNCHANGED <<dataEv, flushEv, queue, flushing, locks, handshake, client, formats, requests, locals>>
Pause == Leave("Paused", "idle")
Stop == Leave("Stopped", "stop.wait")
\* CBaseRenderer::Stop returns when no sample is being received (m_bInReceive).
InReceive == pc["S"] \notin {"idle", "rcv", "eos.finish", "eos.flush"}
StopReturn ==
    /\ Step("A", "stop.wait", "idle")
    /\ ~InReceive
    /\ UNCHANGED <<locks, handshake, flow, client, formats, requests, control, locals>>

BeginFlush ==
    /\ HasThread
    /\ Step("A", "idle", "flush.wait")
    /\ flushEv' = TRUE /\ flushing' = TRUE
    /\ UNCHANGED <<needMoreEv, dataEv, queue, filterState, timer, eos>>
    /\ UNCHANGED <<locks, handshake, client, formats, requests, locals>>
FlushReceive == \* m_csReceive of the pin
    /\ Step("A", "flush.wait", "flush.end")
    /\ pc["S"] = "idle"
    /\ UNCHANGED <<locks, handshake, flow, client, formats, requests, control, locals>>

Application == caller # "Connect" /\ (Run \/ Pause \/ Stop \/ BeginFlush)
ApplicationStep ==
    RunEndTimer \/ RunMore \/ RunSlave \/ StopReturn \/ FlushReceive \/ EndFlush("A", "flush.end")

(***************************************************************************)
(* ReleaseDevice on the timer thread: m_csRender is held from beginning to *)
(* end.                                                                    *)
(***************************************************************************)
TimerFires ==
    /\ Step("T", "idle", "rd.lock")
    /\ timer = "armed" /\ timer' = "fired"
    /\ UNCHANGED <<filterState, eos, flushing, locks, handshake, flow, client, formats, requests, locals>>
RdLock ==
    /\ Step("T", "rd.lock", "rd.pause")
    /\ LockRender("T")
    /\ released' = TRUE
    /\ UNCHANGED <<csCheck, outFmt, inFmt, outParams, halfMade, shared>>
    /\ UNCHANGED <<handshake, flow, client, requests, control, locals>>
RdPause ==
    \/ PauseAsk("T", "rd.pause", "rd.set", "rd.drop")
    \/ PauseSet("T", "rd.set", "rd.wait")
    \/ PauseAck("T", "rd.wait", "rd.drop")
RdDrop ==
    /\ Step("T", "rd.drop", "idle")
    /\ started' = FALSE
    /\ renderClient' = IF shared THEN renderClient ELSE NULL
    /\ audioClient' = (audioClient /\ shared)
    /\ UnlockRender("T")
    /\ timer' = "none"
    /\ UNCHANGED <<device, useDefault, csCheck, filterState, eos, flushing>>
    /\ UNCHANGED <<handshake, flow, formats, requests, locals>>
ReleaseDevice == RdLock \/ RdPause \/ RdDrop

(***************************************************************************)
(* The device: the event of each period, and what makes it be set up       *)
(* again (IMMNotificationClient, SetDevicePeriod, SetWasapiMode,           *)
(* SetDeviceId).                                                           *)
(***************************************************************************)
DeviceTick ==
    /\ EventDriven /\ started /\ ~dataEv
    /\ dataEv' = TRUE
    /\ UNCHANGED <<pc, needMoreEv, flushEv, queue>>
    /\ UNCHANGED <<locks, handshake, client, formats, requests, control, locals>>
Change ==
    /\ HasThread
    /\ changes < MaxChanges /\ changes' = changes + 1
    /\ \/ SetReinitializeAudioDevice(TRUE) /\ shared' \in {shared, ~ExclusiveMode}
       \/ SetReinitializeAudioDevice(FALSE) /\ shared' \in BOOLEAN
    /\ UNCHANGED <<pc, dataEv, flushEv, queue, outFmt, inFmt, outParams, halfMade, released>>
    /\ UNCHANGED <<locks, handshake, client, control, locals>>

-----------------------------------------------------------------------------
Init ==
    /\ pc = [t \in Threads |-> IF t = "R" THEN "none" ELSE "idle"]
    /\ csRender = Free /\ csCheck = NULL
    /\ paused = FALSE /\ pauseEv = FALSE /\ pausedEv = FALSE
    /\ resumeEv = FALSE /\ resumedEv = FALSE
    /\ needMoreEv = FALSE /\ dataEv = FALSE /\ flushEv = FALSE /\ queue = <<>>
    /\ device = FALSE /\ useDefault = FALSE /\ audioClient = FALSE
    /\ started = FALSE /\ renderClient = NULL
    /\ outFmt = NULL /\ inFmt = NULL /\ outParams = NULL /\ halfMade = FALSE
    /\ released = FALSE /\ shared = ~ExclusiveMode
    /\ needFull = FALSE /\ needReinit = FALSE /\ changes = 0
    /\ filterState = "Stopped" /\ timer = "none" /\ eos = FALSE /\ flushing = FALSE
    /\ wanted = NULL /\ caller = NULL /\ full = FALSE /\ force = FALSE /\ after = NULL
    /\ jitter = FALSE

Next ==
    \/ RenderThread
    \/ Streaming \/ Upstream
    \/ Application \/ ApplicationStep
    \/ TimerFires \/ ReleaseDevice
    \/ DeviceTick \/ Change

(***************************************************************************)
(* Every thread that can go on does.  A critical section that is free      *)
(* again and again is granted in the end.  The device ticks while it runs. *)
(***************************************************************************)
Fairness ==
    /\ WF_vars(RenderThread)
    /\ WF_vars(Streaming)
    /\ WF_vars(ApplicationStep)
    /\ WF_vars(ReleaseDevice)
    /\ WF_vars(DeviceTick)
    /\ SF_vars(CacLock \/ RelLock \/ ReLock \/ EndFlush("S", "eos.flush")
              \/ RenderLock("S", "sc.lock", "sc.fill") \/ RenderLock("S", "j.lock", "j.fill"))
    /\ SF_vars(RenderLock("R", "r.lock", "r.fill") \/ RenderLock("R", "k.lock", "k.fill"))
    /\ SF_vars(EndFlush("A", "flush.end"))
    /\ SF_vars(RdLock)

Spec == Init /\ [][Next]_vars
FairSpec == Spec /\ Fairness

-----------------------------------------------------------------------------
Labels == [
    R |-> {"none", "top", "wait", "r.check", "r.lock", "r.fill", "park.flag", "park.reset",
           "park.ack", "parked", "parked.wait", "k.check", "k.lock", "k.fill", "k.wait"},
    S |-> {"idle", "rcv", "receive", "t.reinit2", "t.status", "t.wait", "t.render", "t.check",
           "t.client", "t.queue", "t.start", "t.resumed",
           "sc.client", "sc.check", "sc.lock", "sc.fill", "sc.start",
           "j.client", "j.check", "j.lock", "j.fill", "j.start",
           "re.pause", "re.set", "re.wait", "re.lock", "re.drop", "re.create", "re.check",
           "re.done", "cac.enter", "cac.lock", "cac.create", "cac.format", "rel.unlock",
           "rel.pause", "rel.set", "rel.wait", "rel.lock", "rel.drop", "cac.init",
           "crc.pause", "crc.set", "crc.wait", "crc.align", "crc.create", "crc.start",
           "crc.resumed", "cac.ok", "cac.kept", "cac.fail", "eos.finish", "eos.flush"},
    A |-> {"idle", "run.timer", "run.cancel", "run.more", "run.slave", "stop.wait",
           "flush.wait", "flush.end"},
    T |-> {"idle", "rd.lock", "rd.pause", "rd.set", "rd.wait", "rd.drop"}]

PlacesOK ==
    /\ DOMAIN pc = Threads
    /\ pc["R"] \in Labels.R /\ pc["S"] \in Labels.S
    /\ pc["A"] \in Labels.A /\ pc["T"] \in Labels.T
LocksOK ==
    csRender \in [by : Threads \cup {NULL}, n : Nat] /\ csCheck \in Threads \cup {NULL}
HandshakeOK ==
    /\ paused \in BOOLEAN /\ pauseEv \in BOOLEAN /\ pausedEv \in BOOLEAN
    /\ resumeEv \in BOOLEAN /\ resumedEv \in BOOLEAN
FlowOK ==
    needMoreEv \in BOOLEAN /\ dataEv \in BOOLEAN /\ flushEv \in BOOLEAN /\ queue \in Seq(Format)
ClientOK ==
    /\ device \in BOOLEAN /\ useDefault \in BOOLEAN /\ audioClient \in BOOLEAN
    /\ started \in BOOLEAN /\ renderClient \in Format \cup {NULL}
FormatsOK ==
    /\ outFmt \in Format \cup {NULL} /\ inFmt \in Format \cup {NULL}
    /\ outParams \in Format \cup {NULL} /\ halfMade \in BOOLEAN
    /\ released \in BOOLEAN /\ shared \in BOOLEAN
RequestsOK == needFull \in BOOLEAN /\ needReinit \in BOOLEAN /\ changes \in Nat
ControlOK ==
    /\ filterState \in {"Stopped", "Paused", "Running"} /\ timer \in {"none", "armed", "fired"}
    /\ eos \in BOOLEAN /\ flushing \in BOOLEAN
LocalsOK ==
    /\ wanted \in Format \cup {NULL}
    /\ caller \in {NULL, "Connect", "SetMediaType", "Reinitialize", "Transform"}
    /\ full \in BOOLEAN /\ force \in BOOLEAN /\ jitter \in BOOLEAN
    /\ after \in {NULL, "init", "shared", "default"}
TypeOK ==
    /\ PlacesOK /\ LocksOK /\ HandshakeOK /\ FlowOK /\ ClientOK
    /\ FormatsOK /\ RequestsOK /\ ControlOK /\ LocalsOK

\* The render thread is between the test of the two pointers and the end of their use.
Rendering == pc["R"] \in {"r.lock", "r.fill", "k.lock", "k.fill"}
\* The streaming thread releases or makes the clients the render thread uses.
Teardown == pc["S"] \in {"rel.drop", "re.drop", "re.create", "cac.init", "crc.align", "crc.create"}

(***************************************************************************)
(* While the streaming thread releases and makes the clients (ReleaseAudio,*)
(* CreateRenderClient, ReinitializeAudioDevice), the render thread is not  *)
(* inside RenderWasapiBuffer past its test of m_pRenderClient.             *)
(***************************************************************************)
TeardownExcludesRendering == Teardown => ~Rendering

(***************************************************************************)
(* A thread that fills the device buffer (RenderWasapiBuffer) uses clients *)
(* that exist.                                                             *)
(***************************************************************************)
FillHasClient ==
    pc["R"] \in {"r.fill", "k.fill"} \/ pc["S"] \in {"sc.fill", "j.fill"}
        => renderClient # NULL /\ audioClient

\* The client is one with which CreateRenderClient failed after it had made it (SetEventHandle
\* in event mode): it stays, and m_output_params, filled in after success only, is older.
HalfMade == halfMade /\ renderClient # NULL

(***************************************************************************)
(* Packets wait only for a client of their own format, unless this client  *)
(* is one that CreateRenderClient has left half made: the queue is flushed *)
(* whenever a client is made, and no packet is converted to the format of  *)
(* another client between the flush and the success of CheckAudioClient,   *)
(* nor after one that failed without a client.                             *)
(***************************************************************************)
QueueMatchesClient ==
    renderClient # NULL /\ ~HalfMade => \A i \in DOMAIN queue : queue[i] = renderClient

(***************************************************************************)
(* The device buffer is filled in the format its client was made for.      *)
(***************************************************************************)
FillMatchesClient ==
    pc["R"] \in {"r.fill", "k.fill"} \/ pc["S"] \in {"sc.fill", "j.fill"}
        => outFmt = renderClient

(***************************************************************************)
(* PauseRendererThread in CreateRenderClient's alignment retry, which holds*)
(* m_csRender, never has to wait for the render thread.                    *)
(***************************************************************************)
AlignmentNeverWaits == pc["S"] \notin {"crc.set", "crc.wait"}

(***************************************************************************)
(* The streaming thread never waits for the render thread to pause with    *)
(* m_csRender held, for which the render thread may be waiting on its way: *)
(* ReleaseAudio opens one level of the lock only, and the level that       *)
(* ReinitializeAudioDevice has taken keeps it closed.                      *)
(***************************************************************************)
WaitsUnlocked == pc["S"] \in {"rel.wait", "re.wait", "crc.wait"} => csRender.by # "S"

(***************************************************************************)
(* Every request to pause is answered, and every request to resume.        *)
(***************************************************************************)
PauseAnswered ==
    /\ pc["S"] \in {"rel.wait", "re.wait", "crc.wait"} ~> pc["S"] \notin {"rel.wait", "re.wait", "crc.wait"}
    /\ pc["T"] = "rd.wait" ~> pc["T"] # "rd.wait"
ResumeAnswered ==
    pc["S"] \in {"crc.resumed", "t.resumed"} ~> pc["S"] \notin {"crc.resumed", "t.resumed"}

(***************************************************************************)
(* The "goto again" of CheckAudioClient never repeats an attempt: every    *)
(* retry is forced to the default device, or is in shared mode, for the    *)
(* first time in the call, so that whatever the device refuses there are   *)
(* at most two.                                                            *)
(***************************************************************************)
RetryIsNew ==
    [][pc["S"] = "rel.drop" /\ pc'["S"] = "cac.create" => <<force, shared>>' # <<force, shared>>]_vars

(***************************************************************************)
(* While the renderer is running, Transform does not wait for ever for     *)
(* room in the queue.                                                      *)
(***************************************************************************)
TransformReturns ==
    pc["S"] = "t.wait" /\ filterState = "Running" ~> pc["S"] # "t.wait" \/ filterState # "Running"

(***************************************************************************)
(* BeginFlush gets m_csReceive: the streaming thread leaves whatever wait  *)
(* it is in once the flush has begun, Transform's for room and the one for *)
(* the end of the stream, although EndOfStream resets m_FlushEvent.  What  *)
(* can keep it from doing so is an EndOfStream that finds m_bFlushing reset*)
(* after BeginFlush has set it, and nobody to play the queue while         *)
(* m_FlushEvent is set: reset by a sample that had passed the test of      *)
(* m_FlushEvent before, by a new segment or by Run.                        *)
(***************************************************************************)
FlushGetsThrough ==
    pc["A"] = "flush.wait"
        ~> pc["A"] # "flush.wait" \/ (pc["S"] = "eos.finish" /\ flushEv /\ ~flushing)

=============================================================================
