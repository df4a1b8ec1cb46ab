# A TLA+ verification of MPC Video Decoder and MPC Audio Renderer

The repository builds two DirectShow filters: **MPC Audio Renderer**
(`src/src/filters/renderer/MpcAudioRenderer`), which plays audio through WASAPI,
and **MPC Video Decoder** (`src/src/filters/transform/MPCVideoDec`), which decodes
video with FFmpeg, DXVA2, D3D11VA or the Intel Media SDK, on top of
`BaseVideoFilter`. Both use the helper libraries `DSUtil` and `AudioTools`. The
DirectShow base classes are a submodule whose directory is empty here; they and
Windows are external and modelled from the way this code uses them.

## 1. Inventory

| Part | State | Operations | Threads and interactions | Hard behaviour |
|---|---|---|---|---|
| `CMpcAudioRenderer` (MpcAudioRenderer.cpp) | WASAPI device, audio client, render client, input and output format, packet queue, pause/resume/flush/data events, `m_csRender`, `m_csCheck`, release timer | `RenderThread`, `SetMediaType`, `Transform`, `CheckAudioClient`, `CreateRenderClient`, `ReinitializeAudioDevice`, `Run`/`Pause`/`Stop`, flush, `EndOfStream`, `ReleaseDevice` | render thread, streaming thread, application thread, timer-queue thread, MMDevice notifications | the clients are torn down while another thread plays with them; rendezvous by events; locks opened in the middle of a call; a device that refuses or disappears |
| `CAudioSyncClock` (AudioSyncClock.cpp) | the slaved flag, offsets, last audio time | `Slave`, `UnSlave`, `OffsetAudioClock`, `GetPrivateTime` | the graph reads the clock while the renderer slaves and unslaves it | the reference clock must not run backwards over slave/unslave |
| `CPacketQueue` (Packet.cpp) | list of packets, total size | `Append`, `Remove`, `RemoveSafe`, `RemoveAll` | streaming thread produces, render thread consumes | a packet is merged into its predecessor; the size must match the list |
| `AudioTools` | resampler, mixer, dither | `CMixer`, `CFilter`, conversions | called by the streaming thread | saturation and rounding |
| `CMPCVideoDecFilter` (MPCVideoDec.cpp) | decoder context, DXVA state, output queue | `Receive`/`Decode`, flush, end of stream, reconnection, the software delivery pipeline and its thread | streaming thread, delivery thread, application thread | a flush or a type change with frames in the pipeline |
| D3D11VA (`D3D11Decoder`) | decoder, pool of surfaces | `ReInitD3D11Decoder`, `DeliverFrame`, the surface allocator | samples freed by the renderer after the decoder was recreated | life time of the surfaces of an old pool |
| DXVA2 (`DXVADecoder`) | surfaces, side data | allocator, `CDXVA2Decoder`, `CMediaSampleSideData` | as above | as above |
| `CMSDKDecoder` | MFX session, buffer queue, MVC pairs | `Decode`, `HandleOutput`, `DeliverOutput`, `Flush` | streaming thread | every surface is locked by exactly one of queue, output or free |
| `CBaseVideoFilter` | negotiated size and aspect | `Receive`, `GetDeliveryBuffer`, `ReconnectOutput` | streaming thread | reconnection while a sample is held |
| `DSUtil` parsers | bit positions | Golomb, H.264 NALU, audio and video headers | pure functions | boundaries of the input |
| Settings windows, property pages, resources | registry values | dialogs | user interface | - |

### 1.1 What would make each part correct

| Part | Properties | Stated in |
|---|---|---|
| Renderer threads | no teardown under a thread that plays; every pause and resume answered; packets meet a client of their format; no wait for the render thread with the lock it needs; retries end | `AudioRenderer`, `AudioRendererInv`, and in the abstract `PacketPlayer` |
| Software pipeline | bounded queue, no lost wakeup, order kept, stop loses nothing, a flush leaves nothing behind, all waits end | `SWPipeline`, `FrameChannel` |
| `CAudioSyncClock` | the private time never runs backwards over slave and unslave | planned |
| `CPacketQueue` | a FIFO of samples; the size is the sum of the packets | planned |
| D3D11 and DXVA2 surfaces | a sample is free, held or on its way back, in one place; a decommit is completed once; the allocator outlives its samples; a codec that asks for a surface gets one of its decoder's pool, or an error | `SurfaceAllocator`, and in the abstract `SampleLender` |
| `CMSDKDecoder` | each buffer is free, queued or in output; views are paired | planned |
| Decoder modes | after a failed hardware path the filter ends in software mode with a format the renderer has accepted | planned |
| Pure algorithms | equal to a reference definition over bounded input | planned |

### 1.2 Plan

In the order of what the filters cannot do without:

1. **The renderer's threads** (`AudioRenderer` implements `PacketPlayer`): done, with the
   refinement proved for the settings under which it holds, except for the parts listed in 2.4.
   Left: the destructor and `StopRendererThread`, and the alternative format check.
2. **The software pipeline** (`SWPipeline` implements `FrameChannel`): done,
   with the refinement proved. Left: the end of the stream as a value that the
   channel carries.
3. **The surfaces of the hardware decoders** (`SurfaceAllocator`, for D3D11VA and
   DXVA2, implements `SampleLender`): done, with its safety and the refinement proved for every
   pool size. Left: composing it with `SWPipeline`, of which it keeps the length of the queue, and
   the paused graph.
4. `AudioData`: `CPacketQueue` and the buffer fill of `RenderWasapiBuffer` as an
   implementation of a FIFO of samples, which takes the place of the sequence of
   formats in `AudioRenderer`; `CAudioSyncClock` with slave and unslave against readers
   (the private time does not decrease).
5. `DecoderMode`: the choice of decoder and device, reopening the codec, reconnection with
   `CBaseVideoFilter`, composed with `SurfaceAllocator` by its `mode`; `MSDKDecoder`'s queues.
6. Pure algorithms as operators against reference definitions: Golomb codes, the B-frame
   delay, dither and sample width conversions.

Runs are kept below about a million states each; the bounds are chosen per run
so that each queue is seen empty, below its limit and at it.

`PROJECT.json` lists all of them with their state; the ones that are not modelled
say why. What can go wrong and is hard to test is listed there under
`hazards`, each at its line, with the properties that would catch it.

## 2. The audio renderer

### 2.1 State and actions

`AudioRenderer.tla` models the four threads that meet in `CMpcAudioRenderer`.
`pc[t]` is the place of thread `t`; a label is one stretch of code between two
points where another thread matters (a wait, a lock, an unlocked access to shared
state), so every interleaving that the code allows at that grain is explored.

| Model | Code |
|---|---|
| `pc["R"]`, `RTop`, `RData`, `RTimeout`, `RPause`, `RPark*`, `RKeepActive`, `RResume` | `RenderThread`, one action for each branch of its waits |
| `RenderCheck`, `RenderLock`, `FillBuffer`, `FillFails` | `RenderWasapiBuffer`: the pointers are tested before the lock |
| `Cac*`, `Rel*`, `Crc*` | `CheckAudioClient` with its local `ReleaseAudio`, `InitAudioClient`, `CreateRenderClient` |
| `Re*` | `ReinitializeAudioDevice` |
| `Connect`, `ReceiveSample`, `PrepareReceive`, `SetMediaType`, `T*` | the connection; `Receive` with its test of `m_FlushEvent` (454) a step before the reset of `m_bFlushing` (469), the type that a sample brings; `Transform` |
| `EndOfStream`, `WaitFinish`, `EndFlush`, `NewSegment` | the input pin's calls of the same name |
| `Run*`, `Leave`, `Stop*`, `BeginFlush`, `FlushReceive` | the application's calls |
| `TimerFires`, `Rd*` | `TimerCallbackFunc`, `ReleaseDevice` |
| `DeviceTick`, `Change` | WASAPI's period event; notifications and settings that ask for a reinitialization |
| `PauseAsk`/`PauseSet`/`PauseAck` | `PauseRendererThread`: test of `m_bThreadPaused`, `SetEvent`, wait |
| `StartRendererThread`/`ResumeAck` | `StartRendererThread` |

The clients are abstracted to what matters between threads: a device or an audio
client exists or not; the render client is `NULL` or the format it was initialized
with; a packet is the format it was converted to. That format is `m_output_params`
(`outParams`), which `CheckAudioClient` fills in when it has succeeded (2196-2238), and not the
output format `m_pWaveFormatExOutput` (`outFmt`), which it replaces first. Events are Booleans with the
reset mode of the code (a wait on an auto-reset event consumes it). `m_csRender`
is a recursive lock with its depth, because `ReleaseAudio` opens exactly one
level of it.

`AudioRendererInv.tla` adds the invariants which explain *why* the properties
hold (`LockDiscipline`, `Rendezvous`, `Answers`, `ClientsLive`, `FormatsAgree`).
`MCAudioRenderer.tla` instantiates the model for TLC.

`halfMade` is a history variable: `CreateRenderClient` has made a render client and then failed,
because `SetEventHandle` did (2494-2497). The client stays, `CheckAudioClient` returns before it
fills in `m_output_params`, and the next `Transform`, which finds a client, queues packets of the
format before. This is a fault of the code; no comment, doc or test denies it, so it is told here
and named in the properties (`HalfMade`) and not in a run. Dropped from `QueueMatchesClient`, TLC
finds such a packet.

`PacketPlayer.tla` says what the renderer promises of its packets and its client, without locks,
events or places: a packet that waits has the format of the client, if there is one; it is played
in its turn by a client of its format, or thrown away with all that wait with it; and no client
is released or made while a thread uses one. A client may be broken when it is made (`broken`,
that is `HalfMade`): of what is played on it no format is promised. `ImplementsPlayer` is the refinement: the client is
`renderClient`, the packets are `queue`, and the users are the threads inside
`RenderWasapiBuffer` past their test of `m_pRenderClient`.

### 2.2 Runs and what they show

| Run | Question |
|---|---|
| `render_event` | Exclusive event-driven mode, two formats, a device that may fail or refuse anything. Types, exclusion of the render thread during every teardown, existing clients in every fill, the queue's format equals the client's unless that was left half made, the alignment retry never waits, with the explaining invariants `ClientsLive` and `Rendezvous`; no `goto again` of `CheckAudioClient` repeats the attempt that failed (`RetryIsNew`), so that the retries end; and the whole implements `PacketPlayer` (`ImplementsPlayer`). |
| `render_push` | The push-driven shared mode, whose loop renders before it waits, with the default setting (the timer releases the device) and a notification (`MaxChanges = 1`) at any moment: the streaming thread's own teardown still excludes the render thread, and the locks are still paired; `Answers` says what is left of the rendezvous when two threads ask; the streaming thread never waits for the render thread with `m_csRender` held (`WaitsUnlocked`), unlike the timer thread; the client has the output format, and `m_output_params` that of the client, through every failure (`FormatsAgree`). |
| `render_keep_active` | The pause loop renders while it waits: pause requests are still answered. |
| `render_progress` | A device that works: every pause and resume is answered, Transform gets room, a flush gets the streaming thread out of all its waits but one (`FlushGetsThrough`, see below), no deadlock. |
| `format_change` (violated) | `FillMatchesClient`: a fill in the format the client was made for. `CheckAudioClient` overwrites `m_pWaveFormatExOutput` (1979, 2083) before the thread is parked. |
| `idle_release_hang` (violated) | `PauseAnswered` with the release timer: `ReleaseDevice` waits for the render thread with `m_csRender` held. |

**Bounds.** `QueueMax` (packets WASAPI buffers want queued) is 1 and `QueueCap`
(no sample is received above it) 1 or 2: the interesting cases are empty, below
the limit, at the limit; with 2 a sample is received with the limit reached, so
the wait in `Transform` is exercised. `MaxChanges` bounds notifications and
invalidated devices, 1 where a reinitialization may meet everything else; a
full reinitialization caused by a timeout of the render thread is not bounded.
Two formats are enough to tell a packet, a client and an output format apart;
formats are interchangeable, hence the symmetry in the safety runs (never in a
run with liveness).

**Fairness.** Weak fairness for each thread's own code: a thread that can go on
does. Strong fairness for taking a critical section, because Windows grants a
lock that is free again and again in the end. The device ticks while it runs
(`DeviceTick`). Nothing is assumed of the application, of the upstream filter, of
the timer, or of notifications. 

With the device kept active (`PauseKeepActive`) two more properties fail, as TLC shows
when the first is added to `render_keep_active` and when the setting is changed in
`render_event`: `ResumeAnswered`, because the pause loop (706-712) may block on
`m_csRender`, held by the thread that resumes it and waits for the answer (2499); and
`FillHasClient`, because that loop renders although `PauseRendererThread` has been answered,
so that the client may be released between the test of `m_pRenderClient` (3007) and the
lock (3010).

Four more things TLC shows when the property is asked for, which no comment, doc or test of
the repository denies, so that they are told here and not as a run:

* The timer started at the end of a stream (3467) is stopped only by `Run`. After a seek in the
  running graph it fires and releases the device that is playing (hazard at 3289).
* With the timer and `QueueCap = 2` in `render_push`, `QueueMatchesClient` fails: after a
  release `m_bReleased` makes `CreateRenderClient` keep the queue (2445), though the format may
  have changed.
* `Stop` may wait for ever: `Transform` has tested `m_filterState` (1474), `Stop` sets
  `m_hRendererNeedMoreData` (806), `CheckBufferStatus` in `Transform` or in the render thread's
  loop resets it because the queue is full, and nobody empties the queue of a stopped renderer.
* A flush may hang if `m_bFlushing` is reset while it is going on and an end of stream follows:
  `WaitFinish` then waits, with `m_csReceive`, for a queue which the flush event keeps from
  playing. Three places reset it: a sample that had passed the test of `m_FlushEvent` (454) when
  `BeginFlush` set the event without `m_csReceive` (3477) goes on to 469; `NewSegment` (3201); and
  `Run`. `FlushGetsThrough` excepts exactly the wait with `m_FlushEvent` set and `m_bFlushing`
  reset, whichever of the three caused it, and says that a flush hangs nowhere else.

**Deadlock** is not checked where the system really can stop: with `DeviceFaults`
a failed reinitialization leaves `m_pWaveFormatExOutput` null, nobody sets
`m_hRendererNeedMoreData` any more and `Transform`, and with it `Stop`, wait for
ever (hazard at line 2886); with the timer or with the device kept active the
hangs described above are real. `render_progress` does check it.

### 2.3 Proofs

`AudioRenderer_proofs.tla`, checked by TLAPS:

* `TypesAndLocks`, hence `TypeCorrect` (`TypeOK`) and `LocksCorrect`
  (`LockDiscipline`): for every set of formats, all settings and bounds, with the
  release timer and the kept-active pause loop included. The two are proved together because the
  type of a packet depends on nothing else, while the depth of the lock depends
  on who called `CheckAudioClient`.
* `FormatsCorrect` (`FormatsAgree`), for all settings. `CheckAudioClient` overwrites the output
  format before `ReleaseAudio` has released the client made for the old one; the theorem says
  that these are the only places where the two differ, and that `CreateRenderClient` is reached
  only with an output format, whatever attempt failed before; and that `m_output_params` is of the
  client as long as there is one, between `CreateRenderClient` and the end of `CheckAudioClient` and
  for a half made client excepted. It is proved together with
  `ClientsWhole` (no render client without its audio client, none made over another).
* `RendezvousCorrect`: `Rendezvous` and `ClientsLive`, for `~ReleaseDeviceIdle`. From it follow
  `ClientsStayLive` and, with `~PauseKeepActive`, `FillsWithClient` (`FillHasClient`).

None of them is inductive alone. That the render thread is quiet when
`ReleaseAudio` drops the clients follows from the answer to the pause, and an
answer means something only if no earlier answer was left over; that is
`Rendezvous`: each request is pending in exactly one form, and the thread stays
parked from the answer to the next resume (`Holding`). `ClientsLive` then says
that whoever tested `m_pRenderClient` before taking the lock still has it after.
The assumptions on the settings are needed: with the timer, two threads can share
one answer (the run `idle_release_hang`), and the timer thread may take a client that the
render thread has tested; with the device kept active the rendezvous is the same, but the parked
thread still renders, and may find its client gone.

`AudioTimer_proofs.tla` drops the assumptions on the settings, and so covers the default one:

* `AnswersCorrect`: `Answers`, the inductive invariant, for all settings. The streaming thread may
  take the answer to the timer's request and go on while the render thread is not parked. But the
  timer thread waits for its answer with `m_csRender` held, so the streaming thread gets no
  further than to the lock (`rel.lock`, `re.lock`); once the timer thread has its answer, the
  render thread is parked. The proof uses `LockDiscipline` at exactly these steps.
* `AlignmentIsSafe` (`AlignmentNeverWaits`) and `StreamingWaitsUnlocked` (`WaitsUnlocked`), for
  all settings. The second is not about one line: `ReleaseAudio` opens only one level of
  `m_csRender`, and `ReinitializeAudioDevice` calls it with two. That the wait is never reached
  from there is the last conjunct of `Answers`, and it holds because the render thread has been
  parked before (`Inside`); that the other waits are free of the lock is `LockDiscipline`.
* `TeardownIsExclusive` (`TeardownExcludesRendering`), for `PauseKeepActive => ReleaseDeviceIdle`:
  the pause loop does not render then.

`AudioFormats_proofs.tla` proves two more, by the same lemmas per action:

* `PacketsMeetTheirFormat`: `QueueMatchesClient` whenever no idle device is released, whatever
  the other settings, formats, device changes and failures, the late one of `CreateRenderClient`
  alone excepted. It needs `FormatsAgree` (its conjunct on `m_output_params`) and
  `NeverReleased` (`m_bReleased` stays false, so every new client flushes the queue).
* `RetriesAreNew`: `RetryIsNew` for `MaxChanges = 0`. A retry switches to the default device or
  from exclusive to shared mode, and `RetryInv` says that it had not done so before. A
  notification or a setting that changes the mode in between could give the attempt back, hence
  the assumption.

`AudioPlayer_proofs.tla` draws them together: `PacketsArePlayed` is `Spec => ImplementsPlayer` for
`~ReleaseDeviceIdle /\ ~PauseKeepActive`, for every set of formats, every bound, both modes and
any device. One lemma says how each step of the player looks from the renderer (`EnterStep`,
`LeaveStep`, `PutStep`, `ReleaseStep`, `MakeStep`, `FlushStep`), and then each action is one of
these or a stutter. Each of the invariants has its place: `Rendezvous` makes the users empty when
`ReleaseAudio`, `ReinitializeAudioDevice` and `CreateRenderClient` act (`NoUsers`), `ClientsLive`
and `QueueMatchesClient` that what is played has a client of its format, `FormatsAgree` that what
is queued has, `NeverReleased` that a new client starts with an empty queue. Both assumptions are
needed: without the first the timer thread releases a client in use and `CreateRenderClient` keeps
the queue; without the second the parked thread is a user.

Each step of `Next` is one lemma per action: an action that leaves the variables of an
invariant's conjunct alone is dismissed in one leaf, the others have a step
per conjunct.

Only model-checked: liveness (`PauseAnswered`, `ResumeAnswered`, `TransformReturns`,
`FlushGetsThrough`), which is beyond the prover.

### 2.4 Not modelled

The alternative format check (`m_bAltCheckFormat`, 1991-2055), the destructor and
`StopRendererThread`, `m_csAudioClock`, the data path of the audio filter and
resampler, timestamps and slaving jitter beyond the one packet it queues, the DVD
path in `Receive` (458-467), changes of the settings that select the mode while the
graph runs (they are constants, except for the device mode), volume and balance,
the interface lock of the base classes, which `Receive` holds in `PrepareReceive` and
`SetMediaType`. A bitstream format is treated as an exclusive one.

Formats are alike in the model, so that three things are left out which depend on what they are:
an 8-bit output format, which has no sample format and makes `Transform` drop every sample
(1545-1547); the silence that `PushToQueue` puts before a packet after a gap, which is sized by
the output format as the packet of `TJitter` is; and `WaitFinish` reading
`m_pWaveFormatExOutput` without a test (3231) after a failure has deleted it. A connection is one
with no graph running: the application is inside `Connect` and does nothing else.

## 3. The software delivery pipeline of the video decoder

### 3.1 State and actions

When the decoder works in software, `DecodeInternal` does not deliver frames itself.
It pushes them into `m_swPipelineQueue` (at most `SW_PIPELINE_MAX_QUEUE`), and
a worker thread converts and delivers them. `SWPipeline.tla` has three actors:

| Model | Code |
|---|---|
| `pc["S"]`: `Receive`, `EndOfStream`, `NewSegment`, `TypeChange`, `Decoded`, `Push*`, `StartSWPipeline` | the streaming thread; everything it does is under `m_csReceive` |
| `pc["D"]`: `DWake`, `DExit`, `DEmpty`, `DPop`, `DDiscard`, `DCheck`, `DAccepted`, `DRefused` | `SWDeliverThread`, one action for each branch |
| `pc["A"]`: `BeginFlush`, `Flush*`, `EndFlush*`, `Control`, `BreakConnect`, `ReconnectOutput`, `CompleteConnect` | the application's thread: flush (without `m_csReceive`), graph control, disconnection of the input (with it), and the output pin connected again (without it): `CompleteConnect(PINDIR_OUTPUT)` (3488-3499) calls `InitDecoder`, which calls `CleanupFFmpeg` (2420) |
| `StopSWPipeline(t)` | called by `CleanupFFmpeg`, by `"S"` in a new segment or type change, by `"A"` in a disconnection or a connection of the output |
| `readyEv`, `notFullEv`, `exitEv` | the two auto-reset events and the manual-reset exit event |
| `queue`, `hand`, `frame` | the queue, the worker's local `f`, the argument of `PushSWFrame` |
| `pinFlush`, `outFlush` | the input pin refuses samples; the connected pin refuses frames |

A frame is its number and the flush epoch its sample belongs to. Each statement that sets or
waits for an event is a step of its own; what is done under `m_csSWPipeline` is one step.
`WaitForMultipleObjects` reports the first of several signaled handles, so `DExit` asks for
`~readyEv`. The 50 ms timeout of `PushSWFrame` is `PushTimeout`, possible whenever neither event
is set. Conversion, misaligned planes and a missing plane (2076-2106) are abstracted: a frame is
delivered, or it is refused by the output (`DRefused`).

`FrameChannel.tla` says what the pipeline promises: a bounded channel, in order, each
frame at most once, nothing dropped except in a flush, in a stopped graph or when
the output refuses. `ImplementsChannel` is the refinement: a frame is on its way
while it is in the queue or in the worker's hand.

### 3.2 Runs and what they show

| Run | Question |
|---|---|
| `pipeline` | Queue of two, four frames, one flush, pause/run/stop/disconnect at any time. The queue never overflows though nobody tests its size before inserting (`QueueBounded`); no wakeup and no room is lost (`WakeupPending`, `RoomAnnounced`); `StopSWPipeline` throws no frame away (`StopLosesNothing`: with both events set, the worker is told of the ready event and empties the queue first); order, across flushes too (`InOrder`); one thread at a time that starts, feeds or stops the worker, although a connection of the output takes no lock (`OneOwner`); refinement (`ImplementsChannel`). The waits without timeout end: `FlushReturns` (even in a paused graph, because `BeginFlush` is passed on before `FlushSWPipeline` waits), `PushReturns`, `StopReturns`. No deadlock. |
| `flush_stale` (violated) | `FlushDiscards`: a frame the worker has taken, or one that is pushed between 3559 and 3561, is delivered after the flush. |
| `type_change_skips` (violated) | `SkipsForAWhile`: with a video renderer nothing resets `m_bReinit` after a type change. |

**Bounds.** `QueueMax = 2` has every relation of the code between queue and limit (empty, below,
full); four frames fill queue, hand and `frame` at once and leave one that waits. One
flush: a second starts from a state like the first (the epoch only labels frames).

**Fairness.** Weak fairness for the worker, for the streaming thread inside the
filter, for the application inside a call; strong fairness for `EndFlush` getting
`m_csReceive`. None for what comes from upstream and for what the application starts:
`PushReturns` and `StopReturns` are therefore stated for a graph that
runs (or has stopped), since a paused renderer keeps the worker in `Deliver`.

### 3.3 Proofs

`SWPipeline_proofs.tla`: for every queue length, all bounds and settings, `TypeOK`,
`OneOwner`, `QueueBounded`, `WakeupPending`, `RoomAnnounced`, `StopLosesNothing`,
`InOrder` and the refinement `Spec => ImplementsChannel`. The inductive invariant is
`PipelineInv /\ Numbered` (`SWPipelineInv.tla`):

* `OneOwner` and `Lifetimes`: places, lock, thread handle and exit event belong
  together. `CompleteConnect` holds no lock; that nobody else is in the filter then is an assumption
  on the graph manager (guard `~Connecting` of what comes from upstream, a stopped graph whose
  source's thread has left the filter in `ReconnectOutput`), and the rest is proved from it. They exclude a push while a stop is going on, which the two event invariants need.
* `Licence`: `m_hSWQueueNotFull` set means room for one frame, and room for one more
  if a push has taken the licence already; this is what makes `QueueBounded` inductive.
* `WakeupPending` is what `StopLosesNothing` rests on: the worker leaves only
  without a ready event, so nothing waits in the queue.
* `Numbered`: delivered before hand before queue before `frame`.

`InOrder` also orders the epochs: a frame may outlive a flush (`flush_stale` shows it), but it
then comes before every frame decoded after that flush. What makes this inductive is `Past`: no
frame, wherever it is, is ahead of the counts of frames and of flushes.

Steps are proved thread by thread; the refinement shows each action to be a
step of `FrameChannel` or a stutter (`PopIsSilent`, `InsertIsSend`). The
assumption `NullAssumption` says that `NULL` is no thread and no frame.

Only model-checked: liveness. The two violated properties are TLC's
counterexamples.

### 3.4 Not modelled

The end of the stream as something that could overtake frames (`EndOfStream`, 3628),
what the decoder needs to produce a frame, the race of `FlushSWPipeline`
with the closing of the handles (the model does nothing then), the other users of
`m_FormatConverter`, hardware decoding, `m_pLock`, which `ChangeOutputMediaFormat` takes (4450)
with `m_csReceive` held while other calls take the two the other way round. The type change of a
renderer that is no video renderer reconnects the pin asynchronously in the base classes; here it is
part of `TypeChange`.

## 4. The surfaces of the hardware decoders

### 4.1 State and actions

With D3D11VA and DXVA2 the surfaces the codec decodes into are the samples of an allocator of
this filter, `CD3D11SurfaceAllocator` or `CVideoDecDXVAAllocator`; both override `Alloc` and
`Free` of `CBaseAllocator`. The video renderer holds samples as long as it shows them. When the
stream changes its size or format, the streaming thread creates the decoder and its surfaces
again while samples of the old pool are still out. After the fallback to software decoding the
output pin keeps the allocator of the hardware decoder, and the worker of the software pipeline
(section 3) asks it for the buffers of its frames. `SurfaceAllocator.tla` models both
(`backend`), because they follow the same protocol and differ where it matters:

| Model | Code |
|---|---|
| `al`: `committed`, `pending`, `free`, `allocated`, `ctx`, `refs`, `live` | the members of the allocator, its reference count, the sample objects that exist |
| a sample: `gen`, `idx`, `ctx` | the pool it was made for, its surface index, the cookie `m_pAllocatorCookie` |
| `dec`, `ren`, `returning` | samples referenced by the codec, by the renderer, and inside `ReleaseBuffer` between the unlocked comparison and the lock |
| `AllocD3D11`, `AllocDXVA2`, `Free`, `ForceDecommitted`, `LastRelease` | `Alloc`, `Free`, `ForceDecommit`, `ReleaseBuffer` of the two allocators |
| `Decommitted`, `Returned`, `Committed` | what is inherited from `CBaseAllocator`, external |
| `pcS`, `why`: `ReceiveBegin`, `NeedBuffer`, `FlushDone`, `CreateDecoder`, `StreamDecommit`, `CheckDecommit`, `ForceDecommit`, `StreamCommit`, `GetBuffer*` | the streaming thread in `get_d3d11_buffer`, `get_d3d11_format`, `ReInitD3D11Decoder`, `CheckDXVA2Decoder`, `RecommitAllocator`, `get_buffer_dxva` |
| `Incompatible`, `Fallback`, `DecodeSWFrame`, `PushSWFrame` | `CheckDXVACompatible`, the fallback in place of `DecodeInternal`, and the frames that the streaming thread pushes afterwards, waiting with `m_csReceive` while the queue is full |
| `worker`, `queued`, `PopSWFrame`, `GetDeliveryBuffer*`, `StopSWPipeline` | `SWDeliverThread`, a thread without `m_csReceive`, the length of its queue, its call of `GetDeliveryBuffer` (2070), and its end |
| `NewSegment` | `NewSegment`, and `SetMediaType` of a sample with a new type |
| `BeginFlush`, `EndFlush`, `FlushCodec` | a flush, which waits for the queue to be empty and then for `m_csReceive` |
| `StopRenderer`, `StopFilter`, `Run`, `Disconnect`, `DecoderDestruct` | the application: the renderer's pin is stopped before the filter, which needs `m_csReceive`; the pins, the decoder and the allocator are released in the end |

Each locked block of the allocator is one step, `ReleaseBuffer`'s comparison
(D3D11SurfaceAllocator.cpp:226) a step before it. `av_buffer_ref` may place the new reference to
the frames context where the freed one was (`Addresses`), so a cookie may match by accident.
`live` is what a sanitizer would know: samples that have not been deleted.

`SampleLender.tla` says what both allocators promise to the codec and the renderer: a pool of
samples, each lent to one holder at a time and only while the pool is open; while it is open, a
sample of the pool leaves the free list only to be lent and comes back to it; a sample that is
held outlives the closing of the pool and the opening of the next. `ImplementsLender` is the
refinement: the pool is open while the allocator is committed, its samples are the live ones with
the allocator's frames context (`CurrentPool`), and lent is what the codec, the renderer or a
release under way holds (`Held`).

### 4.2 Runs and what they show

| Run | Question |
|---|---|
| `surfaces` | Both decoders, two pools of two samples. A sample is in one place, through every decommit, forced or not, and every late release (`Conserved`); the reference count is what its owners account for, so no decommit is completed twice (`RefsMatch`); the D3D11 allocator outlives its samples; a codec that asks for a buffer finds its whole pool (`PoolComplete`). `StopReturns`: `Stop` gets `m_csReceive`, though the streaming thread may wait with it in `GetBuffer`, or for the worker to make room, which waits in `GetDeliveryBuffer`; `DecoderWaitEnds`: no codec waits in `GetBuffer` for ever. `ImplementsLender`: both allocators are a `SampleLender`. |
| `fallback_hang` (violated) | `FallbackDelivers`: D3D11's first `Alloc` succeeds without samples; if the decoder then cannot be created, the filter falls back to software in place, and the worker waits for a buffer of the empty allocator for its first frame until the graph is stopped; the streaming thread joins the wait in `PushSWFrame` when the queue is full. |
| `stale_surface` (violated) | `FreshSurface`: DXVA2's `Alloc` leaves `m_lAllocated` at -1, a decommit never waits, and a sample that comes back late is lent again with the surface of the old decoder. |

`FreshSurface` also fails with D3D11 alone (`Backends = {"D3D11"}` in `stale_surface`), by the
comparison before the lock: a sample that passed it waits for the lock while
the streaming thread forces the decommit and commits a new pool. If no commit follows, that
sample stays on the free list and keeps the allocator alive for good.

**Bounds.** `Count = 2` and `DecoderMax = 1`: one surface for the codec leaves one for the
renderer, so that the pool is seen full, partly lent and empty. `MaxGens = 2`: an old and a new
pool; a third relates to the second as the second to the first. `QueueMax = 1`: the queue between
the streaming thread and the worker is seen empty and full. Two addresses make cookies equal
or different.

**Fairness.** Weak fairness for the streaming thread inside `Receive`, for a renderer that in
the end releases what it holds, for the locked part of a release, for the worker, for a thread that waits
for its end, and for a flush that is under way;
strong fairness for `ReceiveEnd` and for `FlushCodec` and `StopFilter` getting `m_csReceive`, which the streaming
thread takes again for each sample. None for the calls the application or the upstream filter
begins.

**Deadlock** is not checked, because the application may disconnect and release everything.

### 4.3 Proofs

`SurfaceAllocator_proofs.tla`, for both decoders, every pool size, every set of addresses and
any number of pools: `TypeCorrect`, `SamplesConserved`, `ReferencesMatch`, `AllocatorOutlives`.

The invariant `IInv` is `TypeOK /\ Conserved /\ RefsMatch`; it is inductive as it stands, but
not provable action by action without saying what the allocator's operations have in common. Two
values do: `Lent(a)`, the samples that exist and are not free, and `Surplus(a)`, the references
that neither a commit nor a sample explains. `Decommitted`, `ForceDecommitted` and `Free` change
neither (`Settles`), `Returned` takes one sample from `Lent`, `Filled` adds free samples and
their references. `Conserved` and `RefsMatch` then say `Lent(al) = Held` and `Surplus(al) =
Owners`, and each action is checked against these equations (`Step`, `SettleStep`,
`CommitStep`). `AllocatorOutlives` follows: a held sample is live and has a reference.

`SurfacePool_proofs.tla`: `PoolsComplete`. The invariant `PoolInv` follows the decoder through
its creation: `Steering` (which decoder exists where the streaming thread is), `Undone` (Commit
is reached with no decommit pending; DXVA2 never has one), and that the pool is whole as long as
it is committed or its decommit is pending and no re-creation is under way. `Shrinks` is what
every operation but `Commit` does: only samples with another cookie than the allocator's are
deleted.

`SurfaceLender_proofs.tla`: `SurfacesAreLent`, that is `Spec => ImplementsLender`, for both
decoders and every pool size. Since the invariant says `Held = Lent(al)`, the lender's whole state
is a function of `al`, and it is enough to say what each operation of the allocator does to it:
`DecommitShuts` and `ForceShuts` (the pool closes, with its free samples kept or given up),
`ReturnLends` (the three things that may happen to a sample that comes back: to the free list,
deleted as one of an earlier pool, or the last one of a closed pool) and `CommitLendsFacts` (a pending
decommit is taken back, or a new pool is made, none of whose samples is held). Every action of
the four threads is then one of these, a sample lent, or a stutter.

Only model-checked: `StopReturns` and `DecoderWaitEnds`.

### 4.4 Not modelled

A paused graph: a renderer that keeps its samples, or blocks a delivery, while it is paused; so
`DecoderWaitEnds` and the fairness of the renderer are about a graph that runs or is being
stopped. Of the software pipeline its events and its order (section 3), and a flush in a graph that
does not run. The
decoding itself, devices, configurations and their choice, sizes and formats (a change is a
choice of `NeedBuffer`), side data, an allocation of DXVA2 surfaces that fails half way, the
DXVA2 allocator's use after it was destroyed.

## 5. What is left out of the whole

`CPacketQueue`, `CAudioSyncClock`, `CMSDKDecoder`, the timestamps and the pure algorithms of
`DSUtil` and `AudioTools` are planned and not modelled yet (1.2). Device enumeration, settings,
property pages, registration, tags, files and HTTP have no state that several actors share. Most
of the source in this repository is FFmpeg and other vendored libraries, which the filters only
call.
