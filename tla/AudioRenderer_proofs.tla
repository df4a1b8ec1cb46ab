------------------------ MODULE AudioRenderer_proofs ------------------------
(***************************************************************************)
(* Proofs about AudioRenderer.  First, for all settings: every variable    *)
(* keeps its type and m_csRender its discipline (neither is inductive      *)
(* alone: that the depth of m_csRender stays a natural number is what the  *)
(* discipline says).  Still for all settings: the clients are whole and    *)
(* agree with the output format.  Then, for a renderer that releases no    *)
(* idle device: pause and resume are rendezvous, and whoever fills a       *)
(* device buffer has its clients.                                          *)
(***************************************************************************)
EXTENDS AudioRendererInv, TLAPS

-----------------------------------------------------------------------------
(***************************************************************************)
(* A group of variables that a step leaves alone keeps its type.           *)
(***************************************************************************)
LEMMA Kept ==
  ASSUME TypeOK
  PROVE  /\ UNCHANGED pc => PlacesOK'
         /\ UNCHANGED locks => LocksOK'
         /\ UNCHANGED handshake => HandshakeOK'
         /\ UNCHANGED flow => FlowOK'
         /\ UNCHANGED client => ClientOK'
         /\ UNCHANGED formats => FormatsOK'
         /\ UNCHANGED requests => RequestsOK'
         /\ UNCHANGED control => ControlOK'
         /\ UNCHANGED locals => LocalsOK'
  BY DEF TypeOK, PlacesOK, LocksOK, HandshakeOK, FlowOK, ClientOK, FormatsOK, RequestsOK,
         ControlOK, LocalsOK, locks, handshake, flow, client, formats, requests, control, locals

(***************************************************************************)
(* The queue and the counter stay in their types under what is done to     *)
(* them.                                                                   *)
(***************************************************************************)
LEMMA Closure ==
  /\ <<>> \in Seq(Format)
  /\ \A q \in Seq(Format), f \in Format : Append(q, f) \in Seq(Format)
  /\ \A q \in Seq(Format) : q # <<>> => Tail(q) \in Seq(Format)
  /\ \A n \in Nat : n + 1 \in Nat
  OBVIOUS

(***************************************************************************)
(* CreateAudioClient, whether it succeeds or fails, touches neither the    *)
(* render client nor the running stream, and releases no audio client.     *)
(***************************************************************************)
LEMMA CreateAudioClientEffect ==
  ASSUME ClientOK, NEW ok \in BOOLEAN, CreateAudioClient(ok)
  PROVE  /\ ClientOK'
         /\ UNCHANGED <<started, renderClient>>
         /\ audioClient => audioClient'
  BY DEF CreateAudioClient, FoundDevice, ClientOK

(***************************************************************************)
(* RenderWasapiBuffer keeps the types of what it changes besides the lock. *)
(***************************************************************************)
LEMMA RenderEffect ==
  ASSUME TypeOK, NEW t, NEW check, NEW lock, NEW fill, NEW done, NEW looksAtResult,
         RenderWasapiBuffer(t, check, lock, fill, done, looksAtResult)
  PROVE  FlowOK' /\ RequestsOK'
  <1>1. Played \in Seq(Format)
    BY Closure DEF Played, TypeOK, FlowOK
  <1>2. CASE RenderCheck(t, check, lock, done)
    BY <1>2 DEF RenderCheck, TypeOK, FlowOK, RequestsOK, flow, requests
  <1>3. CASE RenderLock(t, lock, fill)
    BY <1>3 DEF RenderLock, TypeOK, FlowOK, RequestsOK, flow, requests
  <1>4. CASE FillBuffer(t, fill, done)
    BY <1>1, <1>4 DEF FillBuffer, TypeOK, FlowOK, RequestsOK, requests
  <1>5. CASE FillFails(t, fill, done, looksAtResult)
    <2>1. queue' \in Seq(Format) /\ changes' \in Nat
      BY <1>1, <1>5, Closure DEF FillFails, TypeOK, FlowOK, RequestsOK
    <2>2. needMoreEv' \in BOOLEAN /\ needFull' \in BOOLEAN /\ needReinit' \in BOOLEAN
      BY <1>5 DEF FillFails, SetReinitializeAudioDevice, TypeOK, FlowOK, RequestsOK
    <2>3. QED
      BY <1>5, <2>1, <2>2 DEF FillFails, TypeOK, FlowOK, RequestsOK
  <1>6. QED
    BY <1>2, <1>3, <1>4, <1>5 DEF RenderWasapiBuffer, TypeOK

\* What CheckAudioClient, ReinitializeAudioDevice and SetMediaType do with it.
LEMMA CacCreateStep ==
  ASSUME ClientOK, CacCreate
  PROVE  /\ ClientOK' /\ UNCHANGED renderClient /\ (audioClient => audioClient')
         /\ UNCHANGED <<locks, handshake, flow, formats, requests, control, locals>>
         /\ \E l \in {"cac.format", "cac.fail"} : Step("S", "cac.create", l)
  BY CreateAudioClientEffect DEF CacCreate
LEMMA ReCreateStep ==
  ASSUME ClientOK, ReCreate
  PROVE  /\ ClientOK' /\ UNCHANGED renderClient /\ (audioClient => audioClient')
         /\ UNCHANGED <<locks, handshake, flow, formats, requests, control, locals>>
         /\ \E l \in {"re.check", "re.done"} : Step("S", "re.create", l)
  BY CreateAudioClientEffect DEF ReCreate
LEMMA SetMediaTypeStep ==
  ASSUME ClientOK, LocalsOK, NEW who \in {"Connect", "SetMediaType"}, NEW f \in Format, NEW at,
         SetMediaType(who, f, at)
  PROVE  /\ ClientOK' /\ UNCHANGED renderClient /\ (audioClient => audioClient')
         /\ UNCHANGED <<locks, handshake, flow, formats, requests>> /\ LocalsOK'
         /\ \/ Step("S", at, "cac.enter") /\ caller' = who
            \/ Step("S", at, "idle") /\ UNCHANGED caller
  <1>1. PICK ok \in BOOLEAN : CreateAudioClient(ok)
    BY DEF SetMediaType
  <1>2. ClientOK' /\ UNCHANGED renderClient /\ (audioClient => audioClient')
    BY <1>1, CreateAudioClientEffect
  <1>3. UNCHANGED <<locks, handshake, flow, formats, requests>>
    BY DEF SetMediaType
  <1>4. /\ \/ Step("S", at, "cac.enter") /\ caller' = who
           \/ Step("S", at, "idle") /\ UNCHANGED caller
        /\ LocalsOK'
    BY DEF SetMediaType, Call, Step, LocalsOK
  <1>5. QED
    BY <1>2, <1>3, <1>4
LEMMA ConnectStep ==
  ASSUME ClientOK, LocalsOK, NEW f \in Format, Connect(f)
  PROVE  /\ ClientOK' /\ UNCHANGED renderClient /\ (audioClient => audioClient')
         /\ UNCHANGED <<locks, handshake, flow, formats, requests, control>> /\ LocalsOK'
         /\ \/ Step("S", "idle", "cac.enter") /\ caller' = "Connect"
            \/ Step("S", "idle", "idle") /\ UNCHANGED caller
  BY SetMediaTypeStep DEF Connect
LEMMA PrepareReceiveStep ==
  ASSUME ClientOK, ControlOK, LocalsOK, PrepareReceive
  PROVE  /\ ClientOK' /\ UNCHANGED renderClient /\ (audioClient => audioClient')
         /\ UNCHANGED <<locks, handshake, flow, formats, requests>> /\ LocalsOK'
         /\ ControlOK' /\ UNCHANGED timer
         /\ \/ Step("S", "rcv", "cac.enter") /\ caller' = "SetMediaType"
            \/ \E l \in {"idle", "receive"} : Step("S", "rcv", l) /\ UNCHANGED caller
  <1>1. ControlOK' /\ UNCHANGED timer
    BY DEF PrepareReceive, ControlOK
  <1>2. CASE \E f \in Format : SetMediaType("SetMediaType", f, "rcv")
    BY <1>1, <1>2, SetMediaTypeStep
  <1>3. CASE /\ Goto("S", IF filterState = "Stopped" THEN "idle" ELSE "receive")
             /\ UNCHANGED <<locks, handshake, flow, client, formats, requests, locals>>
    <2>1. \E l \in {"idle", "receive"} : Step("S", "rcv", l)
      BY <1>3 DEF PrepareReceive, Step, Goto
    <2>2. ClientOK' /\ LocalsOK' /\ UNCHANGED <<renderClient, caller>> /\ (audioClient => audioClient')
      BY <1>3 DEF client, locals, ClientOK, LocalsOK
    <2>3. QED
      BY <1>1, <1>3, <2>1, <2>2
  <1>4. QED
    BY <1>2, <1>3 DEF PrepareReceive

-----------------------------------------------------------------------------
(***************************************************************************)
(* Types and locks, thread by thread.                                      *)
(***************************************************************************)

LEMMA RenderThreadKeepsTypes ==
  ASSUME TypeOK, LockDiscipline,
         RenderThread
  PROVE  TypeOK' /\ LockDiscipline'
  <1> USE NullAssumption DEF Goto, Step, Branch, HasThread, LockRender, UnlockRender, Free,
     TypeOK, PlacesOK, LocksOK, HandshakeOK, FlowOK, ClientOK, FormatsOK, RequestsOK,
     ControlOK, LocalsOK, Labels, Threads, locks, handshake, flow, client, formats,
     requests, control, locals
  <1>1. CASE RTop
    <2> USE <1>1 DEF RTop, CheckBufferStatus
    <2>1. PlacesOK'  OBVIOUS
    <2>2. FlowOK'  BY Closure
    <2>3. LockDiscipline'  BY DEF LockDiscipline, Depth, Takes, InCheck, InCall
    <2>4. QED  BY <2>1, <2>2, <2>3, Kept
  <1>2. CASE RRender
    <2>1. FlowOK' /\ RequestsOK'
      BY <1>2, RenderEffect DEF RRender
    <2> USE <1>2 DEF RRender, RenderWasapiBuffer, RenderCheck, RenderLock, FillBuffer,
       FillFails, Played, SetReinitializeAudioDevice, AfterFill
    <2>2. PlacesOK'  OBVIOUS
    <2>3. LocksOK'  BY DEF LockDiscipline, Depth, Takes, InCheck, InCall
    <2>4. LockDiscipline'  BY DEF LockDiscipline, Depth, Takes, InCheck, InCall
    <2>5. QED  BY <2>1, <2>2, <2>3, <2>4, Kept
  <1>3. CASE RData
    <2> USE <1>3 DEF RData
    <2>1. PlacesOK'  OBVIOUS
    <2>2. FlowOK'  BY Closure
    <2>3. LockDiscipline'  BY DEF LockDiscipline, Depth, Takes, InCheck, InCall
    <2>4. QED  BY <2>1, <2>2, <2>3, Kept
  <1>4. CASE RTimeout
    <2> USE <1>4 DEF RTimeout, SetReinitializeAudioDevice
    <2>1. PlacesOK'  OBVIOUS
    <2>2. FlowOK'  BY Closure
    <2>3. RequestsOK'  BY Closure
    <2>4. LockDiscipline'  BY DEF LockDiscipline, Depth, Takes, InCheck, InCall
    <2>5. QED  BY <2>1, <2>2, <2>3, <2>4, Kept
  <1>5. CASE RPause
    <2> USE <1>5 DEF RPause
    <2>1. PlacesOK'  OBVIOUS
    <2>2. HandshakeOK'  OBVIOUS
    <2>3. LockDiscipline'  BY DEF LockDiscipline, Depth, Takes, InCheck, InCall
    <2>4. QED  BY <2>1, <2>2, <2>3, Kept
  <1>6. CASE RParkFlag
    <2> USE <1>6 DEF RParkFlag
    <2>1. PlacesOK'  OBVIOUS
    <2>2. HandshakeOK'  OBVIOUS
    <2>3. LockDiscipline'  BY DEF LockDiscipline, Depth, Takes, InCheck, InCall
    <2>4. QED  BY <2>1, <2>2, <2>3, Kept
  <1>7. CASE RParkAnswer
    <2> USE <1>7 DEF RParkAnswer, RParkReset, RParkAck
    <2>1. PlacesOK'  OBVIOUS
    <2>2. HandshakeOK'  OBVIOUS
    <2>3. LockDiscipline'  BY DEF LockDiscipline, Depth, Takes, InCheck, InCall
    <2>4. QED  BY <2>1, <2>2, <2>3, Kept
  <1>8. CASE RParked
    <2> USE <1>8 DEF RParked
    <2>1. PlacesOK'  OBVIOUS
    <2>2. LockDiscipline'  BY DEF LockDiscipline, Depth, Takes, InCheck, InCall
    <2>3. QED  BY <2>1, <2>2, Kept
  <1>9. CASE RKeepActive
    <2>1. FlowOK' /\ RequestsOK'
      BY <1>9, RenderEffect DEF RKeepActive
    <2> USE <1>9 DEF RKeepActive, RenderWasapiBuffer, RenderCheck, RenderLock, FillBuffer,
       FillFails, Played, SetReinitializeAudioDevice
    <2>2. PlacesOK'  OBVIOUS
    <2>3. LocksOK'  BY DEF LockDiscipline, Depth, Takes, InCheck, InCall
    <2>4. LockDiscipline'  BY DEF LockDiscipline, Depth, Takes, InCheck, InCall
    <2>5. QED  BY <2>1, <2>2, <2>3, <2>4, Kept
  <1>10. CASE RKeepTimeout
    <2> USE <1>10 DEF RKeepTimeout
    <2>1. PlacesOK'  OBVIOUS
    <2>2. LockDiscipline'  BY DEF LockDiscipline, Depth, Takes, InCheck, InCall
    <2>3. QED  BY <2>1, <2>2, Kept
  <1>11. CASE RResume
    <2> USE <1>11 DEF RResume
    <2>1. PlacesOK'  OBVIOUS
    <2>2. HandshakeOK'  OBVIOUS
    <2>3. LockDiscipline'  BY DEF LockDiscipline, Depth, Takes, InCheck, InCall
    <2>4. QED  BY <2>1, <2>2, <2>3, Kept
  <1>12. QED
    BY <1>1, <1>2, <1>3, <1>4, <1>5, <1>6, <1>7, <1>8, <1>9, <1>10, <1>11 DEF RenderThread

LEMMA CheckAudioClientKeepsTypes ==
  ASSUME TypeOK, LockDiscipline,
         CheckAudioClient
  PROVE  TypeOK' /\ LockDiscipline'
  <1> USE NullAssumption DEF Goto, Step, Branch, HasThread, LockRender, UnlockRender, Free,
     TypeOK, PlacesOK, LocksOK, HandshakeOK, FlowOK, ClientOK, FormatsOK, RequestsOK,
     ControlOK, LocalsOK, Labels, Threads, locks, handshake, flow, client, formats,
     requests, control, locals
  <1>1. CASE CacEnter
    <2> USE <1>1 DEF CacEnter
    <2>1. PlacesOK'  OBVIOUS
    <2>2. LocksOK'  BY DEF LockDiscipline, Depth, Takes, InCheck, InCall
    <2>3. LockDiscipline'  BY DEF LockDiscipline, Depth, Takes, InCheck, InCall
    <2>4. QED  BY <2>1, <2>2, <2>3, Kept
  <1>2. CASE CacLock
    <2> USE <1>2 DEF CacLock
    <2>1. PlacesOK'  OBVIOUS
    <2>2. LocksOK'  BY DEF LockDiscipline, Depth, Takes, InCheck, InCall
    <2>3. LockDiscipline'  BY DEF LockDiscipline, Depth, Takes, InCheck, InCall
    <2>4. QED  BY <2>1, <2>2, <2>3, Kept
  <1>3. CASE CacCreate
    BY <1>3, CacCreateStep DEF LockDiscipline, Depth, Takes, InCheck, InCall
  <1>4. CASE CacFormat
    <2> USE <1>4 DEF CacFormat, Renegotiate
    <2>1. PlacesOK'  OBVIOUS
    <2>2. FormatsOK'  OBVIOUS
    <2>3. LocalsOK'  OBVIOUS
    <2>4. LockDiscipline'  BY DEF LockDiscipline, Depth, Takes, InCheck, InCall
    <2>5. QED  BY <2>1, <2>2, <2>3, <2>4, Kept
  <1>5. CASE CacKeep
    <2> USE <1>5 DEF CacKeep
    <2>1. PlacesOK'  OBVIOUS
    <2>2. LocalsOK'  OBVIOUS
    <2>3. LockDiscipline'  BY DEF LockDiscipline, Depth, Takes, InCheck, InCall
    <2>4. QED  BY <2>1, <2>2, <2>3, Kept
  <1>6. CASE RelUnlock
    <2> USE <1>6 DEF RelUnlock
    <2>1. PlacesOK'  OBVIOUS
    <2>2. LocksOK'  BY DEF LockDiscipline, Depth, Takes, InCheck, InCall
    <2>3. LockDiscipline'  BY DEF LockDiscipline, Depth, Takes, InCheck, InCall
    <2>4. QED  BY <2>1, <2>2, <2>3, Kept
  <1>7. CASE RelPause
    <2> USE <1>7 DEF RelPause, PauseAsk, PauseSet, PauseAck
    <2>1. PlacesOK'  OBVIOUS
    <2>2. HandshakeOK'  OBVIOUS
    <2>3. LockDiscipline'  BY DEF LockDiscipline, Depth, Takes, InCheck, InCall
    <2>4. QED  BY <2>1, <2>2, <2>3, Kept
  <1>8. CASE RelLock
    <2> USE <1>8 DEF RelLock
    <2>1. PlacesOK'  OBVIOUS
    <2>2. LocksOK'  BY DEF LockDiscipline, Depth, Takes, InCheck, InCall
    <2>3. LockDiscipline'  BY DEF LockDiscipline, Depth, Takes, InCheck, InCall
    <2>4. QED  BY <2>1, <2>2, <2>3, Kept
  <1>9. CASE RelDrop
    <2> USE <1>9 DEF RelDrop
    <2>1. PlacesOK'  OBVIOUS
    <2>2. ClientOK'  OBVIOUS
    <2>3. FormatsOK'  OBVIOUS
    <2>4. LocalsOK'  OBVIOUS
    <2>5. LockDiscipline'  BY DEF LockDiscipline, Depth, Takes, InCheck, InCall
    <2>6. QED  BY <2>1, <2>2, <2>3, <2>4, <2>5, Kept
  <1>10. CASE CacInit
    <2> USE <1>10 DEF CacInit, ClientRefused
    <2>1. PlacesOK'  OBVIOUS
    <2>2. ClientOK'  OBVIOUS
    <2>3. LocalsOK'  OBVIOUS
    <2>4. LockDiscipline'  BY DEF LockDiscipline, Depth, Takes, InCheck, InCall
    <2>5. QED  BY <2>1, <2>2, <2>3, <2>4, Kept
  <1>11. CASE CrcAlign
    <2> USE <1>11 DEF CrcAlign, PauseAsk, PauseSet, PauseAck, ClientRefused
    <2>1. PlacesOK'  OBVIOUS
    <2>2. HandshakeOK'  OBVIOUS
    <2>3. ClientOK'  OBVIOUS
    <2>4. LocalsOK'  OBVIOUS
    <2>5. LockDiscipline'  BY DEF LockDiscipline, Depth, Takes, InCheck, InCall
    <2>6. QED  BY <2>1, <2>2, <2>3, <2>4, <2>5, Kept
  <1>12. CASE CrcCreate
    <2> USE <1>12 DEF CrcCreate
    <2>1. PlacesOK'  OBVIOUS
    <2>2. FlowOK'  BY Closure
    <2>3. ClientOK'  OBVIOUS
    <2>4. FormatsOK'  OBVIOUS
    <2>5. LocalsOK'  OBVIOUS
    <2>6. LockDiscipline'  BY DEF LockDiscipline, Depth, Takes, InCheck, InCall
    <2>7. QED  BY <2>1, <2>2, <2>3, <2>4, <2>5, <2>6, Kept
  <1>13. CASE CrcStart
    <2> USE <1>13 DEF CrcStart, StartRendererThread, ResumeAck
    <2>1. PlacesOK'  OBVIOUS
    <2>2. HandshakeOK'  OBVIOUS
    <2>3. LockDiscipline'  BY DEF LockDiscipline, Depth, Takes, InCheck, InCall
    <2>4. QED  BY <2>1, <2>2, <2>3, Kept
  <1>14. CASE CacReturn
    <2> USE <1>14 DEF CacReturn
    <2>1. PlacesOK'  OBVIOUS
    <2>2. LocksOK'  BY DEF LockDiscipline, Depth, Takes, InCheck, InCall
    <2>3. FormatsOK'  OBVIOUS
    <2>4. LocalsOK'  OBVIOUS
    <2>5. LockDiscipline'  BY DEF LockDiscipline, Depth, Takes, InCheck, InCall
    <2>6. QED  BY <2>1, <2>2, <2>3, <2>4, <2>5, Kept
  <1>15. QED
    BY <1>1, <1>2, <1>3, <1>4, <1>5, <1>6, <1>7, <1>8, <1>9, <1>10, <1>11, <1>12, <1>13,
       <1>14 DEF CheckAudioClient

LEMMA ReinitializeKeepsTypes ==
  ASSUME TypeOK, LockDiscipline,
         ReinitializeAudioDevice
  PROVE  TypeOK' /\ LockDiscipline'
  <1> USE NullAssumption DEF Goto, Step, Branch, HasThread, LockRender, UnlockRender, Free,
     TypeOK, PlacesOK, LocksOK, HandshakeOK, FlowOK, ClientOK, FormatsOK, RequestsOK,
     ControlOK, LocalsOK, Labels, Threads, locks, handshake, flow, client, formats,
     requests, control, locals
  <1>1. CASE RePause
    <2> USE <1>1 DEF RePause, PauseAsk, PauseSet, PauseAck
    <2>1. PlacesOK'  OBVIOUS
    <2>2. HandshakeOK'  OBVIOUS
    <2>3. LockDiscipline'  BY DEF LockDiscipline, Depth, Takes, InCheck, InCall
    <2>4. QED  BY <2>1, <2>2, <2>3, Kept
  <1>2. CASE ReLock
    <2> USE <1>2 DEF ReLock
    <2>1. PlacesOK'  OBVIOUS
    <2>2. LocksOK'  BY DEF LockDiscipline, Depth, Takes, InCheck, InCall
    <2>3. LockDiscipline'  BY DEF LockDiscipline, Depth, Takes, InCheck, InCall
    <2>4. QED  BY <2>1, <2>2, <2>3, Kept
  <1>3. CASE ReDrop
    <2> USE <1>3 DEF ReDrop
    <2>1. PlacesOK'  OBVIOUS
    <2>2. ClientOK'  OBVIOUS
    <2>3. FormatsOK'  OBVIOUS
    <2>4. LockDiscipline'  BY DEF LockDiscipline, Depth, Takes, InCheck, InCall
    <2>5. QED  BY <2>1, <2>2, <2>3, <2>4, Kept
  <1>4. CASE ReCreate
    BY <1>4, ReCreateStep DEF LockDiscipline, Depth, Takes, InCheck, InCall
  <1>5. CASE ReCheck
    <2> USE <1>5 DEF ReCheck, Call
    <2>1. PlacesOK'  OBVIOUS
    <2>2. LocalsOK'  OBVIOUS
    <2>3. LockDiscipline'  BY DEF LockDiscipline, Depth, Takes, InCheck, InCall
    <2>4. QED  BY <2>1, <2>2, <2>3, Kept
  <1>6. CASE ReDone
    <2> USE <1>6 DEF ReDone
    <2>1. PlacesOK'  OBVIOUS
    <2>2. LocksOK'  BY DEF LockDiscipline, Depth, Takes, InCheck, InCall
    <2>3. RequestsOK'  BY Closure
    <2>4. LocalsOK'  OBVIOUS
    <2>5. LockDiscipline'  BY DEF LockDiscipline, Depth, Takes, InCheck, InCall
    <2>6. QED  BY <2>1, <2>2, <2>3, <2>4, <2>5, Kept
  <1>7. QED
    BY <1>1, <1>2, <1>3, <1>4, <1>5, <1>6 DEF ReinitializeAudioDevice

LEMMA StreamingKeepsTypes ==
  ASSUME TypeOK, LockDiscipline,
         Streaming
  PROVE  TypeOK' /\ LockDiscipline'
  <1> USE NullAssumption DEF Goto, Step, Branch, HasThread, LockRender, UnlockRender, Free,
     TypeOK, PlacesOK, LocksOK, HandshakeOK, FlowOK, ClientOK, FormatsOK, RequestsOK,
     ControlOK, LocalsOK, Labels, Threads, locks, handshake, flow, client, formats,
     requests, control, locals
  <1>0. CASE PrepareReceive
    BY <1>0, PrepareReceiveStep DEF LockDiscipline, Depth, Takes, InCheck, InCall
  <1>1. CASE Transform
    <2> USE <1>1 DEF Transform
    <2>1. PlacesOK'  OBVIOUS
    <2>2. LocalsOK'  OBVIOUS
    <2>3. LockDiscipline'  BY DEF LockDiscipline, Depth, Takes, InCheck, InCall
    <2>4. QED  BY <2>1, <2>2, <2>3, Kept
  <1>2. CASE TReinit
    <2> USE <1>2 DEF TReinit
    <2>1. PlacesOK'  OBVIOUS
    <2>2. LockDiscipline'  BY DEF LockDiscipline, Depth, Takes, InCheck, InCall
    <2>3. QED  BY <2>1, <2>2, Kept
  <1>3. CASE TStatus
    <2> USE <1>3 DEF TStatus, CheckBufferStatus
    <2>1. PlacesOK'  OBVIOUS
    <2>2. FlowOK'  BY Closure
    <2>3. LockDiscipline'  BY DEF LockDiscipline, Depth, Takes, InCheck, InCall
    <2>4. QED  BY <2>1, <2>2, <2>3, Kept
  <1>4. CASE TWait
    <2> USE <1>4 DEF TWait
    <2>1. PlacesOK'  OBVIOUS
    <2>2. LockDiscipline'  BY DEF LockDiscipline, Depth, Takes, InCheck, InCall
    <2>3. QED  BY <2>1, <2>2, Kept
  <1>5. CASE TRender
    <2> USE <1>5 DEF TRender
    <2>1. PlacesOK'  OBVIOUS
    <2>2. ClientOK'  OBVIOUS
    <2>3. LockDiscipline'  BY DEF LockDiscipline, Depth, Takes, InCheck, InCall
    <2>4. QED  BY <2>1, <2>2, <2>3, Kept
  <1>6. CASE TCheck
    <2> USE <1>6 DEF TCheck, Call
    <2>1. PlacesOK'  OBVIOUS
    <2>2. LocalsOK'  OBVIOUS
    <2>3. LockDiscipline'  BY DEF LockDiscipline, Depth, Takes, InCheck, InCall
    <2>4. QED  BY <2>1, <2>2, <2>3, Kept
  <1>7. CASE TClient
    <2> USE <1>7 DEF TClient
    <2>1. PlacesOK'  OBVIOUS
    <2>2. FormatsOK'  OBVIOUS
    <2>3. LockDiscipline'  BY DEF LockDiscipline, Depth, Takes, InCheck, InCall
    <2>4. QED  BY <2>1, <2>2, <2>3, Kept
  <1>8. CASE TJitter
    <2> USE <1>8 DEF TJitter, Convertible
    <2>1. PlacesOK'  OBVIOUS
    <2>2. FlowOK'  BY Closure
    <2>3. LocalsOK'  OBVIOUS
    <2>4. LockDiscipline'  BY DEF LockDiscipline, Depth, Takes, InCheck, InCall
    <2>5. QED  BY <2>1, <2>2, <2>3, <2>4, Kept
  <1>9. CASE TQueue
    <2> USE <1>9 DEF TQueue, Convertible
    <2>1. PlacesOK'  OBVIOUS
    <2>2. FlowOK'  BY Closure
    <2>3. LockDiscipline'  BY DEF LockDiscipline, Depth, Takes, InCheck, InCall
    <2>4. QED  BY <2>1, <2>2, <2>3, Kept
  <1>10. CASE TStart
    <2> USE <1>10 DEF TStart, StartRendererThread, ResumeAck
    <2>1. PlacesOK'  OBVIOUS
    <2>2. HandshakeOK'  OBVIOUS
    <2>3. LockDiscipline'  BY DEF LockDiscipline, Depth, Takes, InCheck, InCall
    <2>4. QED  BY <2>1, <2>2, <2>3, Kept
  <1>11. CASE StartAudioClient("sc.client", "sc.check", "sc.lock", "sc.fill", "sc.start", "idle")
    <2>1. FlowOK' /\ RequestsOK'
      BY <1>11, RenderEffect, Closure DEF StartAudioClient, flow, requests
    <2> USE <1>11 DEF StartAudioClient, RenderWasapiBuffer, RenderCheck, RenderLock,
       FillBuffer, FillFails, Played, SetReinitializeAudioDevice
    <2>2. PlacesOK'  OBVIOUS
    <2>3. LocksOK'  BY DEF LockDiscipline, Depth, Takes, InCheck, InCall
    <2>4. ClientOK'  OBVIOUS
    <2>5. LockDiscipline'  BY DEF LockDiscipline, Depth, Takes, InCheck, InCall
    <2>6. QED  BY <2>1, <2>2, <2>3, <2>4, <2>5, Kept
  <1>12. CASE StartAudioClient("j.client", "j.check", "j.lock", "j.fill", "j.start", "t.queue")
    <2>1. FlowOK' /\ RequestsOK'
      BY <1>12, RenderEffect, Closure DEF StartAudioClient, flow, requests
    <2> USE <1>12 DEF StartAudioClient, RenderWasapiBuffer, RenderCheck, RenderLock,
       FillBuffer, FillFails, Played, SetReinitializeAudioDevice
    <2>2. PlacesOK'  OBVIOUS
    <2>3. LocksOK'  BY DEF LockDiscipline, Depth, Takes, InCheck, InCall
    <2>4. ClientOK'  OBVIOUS
    <2>5. LockDiscipline'  BY DEF LockDiscipline, Depth, Takes, InCheck, InCall
    <2>6. QED  BY <2>1, <2>2, <2>3, <2>4, <2>5, Kept
  <1>13. CASE WaitFinish
    <2> USE <1>13 DEF WaitFinish, StartReleaseTimer
    <2>1. PlacesOK'  OBVIOUS
    <2>2. ControlOK'  OBVIOUS
    <2>3. LockDiscipline'  BY DEF LockDiscipline, Depth, Takes, InCheck, InCall
    <2>4. QED  BY <2>1, <2>2, <2>3, Kept
  <1>14. CASE EndFlush("S", "eos.flush")
    <2> USE <1>14 DEF EndFlush
    <2>1. PlacesOK'  OBVIOUS
    <2>2. FlowOK'  BY Closure
    <2>3. ControlOK'  OBVIOUS
    <2>4. LockDiscipline'  BY DEF LockDiscipline, Depth, Takes, InCheck, InCall
    <2>5. QED  BY <2>1, <2>2, <2>3, <2>4, Kept
  <1>15. QED
    BY <1>0, <1>1, <1>2, <1>3, <1>4, <1>5, <1>6, <1>7, <1>8, <1>9, <1>10, <1>11, <1>12, <1>13,
       <1>14, ReinitializeKeepsTypes, CheckAudioClientKeepsTypes DEF Streaming

LEMMA UpstreamKeepsTypes ==
  ASSUME TypeOK, LockDiscipline,
         Upstream
  PROVE  TypeOK' /\ LockDiscipline'
  <1> USE NullAssumption DEF Goto, Step, Branch, HasThread, LockRender, UnlockRender, Free,
     TypeOK, PlacesOK, LocksOK, HandshakeOK, FlowOK, ClientOK, FormatsOK, RequestsOK,
     ControlOK, LocalsOK, Labels, Threads, locks, handshake, flow, client, formats,
     requests, control, locals
  <1>1. CASE ReceiveSample
    <2> USE <1>1 DEF ReceiveSample
    <2>1. PlacesOK'  OBVIOUS
    <2>2. LockDiscipline'  BY DEF LockDiscipline, Depth, Takes, InCheck, InCall
    <2>3. QED  BY <2>1, <2>2, Kept
  <1>2. CASE EndOfStream
    <2> USE <1>2 DEF EndOfStream, Convertible
    <2>1. PlacesOK'  OBVIOUS
    <2>2. FlowOK'  BY Closure
    <2>3. LockDiscipline'  BY DEF LockDiscipline, Depth, Takes, InCheck, InCall
    <2>4. QED  BY <2>1, <2>2, <2>3, Kept
  <1>3. CASE NewSegment
    <2> USE <1>3 DEF NewSegment, StartReleaseTimer
    <2>1. PlacesOK'  OBVIOUS
    <2>2. ControlOK'  OBVIOUS
    <2>3. LocalsOK'  OBVIOUS
    <2>4. LockDiscipline'  BY DEF LockDiscipline, Depth, Takes, InCheck, InCall
    <2>5. QED  BY <2>1, <2>2, <2>3, <2>4, Kept
  <1>4. ASSUME NEW f \in Format, Connect(f)
        PROVE  TypeOK' /\ LockDiscipline'
    BY <1>4, ConnectStep DEF LockDiscipline, Depth, Takes, InCheck, InCall
  <1>5. QED
    BY <1>1, <1>2, <1>3, <1>4 DEF Upstream

LEMMA ApplicationKeepsTypes ==
  ASSUME TypeOK, LockDiscipline,
         Application \/ ApplicationStep
  PROVE  TypeOK' /\ LockDiscipline'
  <1> USE NullAssumption DEF Goto, Step, Branch, HasThread, LockRender, UnlockRender, Free,
     TypeOK, PlacesOK, LocksOK, HandshakeOK, FlowOK, ClientOK, FormatsOK, RequestsOK,
     ControlOK, LocalsOK, Labels, Threads, locks, handshake, flow, client, formats,
     requests, control, locals
  <1>1. CASE Run
    <2> USE <1>1 DEF Run
    <2>1. PlacesOK'  OBVIOUS
    <2>2. ControlOK'  OBVIOUS
    <2>3. LockDiscipline'  BY DEF LockDiscipline, Depth, Takes, InCheck, InCall
    <2>4. QED  BY <2>1, <2>2, <2>3, Kept
  <1>2. CASE RunEndTimer
    <2> USE <1>2 DEF RunEndTimer
    <2>1. PlacesOK'  OBVIOUS
    <2>2. ControlOK'  OBVIOUS
    <2>3. LockDiscipline'  BY DEF LockDiscipline, Depth, Takes, InCheck, InCall
    <2>4. QED  BY <2>1, <2>2, <2>3, Kept
  <1>3. CASE RunMore
    <2> USE <1>3 DEF RunMore, StartReleaseTimer
    <2>1. PlacesOK'  OBVIOUS
    <2>2. FlowOK'  BY Closure
    <2>3. ControlOK'  OBVIOUS
    <2>4. LocalsOK'  OBVIOUS
    <2>5. LockDiscipline'  BY DEF LockDiscipline, Depth, Takes, InCheck, InCall
    <2>6. QED  BY <2>1, <2>2, <2>3, <2>4, <2>5, Kept
  <1>4. CASE RunSlave
    <2> USE <1>4 DEF RunSlave
    <2>1. PlacesOK'  OBVIOUS
    <2>2. LockDiscipline'  BY DEF LockDiscipline, Depth, Takes, InCheck, InCall
    <2>3. QED  BY <2>1, <2>2, Kept
  <1>5. CASE Pause
    <2> USE <1>5 DEF Pause, Leave, StartReleaseTimer
    <2>1. PlacesOK'  OBVIOUS
    <2>2. FlowOK'  BY Closure
    <2>3. ControlOK'  OBVIOUS
    <2>4. LockDiscipline'  BY DEF LockDiscipline, Depth, Takes, InCheck, InCall
    <2>5. QED  BY <2>1, <2>2, <2>3, <2>4, Kept
  <1>6. CASE Stop
    <2> USE <1>6 DEF Stop, Leave, StartReleaseTimer
    <2>1. PlacesOK'  OBVIOUS
    <2>2. FlowOK'  BY Closure
    <2>3. ControlOK'  OBVIOUS
    <2>4. LockDiscipline'  BY DEF LockDiscipline, Depth, Takes, InCheck, InCall
    <2>5. QED  BY <2>1, <2>2, <2>3, <2>4, Kept
  <1>7. CASE StopReturn
    <2> USE <1>7 DEF StopReturn
    <2>1. PlacesOK'  OBVIOUS
    <2>2. LockDiscipline'  BY DEF LockDiscipline, Depth, Takes, InCheck, InCall
    <2>3. QED  BY <2>1, <2>2, Kept
  <1>8. CASE BeginFlush
    <2> USE <1>8 DEF BeginFlush
    <2>1. PlacesOK'  OBVIOUS
    <2>2. FlowOK'  BY Closure
    <2>3. ControlOK'  OBVIOUS
    <2>4. LockDiscipline'  BY DEF LockDiscipline, Depth, Takes, InCheck, InCall
    <2>5. QED  BY <2>1, <2>2, <2>3, <2>4, Kept
  <1>9. CASE FlushReceive
    <2> USE <1>9 DEF FlushReceive
    <2>1. PlacesOK'  OBVIOUS
    <2>2. LockDiscipline'  BY DEF LockDiscipline, Depth, Takes, InCheck, InCall
    <2>3. QED  BY <2>1, <2>2, Kept
  <1>10. CASE EndFlush("A", "flush.end")
    <2> USE <1>10 DEF EndFlush
    <2>1. PlacesOK'  OBVIOUS
    <2>2. FlowOK'  BY Closure
    <2>3. ControlOK'  OBVIOUS
    <2>4. LockDiscipline'  BY DEF LockDiscipline, Depth, Takes, InCheck, InCall
    <2>5. QED  BY <2>1, <2>2, <2>3, <2>4, Kept
  <1>11. QED
    BY <1>1, <1>2, <1>3, <1>4, <1>5, <1>6, <1>7, <1>8, <1>9, <1>10 DEF Application,
       ApplicationStep

LEMMA ReleaseKeepsTypes ==
  ASSUME TypeOK, LockDiscipline,
         TimerFires \/ ReleaseDevice \/ DeviceTick \/ Change
  PROVE  TypeOK' /\ LockDiscipline'
  <1> USE NullAssumption DEF Goto, Step, Branch, HasThread, LockRender, UnlockRender, Free,
     TypeOK, PlacesOK, LocksOK, HandshakeOK, FlowOK, ClientOK, FormatsOK, RequestsOK,
     ControlOK, LocalsOK, Labels, Threads, locks, handshake, flow, client, formats,
     requests, control, locals
  <1>1. CASE TimerFires
    <2> USE <1>1 DEF TimerFires
    <2>1. PlacesOK'  OBVIOUS
    <2>2. ControlOK'  OBVIOUS
    <2>3. LockDiscipline'  BY DEF LockDiscipline, Depth, Takes, InCheck, InCall
    <2>4. QED  BY <2>1, <2>2, <2>3, Kept
  <1>2. CASE RdLock
    <2> USE <1>2 DEF RdLock
    <2>1. PlacesOK'  OBVIOUS
    <2>2. LocksOK'  BY DEF LockDiscipline, Depth, Takes, InCheck, InCall
    <2>3. FormatsOK'  OBVIOUS
    <2>4. LockDiscipline'  BY DEF LockDiscipline, Depth, Takes, InCheck, InCall
    <2>5. QED  BY <2>1, <2>2, <2>3, <2>4, Kept
  <1>3. CASE RdPause
    <2> USE <1>3 DEF RdPause, PauseAsk, PauseSet, PauseAck
    <2>1. PlacesOK'  OBVIOUS
    <2>2. HandshakeOK'  OBVIOUS
    <2>3. LockDiscipline'  BY DEF LockDiscipline, Depth, Takes, InCheck, InCall
    <2>4. QED  BY <2>1, <2>2, <2>3, Kept
  <1>4. CASE RdDrop
    <2> USE <1>4 DEF RdDrop
    <2>1. PlacesOK'  OBVIOUS
    <2>2. LocksOK'  BY DEF LockDiscipline, Depth, Takes, InCheck, InCall
    <2>3. ClientOK'  OBVIOUS
    <2>4. ControlOK'  OBVIOUS
    <2>5. LockDiscipline'  BY DEF LockDiscipline, Depth, Takes, InCheck, InCall
    <2>6. QED  BY <2>1, <2>2, <2>3, <2>4, <2>5, Kept
  <1>5. CASE DeviceTick
    <2> USE <1>5 DEF DeviceTick
    <2>1. PlacesOK'  OBVIOUS
    <2>2. FlowOK'  BY Closure
    <2>3. LockDiscipline'  BY DEF LockDiscipline, Depth, Takes, InCheck, InCall
    <2>4. QED  BY <2>1, <2>2, <2>3, Kept
  <1>6. CASE Change
    <2> USE <1>6 DEF Change, SetReinitializeAudioDevice
    <2>1. PlacesOK'  OBVIOUS
    <2>2. FlowOK'  BY Closure
    <2>3. FormatsOK'  OBVIOUS
    <2>4. RequestsOK'  BY Closure
    <2>5. LockDiscipline'  BY DEF LockDiscipline, Depth, Takes, InCheck, InCall
    <2>6. QED  BY <2>1, <2>2, <2>3, <2>4, <2>5, Kept
  <1>7. QED
    BY <1>1, <1>2, <1>3, <1>4, <1>5, <1>6 DEF ReleaseDevice

-----------------------------------------------------------------------------
(***************************************************************************)
(* For all settings and bounds: every variable keeps its type, and the     *)
(* threads take and release m_csRender and m_csCheck as their places in    *)
(* the code say (CheckAudioClient, ReinitializeAudioDevice, ReleaseDevice, *)
(* RenderWasapiBuffer).                                                    *)
(***************************************************************************)
THEOREM TypesAndLocks == Spec => [](TypeOK /\ LockDiscipline)
  <1>1. Init => TypeOK /\ LockDiscipline
    <2> SUFFICES ASSUME Init PROVE TypeOK /\ LockDiscipline
      OBVIOUS
    <2> USE NullAssumption, SettingsAssumption DEF Init, Free, Threads
    <2>1. PlacesOK  BY DEF PlacesOK, Labels
    <2>2. LocksOK /\ HandshakeOK /\ RequestsOK  BY DEF LocksOK, HandshakeOK, RequestsOK
    <2>3. FlowOK /\ ClientOK  BY Closure DEF FlowOK, ClientOK
    <2>4. FormatsOK /\ ControlOK /\ LocalsOK  BY DEF FormatsOK, ControlOK, LocalsOK
    <2>5. LockDiscipline  BY DEF LockDiscipline, Depth, Takes, InCheck, InCall
    <2>6. QED  BY <2>1, <2>2, <2>3, <2>4, <2>5 DEF TypeOK
  <1>2. TypeOK /\ LockDiscipline /\ [Next]_vars => (TypeOK /\ LockDiscipline)'
    <2>1. SUFFICES ASSUME TypeOK, LockDiscipline, [Next]_vars
                   PROVE  TypeOK' /\ LockDiscipline'
      OBVIOUS
    <2>2. CASE Next
      BY <2>1, <2>2, RenderThreadKeepsTypes, StreamingKeepsTypes, UpstreamKeepsTypes,
         ApplicationKeepsTypes, ReleaseKeepsTypes DEF Next
    <2>3. CASE UNCHANGED vars
      <3>1. TypeOK'
        BY <2>1, <2>3, Kept DEF vars, TypeOK
      <3>2. LockDiscipline'
        BY <2>1, <2>3 DEF vars, locks, locals, LockDiscipline, Depth
      <3>3. QED
        BY <3>1, <3>2
    <2>4. QED
      BY <2>1, <2>2, <2>3
  <1>3. QED
    BY <1>1, <1>2, PTL DEF Spec

(***************************************************************************)
(* For all settings and bounds: every variable keeps its type.             *)
(***************************************************************************)
THEOREM TypeCorrect == Spec => []TypeOK
  BY TypesAndLocks, PTL

(***************************************************************************)
(* For all settings and bounds: m_csRender is held by the thread and to    *)
(* the depth that its place in the code tells.                             *)
(***************************************************************************)
THEOREM LocksCorrect == Spec => []LockDiscipline
  BY TypesAndLocks, PTL

-----------------------------------------------------------------------------
(***************************************************************************)
(* The clients and the formats, thread by thread, for all settings.        *)
(***************************************************************************)

LEMMA RenderThreadKeepsClients ==
  ASSUME TypeOK, LockDiscipline, ClientsWhole, FormatsAgree,
         RenderThread
  PROVE  ClientsWhole' /\ FormatsAgree'
  <1> USE NullAssumption DEF Goto, Step, Branch, HasThread, LockRender, UnlockRender, Free,
     TypeOK, PlacesOK, Threads, client, formats, locals, ClientsWhole, FormatsAgree, InRelease,
     InCreate, InStart
  <1>1. CASE RTop
    BY <1>1 DEF RTop, CheckBufferStatus
  <1>2. CASE RRender
    BY <1>2 DEF RRender, RenderWasapiBuffer, RenderCheck, RenderLock, FillBuffer,
       FillFails, Played, SetReinitializeAudioDevice, AfterFill
  <1>3. CASE RData
    BY <1>3 DEF RData
  <1>4. CASE RTimeout
    BY <1>4 DEF RTimeout, SetReinitializeAudioDevice
  <1>5. CASE RPause
    BY <1>5 DEF RPause
  <1>6. CASE RParkFlag
    BY <1>6 DEF RParkFlag
  <1>7. CASE RParkAnswer
    BY <1>7 DEF RParkAnswer, RParkReset, RParkAck
  <1>8. CASE RParked
    BY <1>8 DEF RParked
  <1>9. CASE RKeepActive
    BY <1>9 DEF RKeepActive, RenderWasapiBuffer, RenderCheck, RenderLock, FillBuffer,
       FillFails, Played, SetReinitializeAudioDevice
  <1>10. CASE RKeepTimeout
    BY <1>10 DEF RKeepTimeout
  <1>11. CASE RResume
    BY <1>11 DEF RResume
  <1>12. QED
    BY <1>1, <1>2, <1>3, <1>4, <1>5, <1>6, <1>7, <1>8, <1>9, <1>10, <1>11 DEF RenderThread

LEMMA CheckAudioClientKeepsClients ==
  ASSUME TypeOK, LockDiscipline, ClientsWhole, FormatsAgree,
         CheckAudioClient
  PROVE  ClientsWhole' /\ FormatsAgree'
  <1> USE NullAssumption, FormatAssumption DEF Goto, Step, Branch, HasThread, LockRender, UnlockRender, Free,
     TypeOK, PlacesOK, LocalsOK, Threads, client, formats, locals, ClientsWhole, FormatsAgree, InRelease,
     InCreate, InStart
  <1>1. CASE CacEnter
    BY <1>1 DEF CacEnter
  <1>2. CASE CacLock
    BY <1>2 DEF CacLock
  <1>3. CASE CacCreate
    BY <1>3, CacCreateStep
  <1>4. CASE CacFormat
    BY <1>4 DEF CacFormat, Renegotiate
  <1>5. CASE CacKeep
    BY <1>5 DEF CacKeep, Renegotiate
  <1>6. CASE RelUnlock
    BY <1>6 DEF RelUnlock
  <1>7. CASE RelPause
    BY <1>7 DEF RelPause, PauseAsk, PauseSet, PauseAck
  <1>8. CASE RelLock
    BY <1>8 DEF RelLock
  <1>9. CASE RelDrop
    BY <1>9 DEF RelDrop
  <1>10. CASE CacInit
    BY <1>10 DEF CacInit, ClientRefused
  <1>11. CASE CrcAlign
    BY <1>11 DEF CrcAlign, PauseAsk, PauseSet, PauseAck, ClientRefused
  <1>12. CASE CrcCreate
    BY <1>12 DEF CrcCreate
  <1>13. CASE CrcStart
    BY <1>13 DEF CrcStart, StartRendererThread, ResumeAck
  <1>14. CASE CacReturn
    BY <1>14 DEF CacReturn
  <1>15. QED
    BY <1>1, <1>2, <1>3, <1>4, <1>5, <1>6, <1>7, <1>8, <1>9, <1>10, <1>11, <1>12, <1>13,
       <1>14 DEF CheckAudioClient

LEMMA ReinitializeKeepsClients ==
  ASSUME TypeOK, LockDiscipline, ClientsWhole, FormatsAgree,
         ReinitializeAudioDevice
  PROVE  ClientsWhole' /\ FormatsAgree'
  <1> USE NullAssumption DEF Goto, Step, Branch, HasThread, LockRender, UnlockRender, Free,
     TypeOK, PlacesOK, Threads, client, formats, locals, ClientsWhole, FormatsAgree, InRelease,
     InCreate, InStart
  <1>1. CASE RePause
    BY <1>1 DEF RePause, PauseAsk, PauseSet, PauseAck
  <1>2. CASE ReLock
    BY <1>2 DEF ReLock
  <1>3. CASE ReDrop
    BY <1>3 DEF ReDrop
  <1>4. CASE ReCreate
    BY <1>4, ReCreateStep
  <1>5. CASE ReCheck
    BY <1>5 DEF ReCheck, Call
  <1>6. CASE ReDone
    BY <1>6 DEF ReDone
  <1>7. QED
    BY <1>1, <1>2, <1>3, <1>4, <1>5, <1>6 DEF ReinitializeAudioDevice

LEMMA StreamingKeepsClients ==
  ASSUME TypeOK, LockDiscipline, ClientsWhole, FormatsAgree,
         Streaming
  PROVE  ClientsWhole' /\ FormatsAgree'
  <1> USE NullAssumption DEF Goto, Step, Branch, HasThread, LockRender, UnlockRender, Free,
     TypeOK, PlacesOK, Threads, client, formats, locals, ClientsWhole, FormatsAgree, InRelease,
     InCreate, InStart
  <1>0. CASE PrepareReceive
    BY <1>0, PrepareReceiveStep
  <1>1. CASE Transform
    BY <1>1 DEF Transform
  <1>2. CASE TReinit
    BY <1>2 DEF TReinit
  <1>3. CASE TStatus
    BY <1>3 DEF TStatus, CheckBufferStatus
  <1>4. CASE TWait
    BY <1>4 DEF TWait
  <1>5. CASE TRender
    BY <1>5 DEF TRender
  <1>6. CASE TCheck
    BY <1>6 DEF TCheck, Call
  <1>7. CASE TClient
    BY <1>7 DEF TClient
  <1>8. CASE TJitter
    BY <1>8 DEF TJitter
  <1>9. CASE TQueue
    BY <1>9 DEF TQueue
  <1>10. CASE TStart
    BY <1>10 DEF TStart, StartRendererThread, ResumeAck
  <1>11. CASE StartAudioClient("sc.client", "sc.check", "sc.lock", "sc.fill", "sc.start", "idle")
    BY <1>11 DEF StartAudioClient, RenderWasapiBuffer, RenderCheck, RenderLock, FillBuffer,
       FillFails, Played, SetReinitializeAudioDevice
  <1>12. CASE StartAudioClient("j.client", "j.check", "j.lock", "j.fill", "j.start", "t.queue")
    BY <1>12 DEF StartAudioClient, RenderWasapiBuffer, RenderCheck, RenderLock, FillBuffer,
       FillFails, Played, SetReinitializeAudioDevice
  <1>13. CASE WaitFinish
    BY <1>13 DEF WaitFinish, StartReleaseTimer
  <1>14. CASE EndFlush("S", "eos.flush")
    BY <1>14 DEF EndFlush
  <1>15. QED
    BY <1>0, <1>1, <1>2, <1>3, <1>4, <1>5, <1>6, <1>7, <1>8, <1>9, <1>10, <1>11, <1>12, <1>13,
       <1>14, ReinitializeKeepsClients, CheckAudioClientKeepsClients DEF Streaming

LEMMA UpstreamKeepsClients ==
  ASSUME TypeOK, LockDiscipline, ClientsWhole, FormatsAgree,
         Upstream
  PROVE  ClientsWhole' /\ FormatsAgree'
  <1> USE NullAssumption DEF Goto, Step, Branch, HasThread, LockRender, UnlockRender, Free,
     TypeOK, PlacesOK, Threads, client, formats, locals, ClientsWhole, FormatsAgree, InRelease,
     InCreate, InStart
  <1>1. CASE ReceiveSample
    BY <1>1 DEF ReceiveSample
  <1>2. CASE EndOfStream
    BY <1>2 DEF EndOfStream
  <1>3. CASE NewSegment
    BY <1>3 DEF NewSegment, StartReleaseTimer
  <1>4. ASSUME NEW f \in Format, Connect(f)
        PROVE  ClientsWhole' /\ FormatsAgree'
    BY <1>4, ConnectStep
  <1>5. QED
    BY <1>1, <1>2, <1>3, <1>4 DEF Upstream

LEMMA ApplicationKeepsClients ==
  ASSUME TypeOK, LockDiscipline, ClientsWhole, FormatsAgree,
         Application \/ ApplicationStep
  PROVE  ClientsWhole' /\ FormatsAgree'
  <1> USE NullAssumption DEF Goto, Step, Branch, HasThread, LockRender, UnlockRender, Free,
     TypeOK, PlacesOK, Threads, client, formats, locals, ClientsWhole, FormatsAgree, InRelease,
     InCreate, InStart
  <1>1. CASE Run
    BY <1>1 DEF Run
  <1>2. CASE RunEndTimer
    BY <1>2 DEF RunEndTimer
  <1>3. CASE RunMore
    BY <1>3 DEF RunMore, StartReleaseTimer
  <1>4. CASE RunSlave
    BY <1>4 DEF RunSlave
  <1>5. CASE Pause
    BY <1>5 DEF Pause, Leave, StartReleaseTimer
  <1>6. CASE Stop
    BY <1>6 DEF Stop, Leave, StartReleaseTimer
  <1>7. CASE StopReturn
    BY <1>7 DEF StopReturn
  <1>8. CASE BeginFlush
    BY <1>8 DEF BeginFlush
  <1>9. CASE FlushReceive
    BY <1>9 DEF FlushReceive
  <1>10. CASE EndFlush("A", "flush.end")
    BY <1>10 DEF EndFlush
  <1>11. QED
    BY <1>1, <1>2, <1>3, <1>4, <1>5, <1>6, <1>7, <1>8, <1>9, <1>10 DEF Application, ApplicationStep

LEMMA ReleaseKeepsClients ==
  ASSUME TypeOK, LockDiscipline, ClientsWhole, FormatsAgree,
         TimerFires \/ ReleaseDevice \/ DeviceTick \/ Change
  PROVE  ClientsWhole' /\ FormatsAgree'
  <1> USE NullAssumption DEF Goto, Step, Branch, HasThread, LockRender, UnlockRender, Free,
     TypeOK, PlacesOK, Threads, client, formats, locals, ClientsWhole, FormatsAgree, InRelease,
     InCreate, InStart
  <1>1. CASE TimerFires
    BY <1>1 DEF TimerFires
  <1>2. CASE RdLock
    BY <1>2 DEF RdLock
  <1>3. CASE RdPause
    BY <1>3 DEF RdPause, PauseAsk, PauseSet, PauseAck
  <1>4. CASE RdDrop
    <2>1. /\ pc["T"] = "rd.drop" /\ pc' = [pc EXCEPT !["T"] = "idle"]
          /\ renderClient' = (IF shared THEN renderClient ELSE NULL)
          /\ audioClient' = (audioClient /\ shared)
          /\ UNCHANGED <<outFmt, outParams, halfMade, after>>
      BY <1>4 DEF RdDrop
    <2>2. pc["S"] # "crc.create" /\ pc["S"] \notin InStart
      BY <2>1 DEF LockDiscipline, Depth, Takes
    <2>3. QED
      BY <2>1, <2>2
  <1>5. CASE DeviceTick
    BY <1>5 DEF DeviceTick
  <1>6. CASE Change
    BY <1>6 DEF Change, SetReinitializeAudioDevice
  <1>7. QED
    BY <1>1, <1>2, <1>3, <1>4, <1>5, <1>6 DEF ReleaseDevice

-----------------------------------------------------------------------------
(***************************************************************************)
(* For all settings, the timer and the pause loop that renders included: no*)
(* render client without its audio client and none made over another; and  *)
(* the client has the output format, except between CheckAudioClient's     *)
(* assignment to m_pWaveFormatExOutput and the drop in ReleaseAudio.       *)
(***************************************************************************)
THEOREM ClientsCorrect == Spec => [](ClientsWhole /\ FormatsAgree)
  <1>1. Init => ClientsWhole /\ FormatsAgree
    BY DEF Init, ClientsWhole, FormatsAgree, InRelease, InCreate, InStart, Threads
  <1>2. TypeOK /\ LockDiscipline /\ ClientsWhole /\ FormatsAgree /\ [Next]_vars
          => (ClientsWhole /\ FormatsAgree)'
    <2>1. SUFFICES ASSUME TypeOK, LockDiscipline, ClientsWhole, FormatsAgree, [Next]_vars
                   PROVE  ClientsWhole' /\ FormatsAgree'
      OBVIOUS
    <2>2. CASE Next
      BY <2>1, <2>2, RenderThreadKeepsClients, StreamingKeepsClients, UpstreamKeepsClients,
         ApplicationKeepsClients, ReleaseKeepsClients DEF Next
    <2>3. CASE UNCHANGED vars
      BY <2>1, <2>3 DEF vars, client, formats, locals, ClientsWhole, FormatsAgree
    <2>4. QED
      BY <2>1, <2>2, <2>3
  <1>3. QED
    BY <1>1, <1>2, TypesAndLocks, PTL DEF Spec

(***************************************************************************)
(* For all settings: FormatsAgree alone.                                   *)
(***************************************************************************)
THEOREM FormatsCorrect == Spec => []FormatsAgree
  BY ClientsCorrect, PTL

-----------------------------------------------------------------------------
(***************************************************************************)
(* The rendezvous and the clients in use, thread by thread, when no idle   *)
(* device is released.                                                     *)
(***************************************************************************)

LEMMA RenderThreadKeepsRendezvous ==
  ASSUME TypeOK, LockDiscipline, ClientsWhole, Rendezvous, ClientsLive, ~ReleaseDeviceIdle,
         RenderThread
  PROVE  Rendezvous' /\ ClientsLive'
  <1> USE NullAssumption DEF Goto, Step, Branch, HasThread, LockRender, UnlockRender, Free,
     KeepsActive, TypeOK, PlacesOK, HandshakeOK, ClientOK, FormatsOK, Threads, handshake,
     control, client, Rendezvous, ClientsLive, ClientsWhole, Pausing, Resuming, Active,
     Parking, Flagged, Keeping, Parked, Away, Holding, AlignmentNeverWaits
  <1>1. CASE RTop
    BY <1>1 DEF RTop, CheckBufferStatus
  <1>2. CASE RRender
    BY <1>2 DEF RRender, RenderWasapiBuffer, RenderCheck, RenderLock, FillBuffer,
       FillFails, Played, SetReinitializeAudioDevice, AfterFill
  <1>3. CASE RData
    BY <1>3 DEF RData
  <1>4. CASE RTimeout
    BY <1>4 DEF RTimeout, SetReinitializeAudioDevice
  <1>5. CASE RPause
    BY <1>5 DEF RPause
  <1>6. CASE RParkFlag
    BY <1>6 DEF RParkFlag
  <1>7. CASE RParkAnswer
    BY <1>7 DEF RParkAnswer, RParkReset, RParkAck
  <1>8. CASE RParked
    BY <1>8 DEF RParked
  <1>9. CASE RKeepActive
    BY <1>9 DEF RKeepActive, RenderWasapiBuffer, RenderCheck, RenderLock, FillBuffer,
       FillFails, Played, SetReinitializeAudioDevice
  <1>10. CASE RKeepTimeout
    BY <1>10 DEF RKeepTimeout
  <1>11. CASE RResume
    BY <1>11 DEF RResume
  <1>12. QED
    BY <1>1, <1>2, <1>3, <1>4, <1>5, <1>6, <1>7, <1>8, <1>9, <1>10, <1>11 DEF RenderThread

LEMMA CheckAudioClientKeepsRendezvous ==
  ASSUME TypeOK, LockDiscipline, ClientsWhole, Rendezvous, ClientsLive, ~ReleaseDeviceIdle,
         CheckAudioClient
  PROVE  Rendezvous' /\ ClientsLive'
  <1> USE NullAssumption DEF Goto, Step, Branch, HasThread, LockRender, UnlockRender, Free,
     KeepsActive, TypeOK, PlacesOK, HandshakeOK, ClientOK, FormatsOK, Threads, handshake,
     control, client, Rendezvous, ClientsLive, ClientsWhole, Pausing, Resuming, Active,
     Parking, Flagged, Keeping, Parked, Away, Holding, AlignmentNeverWaits
  <1>1. CASE CacEnter
    BY <1>1 DEF CacEnter
  <1>2. CASE CacLock
    BY <1>2 DEF CacLock
  <1>3. CASE CacCreate
    BY <1>3, CacCreateStep
  <1>4. CASE CacFormat
    BY <1>4 DEF CacFormat, Renegotiate
  <1>5. CASE CacKeep
    BY <1>5 DEF CacKeep, Renegotiate
  <1>6. CASE RelUnlock
    BY <1>6 DEF RelUnlock
  <1>7. CASE RelPause
    BY <1>7 DEF RelPause, PauseAsk, PauseSet, PauseAck
  <1>8. CASE RelLock
    BY <1>8 DEF RelLock
  <1>9. CASE RelDrop
    BY <1>9 DEF RelDrop
  <1>10. CASE CacInit
    BY <1>10 DEF CacInit, ClientRefused
  <1>11. CASE CrcAlign
    BY <1>11 DEF CrcAlign, PauseAsk, PauseSet, PauseAck, ClientRefused
  <1>12. CASE CrcCreate
    BY <1>12 DEF CrcCreate
  <1>13. CASE CrcStart
    BY <1>13 DEF CrcStart, StartRendererThread, ResumeAck
  <1>14. CASE CacReturn
    BY <1>14 DEF CacReturn
  <1>15. QED
    BY <1>1, <1>2, <1>3, <1>4, <1>5, <1>6, <1>7, <1>8, <1>9, <1>10, <1>11, <1>12, <1>13,
       <1>14 DEF CheckAudioClient

LEMMA ReinitializeKeepsRendezvous ==
  ASSUME TypeOK, LockDiscipline, ClientsWhole, Rendezvous, ClientsLive, ~ReleaseDeviceIdle,
         ReinitializeAudioDevice
  PROVE  Rendezvous' /\ ClientsLive'
  <1> USE NullAssumption DEF Goto, Step, Branch, HasThread, LockRender, UnlockRender, Free,
     KeepsActive, TypeOK, PlacesOK, HandshakeOK, ClientOK, FormatsOK, Threads, handshake,
     control, client, Rendezvous, ClientsLive, ClientsWhole, Pausing, Resuming, Active,
     Parking, Flagged, Keeping, Parked, Away, Holding, AlignmentNeverWaits
  <1>1. CASE RePause
    BY <1>1 DEF RePause, PauseAsk, PauseSet, PauseAck
  <1>2. CASE ReLock
    BY <1>2 DEF ReLock
  <1>3. CASE ReDrop
    BY <1>3 DEF ReDrop
  <1>4. CASE ReCreate
    BY <1>4, ReCreateStep
  <1>5. CASE ReCheck
    BY <1>5 DEF ReCheck, Call
  <1>6. CASE ReDone
    BY <1>6 DEF ReDone
  <1>7. QED
    BY <1>1, <1>2, <1>3, <1>4, <1>5, <1>6 DEF ReinitializeAudioDevice

LEMMA StreamingKeepsRendezvous ==
  ASSUME TypeOK, LockDiscipline, ClientsWhole, Rendezvous, ClientsLive, ~ReleaseDeviceIdle,
         Streaming
  PROVE  Rendezvous' /\ ClientsLive'
  <1> USE NullAssumption DEF Goto, Step, Branch, HasThread, LockRender, UnlockRender, Free,
     KeepsActive, TypeOK, PlacesOK, HandshakeOK, ClientOK, FormatsOK, Threads, handshake,
     control, client, Rendezvous, ClientsLive, ClientsWhole, Pausing, Resuming, Active,
     Parking, Flagged, Keeping, Parked, Away, Holding, AlignmentNeverWaits
  <1>0. CASE PrepareReceive
    BY <1>0, PrepareReceiveStep
  <1>1. CASE Transform
    BY <1>1 DEF Transform
  <1>2. CASE TReinit
    BY <1>2 DEF TReinit
  <1>3. CASE TStatus
    BY <1>3 DEF TStatus, CheckBufferStatus
  <1>4. CASE TWait
    BY <1>4 DEF TWait
  <1>5. CASE TRender
    BY <1>5 DEF TRender
  <1>6. CASE TCheck
    BY <1>6 DEF TCheck, Call
  <1>7. CASE TClient
    BY <1>7 DEF TClient
  <1>8. CASE TJitter
    BY <1>8 DEF TJitter
  <1>9. CASE TQueue
    BY <1>9 DEF TQueue
  <1>10. CASE TStart
    BY <1>10 DEF TStart, StartRendererThread, ResumeAck
  <1>11. CASE StartAudioClient("sc.client", "sc.check", "sc.lock", "sc.fill", "sc.start", "idle")
    BY <1>11 DEF StartAudioClient, RenderWasapiBuffer, RenderCheck, RenderLock, FillBuffer,
       FillFails, Played, SetReinitializeAudioDevice
  <1>12. CASE StartAudioClient("j.client", "j.check", "j.lock", "j.fill", "j.start", "t.queue")
    BY <1>12 DEF StartAudioClient, RenderWasapiBuffer, RenderCheck, RenderLock, FillBuffer,
       FillFails, Played, SetReinitializeAudioDevice
  <1>13. CASE WaitFinish
    BY <1>13 DEF WaitFinish, StartReleaseTimer
  <1>14. CASE EndFlush("S", "eos.flush")
    BY <1>14 DEF EndFlush
  <1>15. QED
    BY <1>0, <1>1, <1>2, <1>3, <1>4, <1>5, <1>6, <1>7, <1>8, <1>9, <1>10, <1>11, <1>12, <1>13,
       <1>14, ReinitializeKeepsRendezvous, CheckAudioClientKeepsRendezvous DEF Streaming

LEMMA UpstreamKeepsRendezvous ==
  ASSUME TypeOK, LockDiscipline, ClientsWhole, Rendezvous, ClientsLive, ~ReleaseDeviceIdle,
         Upstream
  PROVE  Rendezvous' /\ ClientsLive'
  <1> USE NullAssumption DEF Goto, Step, Branch, HasThread, LockRender, UnlockRender, Free,
     KeepsActive, TypeOK, PlacesOK, HandshakeOK, ClientOK, FormatsOK, Threads, handshake,
     control, client, Rendezvous, ClientsLive, ClientsWhole, Pausing, Resuming, Active,
     Parking, Flagged, Keeping, Parked, Away, Holding, AlignmentNeverWaits
  <1>1. CASE ReceiveSample
    BY <1>1 DEF ReceiveSample
  <1>2. CASE EndOfStream
    BY <1>2 DEF EndOfStream
  <1>3. CASE NewSegment
    BY <1>3 DEF NewSegment, StartReleaseTimer
  <1>4. ASSUME NEW f \in Format, Connect(f)
        PROVE  Rendezvous' /\ ClientsLive'
    BY <1>4, ConnectStep
  <1>5. QED
    BY <1>1, <1>2, <1>3, <1>4 DEF Upstream

LEMMA ApplicationKeepsRendezvous ==
  ASSUME TypeOK, LockDiscipline, ClientsWhole, Rendezvous, ClientsLive, ~ReleaseDeviceIdle,
         Application \/ ApplicationStep
  PROVE  Rendezvous' /\ ClientsLive'
  <1> USE NullAssumption DEF Goto, Step, Branch, HasThread, LockRender, UnlockRender, Free,
     KeepsActive, TypeOK, PlacesOK, HandshakeOK, ClientOK, FormatsOK, Threads, handshake,
     control, client, Rendezvous, ClientsLive, ClientsWhole, Pausing, Resuming, Active,
     Parking, Flagged, Keeping, Parked, Away, Holding, AlignmentNeverWaits
  <1>1. CASE Run
    BY <1>1 DEF Run
  <1>2. CASE RunEndTimer
    BY <1>2 DEF RunEndTimer
  <1>3. CASE RunMore
    BY <1>3 DEF RunMore, StartReleaseTimer
  <1>4. CASE RunSlave
    BY <1>4 DEF RunSlave
  <1>5. CASE Pause
    BY <1>5 DEF Pause, Leave, StartReleaseTimer
  <1>6. CASE Stop
    BY <1>6 DEF Stop, Leave, StartReleaseTimer
  <1>7. CASE StopReturn
    BY <1>7 DEF StopReturn
  <1>8. CASE BeginFlush
    BY <1>8 DEF BeginFlush
  <1>9. CASE FlushReceive
    BY <1>9 DEF FlushReceive
  <1>10. CASE EndFlush("A", "flush.end")
    BY <1>10 DEF EndFlush
  <1>11. QED
    BY <1>1, <1>2, <1>3, <1>4, <1>5, <1>6, <1>7, <1>8, <1>9, <1>10 DEF Application, ApplicationStep

LEMMA ReleaseKeepsRendezvous ==
  ASSUME TypeOK, LockDiscipline, ClientsWhole, Rendezvous, ClientsLive, ~ReleaseDeviceIdle,
         TimerFires \/ ReleaseDevice \/ DeviceTick \/ Change
  PROVE  Rendezvous' /\ ClientsLive'
  <1> USE NullAssumption DEF Goto, Step, Branch, HasThread, LockRender, UnlockRender, Free,
     KeepsActive, TypeOK, PlacesOK, HandshakeOK, ClientOK, FormatsOK, Threads, handshake,
     control, client, Rendezvous, ClientsLive, ClientsWhole, Pausing, Resuming, Active,
     Parking, Flagged, Keeping, Parked, Away, Holding, AlignmentNeverWaits
  <1>1. CASE TimerFires
    BY <1>1 DEF TimerFires
  <1>2. CASE RdLock
    BY <1>2 DEF RdLock
  <1>3. CASE RdPause
    BY <1>3 DEF RdPause, PauseAsk, PauseSet, PauseAck
  <1>4. CASE RdDrop
    BY <1>4 DEF RdDrop
  <1>5. CASE DeviceTick
    BY <1>5 DEF DeviceTick
  <1>6. CASE Change
    BY <1>6 DEF Change, SetReinitializeAudioDevice
  <1>7. QED
    BY <1>1, <1>2, <1>3, <1>4, <1>5, <1>6 DEF ReleaseDevice

-----------------------------------------------------------------------------
(***************************************************************************)
(* Without an idle release: a request of PauseRendererThread or            *)
(* StartRendererThread is pending in one form only, no event is left over  *)
(* from an earlier one, and the clients of a thread that renders are there.*)
(***************************************************************************)
THEOREM RendezvousCorrect ==
  ASSUME ~ReleaseDeviceIdle
  PROVE  Spec => [](Rendezvous /\ ClientsLive)
  <1>1. Init => Rendezvous /\ ClientsLive
    BY NullAssumption
       DEF Init, Rendezvous, ClientsLive, ClientsWhole, Pausing, Resuming, Active, Parking,
           Flagged, Keeping, Parked, Away, Holding, AlignmentNeverWaits, Threads
  <1>2. TypeOK /\ LockDiscipline /\ Rendezvous /\ ClientsLive /\ [Next]_vars
          => (Rendezvous /\ ClientsLive)'
    <2>1. SUFFICES ASSUME TypeOK, LockDiscipline, Rendezvous, ClientsLive, [Next]_vars
                   PROVE  Rendezvous' /\ ClientsLive'
      OBVIOUS
    <2>2. CASE Next
      BY <2>1, <2>2, RenderThreadKeepsRendezvous, StreamingKeepsRendezvous,
         UpstreamKeepsRendezvous, ApplicationKeepsRendezvous, ReleaseKeepsRendezvous
         DEF Next, ClientsLive
    <2>3. CASE UNCHANGED vars
      BY <2>1, <2>3
         DEF vars, handshake, client, control, Rendezvous, ClientsLive, ClientsWhole, Pausing,
             Resuming, AlignmentNeverWaits
    <2>4. QED
      BY <2>1, <2>2, <2>3
  <1>3. QED
    BY <1>1, <1>2, TypesAndLocks, PTL DEF Spec

(***************************************************************************)
(* Under the same setting: a client that RenderWasapiBuffer has tested is  *)
(* not taken away before m_csRender is released, and no render client is   *)
(* made while another one is there.                                        *)
(***************************************************************************)
THEOREM ClientsStayLive ==
  ASSUME ~ReleaseDeviceIdle
  PROVE  Spec => []ClientsLive
  BY RendezvousCorrect, PTL

(***************************************************************************)
(* When moreover no paused device is kept active: a thread inside          *)
(* RenderWasapiBuffer has the clients it dereferences.                     *)
(***************************************************************************)
THEOREM FillsWithClient ==
  ASSUME ~ReleaseDeviceIdle, ~PauseKeepActive
  PROVE  Spec => []FillHasClient
  <1>1. Rendezvous /\ ClientsLive => FillHasClient
    BY DEF Rendezvous, ClientsLive, ClientsWhole, FillHasClient, Keeping
  <1>2. QED
    BY <1>1, RendezvousCorrect, PTL

=============================================================================
