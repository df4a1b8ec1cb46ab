--------------------------- MODULE AudioRendererInv ---------------------------
(***************************************************************************)
(* Why the render thread and the teardown of the clients keep out of each  *)
(* other's way: who holds m_csRender at which place in the code, and the   *)
(* two rendezvous (pause and resume) between the streaming thread and the  *)
(* render thread.  The invariants here are inductive; AudioRenderer_proofs *)
(* proves them for every value of the constants.                           *)
(***************************************************************************)
EXTENDS AudioRenderer

-----------------------------------------------------------------------------
\* Places of the streaming thread inside CheckAudioClient, and those after m_csCheck is taken.
InCheck == {"cac.lock", "cac.create", "cac.format",
            "rel.unlock", "rel.pause", "rel.set", "rel.wait", "rel.lock", "rel.drop",
            "cac.init", "crc.pause", "crc.set", "crc.wait", "crc.align", "crc.create",
            "crc.start", "crc.resumed", "cac.ok", "cac.kept", "cac.fail"}
InCall == InCheck \cup {"cac.enter"}

\* Places where the streaming thread has taken m_csRender (once more) in the function it is in.
Takes == {"re.drop", "re.create", "re.check", "re.done", "sc.fill", "j.fill",
          "cac.create", "cac.format", "rel.unlock", "rel.drop", "cac.init",
          "crc.pause", "crc.set", "crc.wait", "crc.align", "crc.create",
          "crc.start", "crc.resumed", "cac.ok", "cac.kept", "cac.fail"}

\* ReinitializeAudioDevice holds a level of its own while it calls CheckAudioClient.
Depth == (IF caller = "Reinitialize" THEN 1 ELSE 0) + (IF pc["S"] \in Takes THEN 1 ELSE 0)

(***************************************************************************)
(* m_csRender is held by the thread and to the depth that its place in the *)
(* code tells, although CheckAudioClient is entered with and without it    *)
(* and ReleaseAudio opens one level of it in the middle: no Unlock is      *)
(* missing, and none comes from a thread that does not hold the lock.      *)
(***************************************************************************)
LockDiscipline ==
    /\ csRender.by = "R" <=> pc["R"] \in {"r.fill", "k.fill"}
    /\ csRender.by = "T" <=> pc["T"] \in {"rd.pause", "rd.set", "rd.wait", "rd.drop"}
    /\ csRender.by = "S" <=> Depth > 0
    /\ csRender.by # "A"
    /\ csRender.n = CASE csRender.by = NULL -> 0 [] csRender.by = "S" -> Depth [] OTHER -> 1
    /\ csCheck = IF pc["S"] \in InCheck THEN "S" ELSE NULL
    /\ (caller = NULL) <=> pc["S"] \notin InCall

-----------------------------------------------------------------------------
Pausing  == pc["S"] \in {"rel.wait", "re.wait", "crc.wait"}
Resuming == pc["S"] \in {"crc.resumed", "t.resumed"}
Active   == {"top", "wait", "r.check", "r.lock", "r.fill"}
Parking  == {"park.flag", "park.reset", "park.ack"}
Flagged  == {"park.reset", "park.ack"}         \* m_bThreadPaused is set, the answer is not given
Keeping  == {"k.check", "k.lock", "k.fill", "k.wait"}      \* the pause loop renders
Parked   == {"parked", "parked.wait"} \cup Keeping
Away     == Parked \cup {"none"}

\* The places of the streaming thread between the answer to its pause and the next resume.
Holding == {"re.lock", "re.drop", "re.create", "re.check", "rel.lock", "rel.drop",
            "cac.init", "crc.pause", "crc.align", "crc.create", "crc.start"}

(***************************************************************************)
(* PauseRendererThread and StartRendererThread are rendezvous when nobody  *)
(* but the streaming thread asks: each request is pending in exactly one   *)
(* form (the request event, the render thread on its way, or the answer    *)
(* event), no event is left over from an earlier request, and the thread   *)
(* stays parked until it is resumed.                                       *)
(***************************************************************************)
Rendezvous ==
    /\ timer = "none" /\ pc["T"] = "idle"
    /\ pc["R"] \in Active \cup Away \cup Parking
    /\ pc["R"] \in Keeping => PauseKeepActive
    /\ paused <=> pc["R"] \in Parked \cup Flagged
    /\ pauseEv => Pausing /\ pc["R"] \in Active
    /\ pc["R"] \in Parking => Pausing
    /\ pausedEv => Pausing /\ pc["R"] \in Parked
    /\ Pausing => pauseEv \/ pc["R"] \in Parking \/ pausedEv
    /\ pc["S"] \in {"rel.set", "re.set"} => pc["R"] \in Active
    /\ AlignmentNeverWaits
    /\ resumeEv => Resuming /\ pc["R"] \in Parked
    /\ resumedEv => Resuming /\ pc["R"] \in Active
    /\ Resuming => resumeEv \/ resumedEv
    /\ pc["S"] \in Holding => pc["R"] \in Away

(***************************************************************************)
(* What is left of the rendezvous when the timer thread asks as well, and  *)
(* may be answered with what the streaming thread waits for, and the other *)
(* way round: two requests, or a request and an answer, are pending only   *)
(* while both wait.  The streaming thread goes on without the render       *)
(* thread being parked only with the answer to the timer's request, and    *)
(* then m_csRender, which the timer thread holds while it waits, keeps it  *)
(* from the clients.                                                       *)
(***************************************************************************)
TimerAsks == pc["T"] = "rd.wait"
\* ReinitializeAudioDevice has called CheckAudioClient, which may release the clients again.
Inside ==
    /\ caller = "Reinitialize"
    /\ pc["S"] \in {"cac.enter", "cac.lock", "cac.create", "cac.format", "rel.unlock", "rel.pause"}
Answers ==
    /\ pc["R"] \in Active \cup Away \cup Parking
    /\ pc["R"] \in Keeping => PauseKeepActive /\ ~ReleaseDeviceIdle
    /\ paused <=> pc["R"] \in Parked \cup Flagged
    /\ resumeEv \/ resumedEv => Resuming
    /\ ~(resumeEv /\ resumedEv)
    /\ pauseEv \/ pausedEv \/ pc["R"] \in Parking => Pausing \/ TimerAsks
    /\ pauseEv /\ pausedEv => Pausing /\ TimerAsks
    /\ pc["R"] \in Parking /\ (pauseEv \/ pausedEv) => Pausing /\ TimerAsks
    /\ ~(pauseEv /\ pausedEv /\ pc["R"] \in Parking)
    /\ pausedEv => pc["R"] \in Parked \/ TimerAsks
    /\ Pausing /\ pc["R"] \in Active => pauseEv
    /\ AlignmentNeverWaits
    /\ pc["S"] \in Holding =>
           \/ pc["R"] \in Away \cup Flagged
           \/ /\ pc["S"] \in {"rel.lock", "re.lock"} /\ TimerAsks /\ ~pausedEv
              /\ pc["R"] \in Active => pauseEv
    /\ Inside => pc["R"] \in Away \cup Flagged
    /\ pc["S"] \in {"rel.set", "rel.wait"} => caller # "Reinitialize"

(***************************************************************************)
(* No render client without its audio client, and none is made over        *)
(* another, which would never be released.                                 *)
(***************************************************************************)
ClientsWhole ==
    /\ renderClient # NULL => audioClient
    /\ pc["S"] \in {"cac.init", "crc.pause", "crc.set", "crc.wait", "crc.align", "crc.create"}
           => renderClient = NULL
    /\ pc["S"] = "crc.create" => audioClient

(***************************************************************************)
(* Whoever has tested m_pRenderClient may use it, and m_pAudioClient with  *)
(* it, until m_csRender is released.                                       *)
(***************************************************************************)
ClientsLive ==
    /\ ClientsWhole
    /\ pc["R"] \in {"r.lock", "r.fill"} => renderClient # NULL
    /\ pc["S"] \in {"sc.lock", "sc.fill", "j.lock", "j.fill"} => renderClient # NULL

(***************************************************************************)
(* CheckAudioClient overwrites m_pWaveFormatExOutput before ReleaseAudio   *)
(* releases the client made for the old one; everywhere else the two agree,*)
(* on the way to CreateRenderClient there is a format, whatever became of  *)
(* the attempts before, and m_output_params, which is filled in when the   *)
(* client has been made, is of this client as long as it exists, whatever  *)
(* fails or changes in between.                                            *)
(***************************************************************************)
InRelease == {"rel.unlock", "rel.pause", "rel.set", "rel.wait", "rel.lock", "rel.drop"}
InCreate == {"cac.init", "crc.pause", "crc.set", "crc.wait", "crc.align", "crc.create"}
InStart == {"crc.start", "crc.resumed", "cac.ok"}
FormatsAgree ==
    /\ renderClient = NULL \/ outFmt = NULL \/ renderClient = outFmt \/ pc["S"] \in InRelease
    /\ pc["S"] \in InCreate \/ (pc["S"] \in InRelease /\ after = "init") => outFmt # NULL
    /\ pc["S"] \in InStart => outFmt # NULL /\ renderClient = outFmt
    /\ renderClient = NULL \/ outParams = renderClient \/ halfMade \/ pc["S"] \in InStart

-----------------------------------------------------------------------------
(***************************************************************************)
(* Seen from the upstream filter and the device the renderer is a          *)
(* PacketPlayer, whose users are the threads inside RenderWasapiBuffer past*)
(* their test of m_pRenderClient.                                          *)
(***************************************************************************)
Using == [R |-> {"r.lock", "r.fill", "k.lock", "k.fill"},
          S |-> {"sc.lock", "sc.fill", "j.lock", "j.fill"}]
Users == {t \in {"R", "S"} : pc[t] \in Using[t]}
Player == INSTANCE PacketPlayer WITH
    Thread <- {"R", "S"}, client <- renderClient, broken <- HalfMade, users <- Users, packets <- queue
ImplementsPlayer == Player!Spec
=============================================================================
