---------------------------- MODULE MediaPipeline ----------------------------
(***************************************************************************)
(* From the encode thread (src/media/encoder_worker.c) over the queue of      *)
(* access units to the viewers of the main thread (fan_out_access_units and    *)
(* reap_sessions of src/app/app_server.c, rtc_session_send_access_unit and      *)
(* rtc_session_request_idr of src/webrtc/webrtc_session.c).  The two threads    *)
(* share the queue (AuQueue, which AuRing implements) and three atomics:         *)
(* force_idr, media_active and the bitrate mailbox.                             *)
(*                                                                         *)
(* Every access to an atomic is a step of its own.  Frames are always at hand   *)
(* (FrameHub delivers them).  A unit is a keyframe or a delta.  `gaps' is        *)
(* history: which waiting units directly follow a unit that was lost, so that    *)
(* a viewer that gets a delta after a gap is known to show a broken picture.     *)
(***************************************************************************)
EXTENDS AuQueue, FiniteSets

CONSTANTS Viewers,      \* the slots of server->sessions
          Rates,        \* bitrates a configuration file may ask for
          MaxFaults,    \* bound: units lost between encoder and sender, and
                        \* teardowns of the pipeline
          MaxReloads    \* bound: changes of the configured bitrate

ASSUME PipelineAssumption ==
  /\ Units = {"idr", "delta"}
  /\ Capacity \in Nat \ {0}
  /\ Rates # {} /\ 0 \notin Rates
  /\ MaxFaults \in Nat /\ MaxReloads \in Nat

VARIABLES force_idr,    \* server->force_idr
          media_active, \* server->media_active
          pipeline_running,
          enc,          \* where the encode thread is
          forced,       \* its local force_idr, the value it exchanged
          failed,       \* worker->failed
          encRunning,   \* worker->running
          pending,      \* worker->pending_bitrate_kbps
          encRate,      \* the bitrate the encoder works at
          cfgRate,      \* server->config.bitrate_kbps
          reloads,
          refused,      \* history: the encoder refused the last change
          main,         \* where the main thread is in its loop
          session,      \* per viewer: state, waiting_keyframe, recent IDR request
          gaps,         \* history, parallel to queue
          broken,       \* history: viewers whose reference chain is broken
          losses, restarts

encVars  == <<enc, forced, failed, encRunning, encRate, refused>>
rateVars == <<pending, cfgRate, reloads>>
histVars == <<gaps, broken, losses>>
vars == <<qvars, force_idr, media_active, pipeline_running, encVars, rateVars,
          main, session, histVars, restarts>>

MayFault == losses + restarts < MaxFaults

NoSession == [state |-> "off", waiting |-> FALSE, recent |-> FALSE]

FirstRate == CHOOSE r \in Rates : TRUE

Init ==
  /\ QInit
  /\ force_idr = 1 /\ media_active = FALSE /\ pipeline_running = TRUE
  /\ enc = "take" /\ forced = FALSE /\ failed = FALSE /\ encRunning = TRUE
  /\ pending = 0 /\ encRate = FirstRate /\ cfgRate = FirstRate /\ refused = FALSE
  /\ reloads = 0
  /\ main = "poll"
  /\ session = [v \in Viewers |-> NoSession]
  /\ gaps = <<>> /\ broken = {} /\ losses = 0
  /\ restarts = 0

-----------------------------------------------------------------------------
(* encoder_thread *)

EncExit ==
  /\ enc = "take" /\ ~encRunning
  /\ enc' = "exited"
  /\ UNCHANGED <<qvars, force_idr, media_active, pipeline_running, forced, failed,
                 encRunning, encRate, refused, rateVars, main, session, histVars,
                 restarts>>

PendingAfterTake == 0

\* A frame arrives: the queued bitrate change is applied, or refused by the encoder,
\* then media_active is read.  A frame of the wrong size is dropped like an idle one.
EncTake(accepted, usable) ==
  /\ enc = "take" /\ encRunning
  /\ encRate' = IF pending # 0 /\ accepted THEN pending ELSE encRate
  /\ refused' = IF pending # 0 THEN ~accepted ELSE refused
  /\ pending' = PendingAfterTake
  /\ enc' = IF media_active /\ usable THEN "armed" ELSE "take"
  /\ UNCHANGED <<qvars, force_idr, media_active, pipeline_running, forced, failed,
                 encRunning, cfgRate, reloads, main, session, histVars, restarts>>

EncExchange ==
  /\ enc = "armed"
  /\ forced' = (force_idr = 1)
  /\ force_idr' = 0
  /\ enc' = "encode"
  /\ UNCHANGED <<qvars, media_active, pipeline_running, failed, encRunning,
                 encRate, refused, rateVars, main, session, histVars, restarts>>

\* h264_encoder_encode < 0.
EncFatal ==
  /\ enc = "encode" /\ MayFault
  /\ failed' = TRUE
  /\ enc' = "exited"
  /\ UNCHANGED <<qvars, force_idr, media_active, pipeline_running, forced,
                 encRunning, encRate, refused, rateVars, main, session, histVars,
                 restarts>>

\* Slip: an unsatisfied request is forgotten.
MutKeepAsking == force_idr

KeepAsking == IF forced THEN 1 ELSE force_idr

\* No access unit for this frame; `stalled' when none for STALL_FATAL_MS.
EncNoOutput(stalled) ==
  /\ enc = "encode"
  /\ stalled => MayFault
  /\ force_idr' = KeepAsking
  /\ failed' = (failed \/ stalled)
  /\ enc' = IF stalled THEN "exited" ELSE "take"
  /\ UNCHANGED <<qvars, media_active, pipeline_running, forced, encRunning,
                 encRate, refused, rateVars, main, session, histVars, restarts>>

\* A keyframe serves every request so far; a delta leaves the request open.
EncOutput(unit) ==
  /\ enc = "encode"
  /\ force_idr' = IF unit = "idr" THEN 0 ELSE KeepAsking
  /\ enc' = unit
  /\ UNCHANGED <<qvars, media_active, pipeline_running, forced, failed, encRunning,
                 encRate, refused, rateVars, main, session, histVars, restarts>>

\* au_ring_push of the unit `enc'; a full ring gives up its oldest unit.  (The last
\* push before a join does not count: the ring goes.)
EncPush ==
  LET full == Len(queue) = Capacity
      kept == IF full THEN Tail(gaps) ELSE gaps
      new == Append(kept, lost)
  IN  /\ enc \in Units
      /\ full => MayFault \/ ~encRunning
      /\ Accept(enc)
      /\ gaps' = IF full THEN [new EXCEPT ![1] = TRUE] ELSE new
      /\ losses' = IF full /\ encRunning THEN losses + 1 ELSE losses
      /\ enc' = "take"
      /\ UNCHANGED <<force_idr, media_active, pipeline_running, forced, failed,
                     encRunning, encRate, refused, rateVars, main, session, broken,
                     restarts>>

\* au_ring_push of a unit that does not fit.
EncPushRefused ==
  /\ enc \in Units /\ MayFault
  /\ Refuse
  /\ losses' = losses + 1
  /\ enc' = "refused"
  /\ UNCHANGED <<force_idr, media_active, pipeline_running, forced, failed,
                 encRunning, encRate, refused, rateVars, main, session, gaps, broken,
                 restarts>>

AfterRefusal == 1

EncRefused ==
  /\ enc = "refused"
  /\ force_idr' = AfterRefusal
  /\ enc' = "take"
  /\ UNCHANGED <<qvars, media_active, pipeline_running, forced, failed, encRunning,
                 encRate, refused, rateVars, main, session, histVars, restarts>>

Encoder ==
  \/ EncExit \/ EncExchange \/ EncFatal \/ EncPush \/ EncPushRefused \/ EncRefused
  \/ \E accepted, usable \in BOOLEAN : EncTake(accepted, usable)
  \/ \E stalled \in BOOLEAN : EncNoOutput(stalled)
  \/ \E unit \in Units : EncOutput(unit)

-----------------------------------------------------------------------------
(* Sessions, in the polling part of the main loop *)

threadVars == <<qvars, media_active, pipeline_running, encVars>>

\* rtc_session_request_idr, at most one per IDR_MIN_INTERVAL_MS and session.
RequestIdr(s) == [s EXCEPT !.recent = TRUE]

ForceAfter(s) == IF s.recent THEN force_idr ELSE 1

Offer(v) ==
  /\ main = "poll" /\ session[v].state = "off"
  /\ session' = [session EXCEPT ![v].state = "connecting"]
  /\ force_idr' = 1
  /\ UNCHANGED <<threadVars, rateVars, main, histVars, restarts>>

ForceOnConnect(s) == ForceAfter(s)

\* dtls_on_connected.
Connected(v) ==
  /\ main = "poll" /\ session[v].state = "connecting"
  /\ session' = [session EXCEPT ![v] = RequestIdr([@ EXCEPT !.state = "streaming",
                                                           !.waiting = TRUE])]
  /\ force_idr' = ForceOnConnect(session[v])
  /\ UNCHANGED <<threadVars, rateVars, main, histVars, restarts>>

\* PLI or FIR in dtls_on_rtcp.
PictureLoss(v) ==
  /\ main = "poll" /\ session[v].state = "streaming"
  /\ session' = [session EXCEPT ![v] = RequestIdr(@)]
  /\ force_idr' = ForceAfter(session[v])
  /\ UNCHANGED <<threadVars, rateVars, main, histVars, restarts>>

RateWindowOver(v) ==
  /\ session[v].recent
  /\ session' = [session EXCEPT ![v].recent = FALSE]
  /\ UNCHANGED <<threadVars, force_idr, rateVars, main, histVars, restarts>>

\* BYE, close request, timeout: rtc_session_close.
Closed(v) ==
  /\ main = "poll" /\ session[v].state \in {"connecting", "streaming"}
  /\ session' = [session EXCEPT ![v].state = "closed"]
  /\ UNCHANGED <<threadVars, force_idr, rateVars, main, histVars, restarts>>

\* apply_runtime_config: without a worker the change waits for a restart.
ReloadBitrate(r) ==
  /\ main = "poll" /\ r # cfgRate /\ reloads < MaxReloads
  /\ pipeline_running
  /\ pending' = r
  /\ cfgRate' = r
  /\ reloads' = reloads + 1
  /\ UNCHANGED <<threadVars, force_idr, main, session, histVars, restarts>>

-----------------------------------------------------------------------------
(* The main loop: poll, fan out, reap, supervise *)

EndOfPoll ==
  /\ main = "poll"
  /\ main' = "fanout"
  /\ UNCHANGED <<threadVars, force_idr, rateVars, session, histVars, restarts>>

\* au_ring_pop: every unit that was stored fits the sender's buffer.
FanOutPop ==
  /\ main = "fanout" /\ queue # <<>>
  /\ Deliver(1)
  /\ gaps' = Tail(gaps)
  /\ broken' = IF queue[1].unit # "idr" /\ gaps[1]
               THEN broken \cup {v \in Viewers : session[v].state = "streaming"}
               ELSE broken
  /\ main' = "send"
  /\ UNCHANGED <<force_idr, media_active, pipeline_running, encVars, rateVars,
                 session, losses, restarts>>

\* Slip: a loss between encoder and sender is only counted.
MutAfterGap == FALSE

AfterGap == out.discontinuity

\* rtc_session_send_access_unit to every streaming session.
FanOutSend ==
  LET streaming == {v \in Viewers : session[v].state = "streaming"}
      held == {v \in streaming : out.unit # "idr" /\ session[v].waiting}
      asking == {v \in held : ~session[v].recent}
  IN  /\ main = "send"
      /\ force_idr' = IF AfterGap \/ asking # {} THEN 1 ELSE force_idr
      /\ session' = [v \in Viewers |->
           IF v \in held THEN RequestIdr(session[v])
           ELSE IF v \in streaming THEN [session[v] EXCEPT !.waiting = FALSE]
           ELSE session[v]]
      /\ broken' = IF out.unit = "idr" THEN broken \ streaming ELSE broken
      /\ main' = "fanout"
      /\ UNCHANGED <<threadVars, rateVars, gaps, losses, restarts>>

\* Nothing left (or no ring): then reap_sessions.
Reap ==
  /\ main = "fanout" /\ queue = <<>>
  /\ session' = [v \in Viewers |-> IF session[v].state = "closed" THEN NoSession
                                                                 ELSE session[v]]
  /\ broken' = {v \in broken : session[v].state # "closed"}
  /\ media_active' = (pipeline_running
                        /\ \E v \in Viewers : session'[v].state # "off")
  /\ main' = "supervise"
  /\ UNCHANGED <<qvars, force_idr, pipeline_running, encVars, rateVars, gaps,
                 losses, restarts>>

\* media_supervise, nothing to do (or too early to try again).
SuperviseIdle ==
  /\ main = "supervise"
  /\ ~(pipeline_running /\ failed)
  /\ main' = "poll"
  /\ UNCHANGED <<threadVars, force_idr, rateVars, session, histVars, restarts>>

\* media_pipeline_stop: the encode thread is told to stop and joined.  Either a
\* worker has failed (the capture worker may at any time) or the camera restart
\* of the HTTP interface was requested.
StopPipeline ==
  /\ \/ main = "supervise" /\ pipeline_running /\ main' = "join"
     \/ main = "poll" /\ main' = "joinThenStart"
  /\ MayFault \/ failed
  /\ restarts' = IF MayFault THEN restarts + 1 ELSE restarts
  /\ encRunning' = FALSE
  /\ UNCHANGED <<qvars, force_idr, media_active, pipeline_running, enc, forced,
                 failed, encRate, refused, rateVars, session, histVars>>

\* Both workers joined: ring, hub and source go.
Joined ==
  /\ main \in {"join", "joinThenStart"} /\ enc = "exited"
  /\ queue' = <<>> /\ lost' = FALSE /\ gaps' = <<>>
  /\ pending' = 0
  /\ pipeline_running' = FALSE
  /\ media_active' = FALSE
  /\ main' = IF main = "join" THEN "poll" ELSE "start"
  /\ UNCHANGED <<out, force_idr, encVars, cfgRate, reloads, session, broken, losses,
                 restarts>>

\* Slip: the new encoder gets the old bitrate.
MutRateOfNewEncoder == encRate

RateOfNewEncoder == cfgRate

\* media_pipeline_start: a new encoder at the configured bitrate and new threads;
\* the viewers miss what was in the old ring.
StartPipeline ==
  /\ \/ main = "start"
     \/ main = "supervise" /\ ~pipeline_running
  /\ enc' = "take" /\ forced' = FALSE /\ failed' = FALSE /\ encRunning' = TRUE
  /\ encRate' = RateOfNewEncoder /\ refused' = FALSE
  /\ broken' = {v \in Viewers : session[v].state = "streaming"}
  /\ main' = "started"
  /\ UNCHANGED <<qvars, force_idr, media_active, pipeline_running, rateVars, session,
                 gaps, losses, restarts>>

ForceAfterStart == 1

PipelineStarted ==
  /\ main = "started"
  /\ pipeline_running' = TRUE
  /\ force_idr' = ForceAfterStart
  /\ main' = "poll"
  /\ UNCHANGED <<qvars, media_active, encVars, rateVars, session, histVars, restarts>>

StartFails ==
  /\ main = "start"
  /\ main' = "poll"
  /\ UNCHANGED <<threadVars, force_idr, rateVars, session, histVars, restarts>>

MainLoop == \/ EndOfPoll \/ FanOutPop \/ FanOutSend \/ Reap \/ SuperviseIdle
            \/ Joined \/ StartPipeline \/ PipelineStarted \/ StartFails
            \/ (main = "supervise" /\ failed /\ StopPipeline)

Environment ==
  \/ StopPipeline
  \/ \E v \in Viewers : Offer(v) \/ Connected(v) \/ PictureLoss(v)
                        \/ RateWindowOver(v) \/ Closed(v)
  \/ \E r \in Rates : ReloadBitrate(r)

Next == Encoder \/ MainLoop \/ Environment

Spec == Init /\ [][Next]_vars

(* Both threads run; the encoder answers an unmet request with a keyframe sooner   *)
(* or later; a rebuild succeeds sooner or later; the source keeps delivering        *)
(* usable frames.                                                              *)
Fairness ==
  /\ WF_vars(MainLoop)
  /\ WF_vars(Encoder)
  /\ SF_vars(\E accepted \in BOOLEAN : EncTake(accepted, TRUE))
  /\ SF_vars(forced /\ EncOutput("idr"))
  /\ SF_vars(StartPipeline)

FairSpec == Spec /\ Fairness

-----------------------------------------------------------------------------
(* Properties *)

\* The types of the shared atomics, the two threads and the sessions.
TypeOK ==
  /\ queue \in Seq(Entry) /\ Len(queue) <= Capacity
  /\ Len(gaps) = Len(queue)
  /\ lost \in BOOLEAN
  /\ out \in Entry \cup {NoUnit}
  /\ force_idr \in {0, 1} /\ media_active \in BOOLEAN
  /\ pipeline_running \in BOOLEAN
  /\ enc \in {"take", "armed", "encode", "refused", "exited"} \cup Units
  /\ {forced, failed, encRunning, refused} \subseteq BOOLEAN
  /\ pending \in Rates \cup {0} /\ encRate \in Rates /\ cfgRate \in Rates
  /\ main \in {"poll", "fanout", "send", "supervise", "join", "joinThenStart",
               "start", "started"}
  /\ session \in [Viewers -> [state : {"off", "connecting", "streaming", "closed"},
                              waiting : BOOLEAN, recent : BOOLEAN]]
  /\ broken \subseteq Viewers
  /\ losses + restarts \in 0..MaxFaults

\* Viewers without a picture they can decode.
InNeed == {v \in Viewers : session[v].state = "streaming"
                             /\ (session[v].waiting \/ v \in broken)}

\* A keyframe, or a request for one, is still on its way.
HelpOnTheWay ==
  \/ force_idr = 1
  \/ enc = "encode" /\ forced
  \/ enc \in {"idr", "refused"}
  \/ lost
  \/ \E i \in DOMAIN queue : queue[i].unit = "idr" \/ queue[i].discontinuity
  \/ main = "send" /\ (out.unit = "idr" \/ out.discontinuity)

(* No request is lost: whatever the encode thread clears, the ring overwrites or    *)
(* refuses, and however requests race the keyframe being produced, a viewer in need  *)
(* of a keyframe always has a keyframe or a request for one on its way (as long as   *)
(* the encode thread lives; a rebuilt pipeline begins with a request), and the types *)
(* hold.                                                                          *)
NoRequestLost ==
  /\ TypeOK
  /\ InNeed # {} /\ pipeline_running /\ ~failed /\ encRunning => HelpOnTheWay

(* The encoder works at the configured bitrate, unless the change is still queued    *)
(* or the encoder refused it, through reloads, refusals and rebuilds alike.          *)
BitrateFollows ==
  pipeline_running /\ pending = 0 /\ ~refused => encRate = cfgRate

(* A viewer that starts to wait for a keyframe, or whose picture breaks, has a        *)
(* complete picture again or leaves, once units stop being lost.                     *)
EveryViewerRecovers ==
  \A v \in Viewers : v \in InNeed ~> v \notin InNeed

=============================================================================
