----------------------------- MODULE SessionTable -----------------------------
(***************************************************************************)
(* The viewers of the native server as src/app/app_server.c keeps them: a  *)
(* table of slots, filled by POST /api/webrtc/offer, emptied by            *)
(* reap_sessions after a session closed itself (BYE, timeout), was closed  *)
(* by POST /api/webrtc/close or fell to POST /api/webrtc/restart; with the *)
(* counters, the per-slot reports of the browser and the state that        *)
(* /api/status derives from them.                                          *)
(*                                                                         *)
(* Everything happens on the main thread, in the order of the loop of      *)
(* app_server_run: UDP, HTTP, ticks, fan-out, reaping, supervision.  What  *)
(* a session does between them is module RtcSession; here it connects,     *)
(* streams and closes.  Ages count turns of the clock.                     *)
(***************************************************************************)
EXTENDS FiniteSets, LogRing, Rates

CONSTANTS MaxRtcSessions,  \* MAX_RTC_SESSIONS
          MaxOffers,       \* bound: offers accepted
          MaxRestarts,     \* bound: WebRTC restarts
          MaxDecoded,      \* bound: frames a browser reports
          MaxLogged,       \* bound: messages logged before /api/logs is read
          MediaRecent,     \* MEDIA_RECENT_MS
          RrRecent         \* RR_RECENT_MS

ASSUME TableAssumption ==
    /\ MaxRtcSessions \in Nat /\ MaxOffers \in Nat /\ MaxRestarts \in Nat
    /\ MaxDecoded \in Nat /\ MediaRecent \in Nat /\ RrRecent \in Nat

VARIABLES
    sessions,         \* sessions[i]: a session, or Null
    sessions_total, sessions_closed,
    dtls_ready,
    context,          \* which DTLS context is current (webrtc_restarts)
    running,          \* pipeline_running
    media_active,
    decoded,          \* client_frames_decoded[i]
    decoding,         \* client_decoding[i]
    reporter,         \* history: whose report is in slot i
    phase             \* where the main loop is

vars == <<sessions, sessions_total, sessions_closed, dtls_ready, context,
          running, media_active, decoded, decoding, reporter, phase>>

Slots == 1..MaxRtcSessions
Null == [state |-> "null"]
Never == RrRecent + MediaRecent   \* an age at which no report is recent
NotYet == Never + 1               \* nothing was sent or received so far

IsSession(i) == sessions[i] # Null
Open(i) == IsSession(i) /\ sessions[i].state # "closed"
Streaming(i) == IsSession(i) /\ sessions[i].state = "streaming"

Init ==
    /\ sessions = [i \in Slots |-> Null]
    /\ sessions_total = 0 /\ sessions_closed = 0
    /\ dtls_ready \in BOOLEAN /\ context = 0
    /\ running \in BOOLEAN /\ media_active = FALSE
    /\ decoded = [i \in Slots |-> 0] /\ decoding = [i \in Slots |-> FALSE]
    /\ reporter = [i \in Slots |-> 0]
    /\ phase = "udp"

client == <<decoded, decoding, reporter>>
counts == <<sessions_total, sessions_closed>>
world == <<dtls_ready, context, running, media_active>>

Advance(from, to) == phase = from /\ phase' = to

\* rtc_session_close on a set of open slots, and session_on_closed for each.
CloseAll(S) ==
    /\ sessions' = [i \in Slots |-> IF i \in S
                                    THEN [sessions[i] EXCEPT !.state = "closed"]
                                    ELSE sessions[i]]
    /\ sessions_closed' = sessions_closed + Cardinality(S)

-----------------------------------------------------------------------------
(* server_poll: datagrams *)

\* The handshake completes; nothing is sent before an IDR.
Connect(i) ==
    /\ phase = "udp" /\ Open(i) /\ sessions[i].state = "connecting"
    /\ sessions' = [sessions EXCEPT ![i].state = "streaming"]
    /\ UNCHANGED <<counts, world, client, phase>>

\* A browser reports on a stream it has received something of.
ReceiverReport(i) ==
    /\ phase = "udp" /\ Streaming(i) /\ sessions[i].media # NotYet
    /\ sessions' = [sessions EXCEPT ![i].rr = 0]
    /\ UNCHANGED <<counts, world, client, phase>>

Bye(i) ==
    /\ phase = "udp" /\ Open(i)
    /\ CloseAll({i})
    /\ UNCHANGED <<sessions_total, world, client, phase>>

-----------------------------------------------------------------------------
(* HTTP *)

\* Slip: the reports of the slot's last viewer are kept.
MutResetReports(i) == UNCHANGED client
ResetReports(i) ==
    /\ decoded' = [decoded EXCEPT ![i] = 0]
    /\ decoding' = [decoding EXCEPT ![i] = FALSE]
    /\ UNCHANGED reporter

\* handle_offer: the first free slot, a fresh id and the current context.  The
\* branch for a reply that overflows is left out: the reply has room for 12288
\* characters, and an answer of at most 8191 needs them only if half of it were
\* characters to escape, where only the ends of its lines are.
Offer(i) ==
    /\ phase = "http"
    /\ dtls_ready
    /\ ~IsSession(i) /\ \A j \in 1..(i - 1) : IsSession(j)
    /\ sessions_total < MaxOffers
    /\ sessions' = [sessions EXCEPT ![i] =
          [state |-> "connecting", id |-> sessions_total + 1, context |-> context,
           waiting |-> TRUE, media |-> NotYet, rr |-> NotYet]]
    /\ sessions_total' = sessions_total + 1
    /\ ResetReports(i)
    /\ UNCHANGED <<sessions_closed, world, phase>>

\* Slip: handle_close counts a session that is closed already once more.
MutClosable(i) == IsSession(i)
Closable(i) == Open(i)

\* handle_close: rtc_session_close does nothing on a closed session.
Close(i) ==
    /\ phase = "http" /\ IsSession(i)
    /\ CloseAll({i} \cap {j \in Slots : Closable(j)})
    /\ UNCHANGED <<sessions_total, world, client, phase>>

\* handle_client_stats
ClientStats(i, n) ==
    /\ phase = "http" /\ IsSession(i)
    /\ decoding' = [decoding EXCEPT ![i] = n > decoded[i]]
    /\ decoded' = [decoded EXCEPT ![i] = n]
    /\ reporter' = [reporter EXCEPT ![i] = sessions[i].id]
    /\ UNCHANGED <<sessions, counts, world, phase>>

\* Slip: only the streaming sessions are dropped.
MutDropped == {i \in Slots : Streaming(i)}
Dropped == {i \in Slots : IsSession(i)}

\* handle_webrtc_restart: sessions_close_all, then a new DTLS context, or none.
WebrtcRestart ==
    /\ phase = "http"
    /\ context < MaxRestarts
    /\ sessions' = [i \in Slots |-> IF i \in Dropped THEN Null ELSE sessions[i]]
    /\ sessions_closed' = sessions_closed + Cardinality({i \in Dropped : Open(i)})
    /\ media_active' = FALSE
    /\ context' = context + 1
    /\ dtls_ready' \in BOOLEAN
    /\ UNCHANGED <<sessions_total, running, client, phase>>

\* handle_camera_restart: the pipeline stops, and starts again or not.
CameraRestart ==
    /\ phase = "http"
    /\ media_active' = FALSE
    /\ running' \in BOOLEAN
    /\ UNCHANGED <<sessions, counts, dtls_ready, context, client, phase>>

-----------------------------------------------------------------------------
(* The rest of the loop *)

UdpDone == Advance("udp", "http") /\ UNCHANGED <<sessions, counts, world, client>>

\* rtc_session_tick closes the sessions that timed out.
Ticks ==
    /\ Advance("http", "tick")
    /\ \E S \in SUBSET {i \in Slots : Open(i)} : CloseAll(S)
    /\ UNCHANGED <<sessions_total, world, client>>

Gets(i, isIdr) == Streaming(i) /\ (isIdr \/ ~sessions[i].waiting)

\* fan_out_access_units: one unit, when there is one, to every viewer.
FanOut ==
    /\ Advance("tick", "fan")
    /\ \/ UNCHANGED sessions
       \/ /\ running
          /\ \E isIdr \in BOOLEAN :
               sessions' = [i \in Slots |->
                  IF Gets(i, isIdr)
                  THEN [sessions[i] EXCEPT !.waiting = FALSE, !.media = 0]
                  ELSE sessions[i]]
    /\ UNCHANGED <<counts, world, client>>

Viewers == {i \in Slots : Open(i)}

\* reap_sessions
Reap ==
    /\ Advance("fan", "reap")
    /\ sessions' = [i \in Slots |-> IF Open(i) THEN sessions[i] ELSE Null]
    /\ media_active' = (running /\ Viewers # {})
    /\ UNCHANGED <<counts, dtls_ready, context, running, client>>

Older(age) == IF age < Never THEN age + 1 ELSE age

\* media_supervise may stop or start the pipeline; the clock may turn.
Supervise ==
    /\ Advance("reap", "udp")
    /\ running' \in BOOLEAN
    /\ media_active' = (media_active /\ running')
    /\ \/ UNCHANGED sessions
       \/ sessions' = [i \in Slots |->
             IF IsSession(i)
             THEN [sessions[i] EXCEPT !.media = Older(@), !.rr = Older(@)]
             ELSE Null]
    /\ UNCHANGED <<counts, dtls_ready, context, client>>

Next ==
    \/ \E i \in Slots : \/ Connect(i) \/ ReceiverReport(i) \/ Bye(i)
                        \/ Offer(i) \/ Close(i)
                        \/ \E n \in 0..MaxDecoded : ClientStats(i, n)
    \/ WebrtcRestart \/ CameraRestart
    \/ UdpDone \/ Ticks \/ FanOut \/ Reap \/ Supervise

Spec == Init /\ [][Next]_vars

-----------------------------------------------------------------------------
(* server_state and layer_summary *)

Rtp(i) == Open(i) /\ sessions[i].media < MediaRecent
Rtcp(i) == Open(i) /\ sessions[i].rr < RrRecent

server_state ==
    IF ~running THEN "camera-error"
    ELSE IF \A i \in Slots : ~Open(i) THEN "idle"
    ELSE IF (\E i \in Slots : Rtp(i)) /\ (\E i \in Slots : Rtcp(i)) THEN "streaming"
    ELSE IF \E i \in Slots : Rtp(i) THEN "sending"
    ELSE IF \E i \in Slots : Streaming(i) THEN "no-media"
    ELSE "connecting"

-----------------------------------------------------------------------------
\* The types of the slots, the counters and the browser's reports
\* (struct Server).
TypeOK ==
    /\ \A i \in Slots : sessions[i].state \in {"null", "connecting", "streaming", "closed"}
    /\ sessions_total \in 0..MaxOffers /\ sessions_closed \in 0..MaxOffers
    /\ dtls_ready \in BOOLEAN /\ running \in BOOLEAN /\ media_active \in BOOLEAN
    /\ context \in 0..MaxRestarts
    /\ decoded \in [Slots -> 0..MaxDecoded] /\ decoding \in [Slots -> BOOLEAN]
    /\ phase \in {"udp", "http", "tick", "fan", "reap"}

\* What the server keeps beside the table agrees with it.  Every session is
\* counted in once and out once, however it ended: accepted minus closed is the
\* number of open sessions (sessions_total, sessions_closed in /api/stats).  And
\* once the loop has reaped, media_active says that the pipeline runs and a
\* session is open; it is never left on over a stopped pipeline.  The types hold
\* throughout.
CountsAddUp ==
    /\ TypeOK
    /\ sessions_total - sessions_closed = Cardinality({i \in Slots : Open(i)})
    /\ media_active => running
    /\ phase = "reap" => (media_active <=> running /\ \E i \in Slots : Open(i))

\* No open session outlives the DTLS context it was made from: a restart drops
\* them all before dtls_srtp_global_shutdown, and none is made without one.
OwnContext ==
    \A i \in Slots : Open(i) => dtls_ready /\ sessions[i].context = context

\* What the log's readers and the rates make of any bounded input.
ReadersAreRight ==
    /\ RatesAreModest
    /\ \A n \in 0..MaxLogged : \A messages \in [1..n -> Levels] : LogIsRecent(messages)

\* /api/status tells the truth about the viewers there are.  "decoding" is the
\* word of the viewer that is in the slot now, never of the one before it; and
\* "streaming" means that media is actually flowing: there is one viewer that
\* was sent a unit and acknowledged the stream, not one of each kind.  And the
\* log tells what was logged, whatever it was, and the rates what was captured
\* and sent: see LogIsRecent and RatesAreModest.
StatusIsTrue ==
    /\ Init => ReadersAreRight
    /\ \A i \in Slots : IsSession(i) /\ decoding[i] => reporter[i] = sessions[i].id
    /\ server_state = "streaming" => \E i \in Slots : Rtp(i) /\ Rtcp(i)
=============================================================================
