----------------------------- MODULE RtcSession -----------------------------
(***************************************************************************)
(* One viewer's slot: src/webrtc/webrtc_session.c with the DTLS-SRTP engine it     *)
(* owns (src/webrtc/dtls_srtp.c), the offer that creates the session (Sdp) and    *)
(* the checks that find its peer (IceLite).  Everything runs on the server        *)
(* loop's thread, so a datagram, a tick or a call is one step; what makes it      *)
(* hard is that the DTLS engine calls back into the session, which calls back     *)
(* into the engine, and that the slot's UDP port is used again by the next        *)
(* session, so that datagrams of the previous viewer still arrive.  The session   *)
(* is a record and each function of the code an operator from record to record,   *)
(* with the callbacks in their places.                                        *)
(*                                                                         *)
(* Time is kept as ages, capped just above the longest interval they are        *)
(* compared with.  The loop ticks every session at least once per unit of time. *)
(* What OpenSSL makes of a datagram is an outcome chosen by the environment.     *)
(***************************************************************************)
EXTENDS Integers, Sdp, IceLite

CONSTANTS Offers,       \* SDP texts that are posted
          Fingerprints, \* what their fingerprint lines may say, "" if there is none
          Addresses,    \* what getifaddrs may return
          Hosts,        \* addresses in Host headers
          Peers,        \* ports of source addresses
          NoPeer,       \* have_remote = 0
          IdleTimeout,  \* SESSION_IDLE_TIMEOUT_MS
          Watchdog,     \* SESSION_DTLS_WATCHDOG_MS
          IdrInterval,  \* IDR_MIN_INTERVAL_MS
          SrInterval    \* RTCP_SR_INTERVAL_MS

ASSUME SessionAssumption ==
  /\ NoPeer \notin Peers
  /\ {IdleTimeout, Watchdog, IdrInterval, SrInterval} \subseteq Nat \ {0}

VARIABLES s,        \* the session
          due       \* the tick of the current unit of time is still to come

vars == <<s, due>>

Resources == {"cache", "socket", "dtls", "packetizer"}

\* The certificates peers have, with their fingerprints; "none" is no certificate.
FingerprintOf == [certA |-> "fpA", certB |-> "fpB", none |-> "no fingerprint"]

\* What OpenSSL makes of a datagram.  A handshake finishes with the peer's
\* certificate and with or without a use_srtp profile.
Finished == [kind : {"finished"}, cert : DOMAIN FingerprintOf, srtp : BOOLEAN]
Outcomes == [kind : {"want", "error", "closed"}] \cup Finished

\* The session rtc_session_create makes.  gen names its credentials; cert and checked
\* are history: the certificate of the handshake, the credentials of the last check.
New(gen, fingerprint) ==
  [state |-> "new", dtls |-> "init", started |-> FALSE, keyed |-> FALSE,
   gen |-> gen, expected |-> fingerprint, cert |-> "none", checked |-> gen,
   remote |-> NoPeer, waiting |-> FALSE, sent |-> FALSE,
   sinceIdr |-> IdrInterval, untilSr |-> 0, idle |-> 0, age |-> 0,
   inState |-> 0, closedCalls |-> 0, held |-> Resources]

\* The slot is free; the next session has other credentials than the last.
Free(gen, held) == [New(gen, "") EXCEPT !.state = "none", !.held = held]

Init == s = Free(0, {}) /\ due = FALSE

-----------------------------------------------------------------------------
(* handle_offer with rtc_session_create, and rtc_session_destroy *)

\* What create has taken when the step fails.
TakenBefore(step) ==
  CASE step = "cache"                   -> {}
    [] step \in {"credentials", "socket"} -> {"cache"}
    [] step = "dtls"                    -> {"cache", "socket"}
    [] step = "packetizer"              -> {"cache", "socket", "dtls"}
    [] OTHER                            -> Resources

Steps == {"cache", "credentials", "socket", "dtls", "packetizer", "ssrc", "answer"}

\* session_free, or the frees by hand where the socket cannot be bound.
Released(step) == IF step \in {"cache", "socket"} THEN {"cache"} ELSE Resources

\* The offers that are posted, as they are read.
ParsedOffers == {sdp_parse_offer(text) : text \in Offers}

ASSUME OfferAssumption ==
  "" \in Fingerprints /\ \A o \in ParsedOffers : o.fingerprint \in Fingerprints

\* fails is the step that fails, "" if none does.
HandleOffer(offer, fails) ==
  /\ offer.reason = ""
  /\ s' = IF fails = "" THEN New(1 - s.gen, offer.fingerprint)
          ELSE Free(1 - s.gen, TakenBefore(fails) \ Released(fails))
  /\ UNCHANGED due

-----------------------------------------------------------------------------
(* rtc_session_close and dtls_set_state call each other *)

\* inState is history: how long the session has been in its state.
SetState(x, st) == [x EXCEPT !.state = st, !.inState = 0]

OnClosed(x) == [x EXCEPT !.closedCalls = @ + 1]

\* rtc_session_close, called back by the engine while that is being closed: the
\* dtls_srtp_close inside finds the engine closed and does nothing.
CloseAgain(x) ==
  IF x.state = "closed" THEN x ELSE OnClosed(SetState(x, "closed"))

\* dtls_srtp_close, that is dtls_set_state to closed with its callback; the
\* close_notify it sends from a connected engine has no answer.
DtlsClose(x) ==
  IF x.dtls = "closed" THEN x ELSE CloseAgain([x EXCEPT !.dtls = "closed"])

\* Slip: the DTLS engine is torn down before the session is marked closed.
MutClose(x) ==
  IF x.state = "closed" THEN x
  ELSE OnClosed(SetState(DtlsClose(x), "closed"))

Close(x) ==
  IF x.state = "closed" THEN x
  ELSE OnClosed(DtlsClose(SetState(x, "closed")))

\* dtls_set_state to any other state, with its callback dtls_on_state.
DtlsSetState(x, st) ==
  LET y == [x EXCEPT !.dtls = st]
  IN  IF x.dtls = st THEN x
      ELSE CASE st = "handshaking" -> SetState(y, "dtls")
             [] st = "failed"      -> Close(y)
             [] OTHER              -> y

-----------------------------------------------------------------------------
(* Keyframe requests and media *)

\* rtc_session_request_idr.
RequestIdr(x) ==
  IF x.sinceIdr < IdrInterval THEN x
  ELSE [x EXCEPT !.sinceIdr = 0]

SrPeriod == SrInterval

\* dtls_on_connected.
OnConnected(x) ==
  [RequestIdr([SetState(x, "streaming") EXCEPT !.waiting = TRUE])
     EXCEPT !.untilSr = SrPeriod]

\* rtc_session_send_access_unit, when the packets could be protected.
SendUnit(idr) ==
  /\ s.state = "streaming"
  /\ s' = IF idr THEN [s EXCEPT !.waiting = FALSE, !.sent = TRUE]
          ELSE IF s.waiting THEN RequestIdr(s)
          ELSE [s EXCEPT !.sent = TRUE]
  /\ UNCHANGED due

-----------------------------------------------------------------------------
(* pump_ssl *)

\* Slip: a peer that shows no certificate is not compared with the offer's.
MutDerive(x, o) ==
  o.srtp /\ (o.cert # "none" => x.expected \in {"", FingerprintOf[o.cert]})

\* fingerprint_hex_equal: the digests are the same, whatever the notation of the offer's.
fingerprint_hex_equal(expected, cert) == expected = FingerprintOf[cert]

\* derive_srtp_keys succeeds: a profile was agreed on, and the certificate is the one
\* the offer announced.  An a=fingerprint line without a value announces none: then
\* the certificate is not looked at.
derive_srtp_keys(x, o) ==
  o.srtp /\ (x.expected # "" => o.cert # "none" /\ fingerprint_hex_equal(x.expected, o.cert))

\* The handshake has finished: derive the keys or refuse the peer.
Finish(x, o) ==
  IF derive_srtp_keys(x, o)
  THEN OnConnected(DtlsSetState([x EXCEPT !.keyed = TRUE, !.cert = o.cert], "connected"))
  ELSE DtlsSetState(x, "failed")

Pump(x, o) ==
  LET first == ~x.started
      y == IF first THEN DtlsSetState([x EXCEPT !.started = TRUE], "handshaking")
           ELSE x
  IN  CASE x.dtls \in {"closed", "failed"}                  -> x
        [] o.kind = "error" \/ (first /\ o.kind = "closed")   -> DtlsSetState(y, "failed")
        [] o.kind = "closed" /\ ~first                       -> DtlsClose(y)
        [] o.kind = "finished" /\ ~x.keyed                   -> Finish(y, o)
        [] OTHER                                             -> y

\* dtls_srtp_on_udp.  The outcome is OpenSSL's for the queue with the new datagram.
DtlsOnUdp(x, outcome) ==
  IF x.dtls \in {"failed", "closed"} THEN x ELSE Pump(x, outcome)

\* dtls_srtp_tick: a flight may be due again, in a handshake only.
DtlsTick(x, outcome) == IF x.dtls = "handshaking" THEN Pump(x, outcome) ELSE x

-----------------------------------------------------------------------------
(* rtc_session_on_udp *)

Heard(x) == [x EXCEPT !.idle = 0]

Open == s.state \notin {"none", "closed"}

\* The user name fragment and the password of a session; Browser is the peer's fragment.
Ufrag(gen) == gen
Pwd(gen) == gen
Browser == 8

\* What handle_stun makes of a datagram in a session with the credentials.
Verdict(m, gen) ==
  CASE ~stun_is_binding_request(m)                                     -> "heard"
    [] stun_is_binding_request(m) /\ stun_verify_mi(m, Pwd(gen))
         /\ stun_username_matches(m, Ufrag(gen))                       -> "valid"
    [] OTHER                                                           -> "refused"

NoReply == [type |-> "no reply"]

\* The datagram it sends back to the source of this one.
Reply(m, gen, port) ==
  CASE Verdict(m, gen) = "heard"   -> NoReply
    [] Verdict(m, gen) = "refused" -> stun_build_error_response(m.tid, 401)
    [] Verdict(m, gen) = "valid"   -> stun_build_binding_response(m, Pwd(gen), port)

FirstCheck(x) == IF x.state = "new" THEN SetState(x, "ice") ELSE x

\* handle_stun.  The peer is the source of the latest valid check; credentials are
\* those of the browser that made it.
HandleStun(verdict, credentials, a) ==
  /\ Open
  /\ s' = IF verdict = "valid"
          THEN FirstCheck([Heard(s) EXCEPT !.remote = a, !.checked = credentials])
          ELSE Heard(s)
  /\ UNCHANGED due

DtlsAllowed == s.remote # NoPeer

Dtls(b0, outcome) ==
  /\ Open /\ DtlsAllowed
  /\ rtc_classify_packet(b0) = "dtls"
  /\ s' = DtlsOnUdp(Heard(s), outcome)
  /\ UNCHANGED due

\* RTCP: a report that does not authenticate, BYE, a keyframe request, or a report
\* or NACK that only changes statistics and the retransmission cache's users.
Rtcp(b0, kind) ==
  LET x == Heard(s)
  IN  /\ s.state = "streaming"
      /\ rtc_classify_packet(b0) = "rtp"
      /\ s' = CASE kind = "bye" -> Close(x)
                [] kind = "pli" -> RequestIdr(x)
                [] OTHER        -> x
      /\ UNCHANGED due

-----------------------------------------------------------------------------
(* rtc_session_tick, and time *)

\* Slip: the age of the session is compared, not the silence.
MutIdle(x) == x.age > IdleTimeout /\ x.state = "new"

Idle(x) == x.idle > IdleTimeout

NoClientHello(x) == x.state = "ice" /\ x.age > Watchdog

SenderReport(x) ==
  IF x.state = "streaming" /\ x.untilSr = 0
  THEN [x EXCEPT !.untilSr = SrPeriod] ELSE x

Tick(outcome) ==
  /\ Open
  /\ due
  /\ due' = FALSE
  /\ s' = IF Idle(s) \/ NoClientHello(s) THEN Close(s)
          ELSE SenderReport(DtlsTick(s, outcome))

\* age + 1, capped at the first value beyond the limit.
Older(age, limit) == IF age > limit THEN age ELSE age + 1

Advance ==
  /\ ~due /\ Open
  /\ due' = TRUE
  /\ s' = [s EXCEPT !.idle = Older(@, IdleTimeout), !.age = Older(@, Watchdog),
                    !.sinceIdr = Older(@, IdrInterval - 1),
                    !.inState = Older(@, Watchdog),
                    !.untilSr = IF @ = 0 THEN 0 ELSE @ - 1]

\* A close request or a shutdown: rtc_session_close through rtc_session_destroy.
CloseRequest ==
  /\ Open
  /\ s' = Close(s)
  /\ UNCHANGED due

\* The server loop destroys a closed session; the slot goes to another viewer.
Reap ==
  /\ s.state = "closed"
  /\ s' = Free(s.gen, s.held \ Resources)
  /\ due' = FALSE

-----------------------------------------------------------------------------
(* The datagrams that arrive *)

\* The check of a browser that was given the credentials: USERNAME in one of the two
\* orders, MESSAGE-INTEGRITY, and usually FINGERPRINT.
Check(type, gen, name, fingerprint) ==
  LET m == WithIntegrity(Append1(Header(0, type, 7),
                                 [type |-> "username", size |-> 16, value |-> name]),
                         Pwd(gen))
  IN  IF fingerprint THEN WithFingerprint(m) ELSE m

Names(gen) == {<<Browser, Ufrag(gen)>>, <<Ufrag(gen), Browser>>}

BrowserChecks(gen) == {Check("request", gen, n, f) : n \in Names(gen), f \in BOOLEAN}

\* A datagram as it is, damaged, or cut: another user name, no cookie, a length field
\* that is too small or too large, without its MESSAGE-INTEGRITY.
Variants(m) ==
  {m, [m EXCEPT !.attrs[1].value = <<Browser, 9>>],
      [m EXCEPT !.attrs[1].value = <<@[1]>>],
      [m EXCEPT !.cookie = FALSE], [m EXCEPT !.length = @ - FingerprintSize],
      [m EXCEPT !.length = @ + 4], UpTo(m, 1, 16)}

Datagrams ==
  UNION {Variants(Check(t, g, n, f)) : t \in {"request", "indication", "response"},
                                       g \in 0..1, n \in Names(0) \cup Names(1), f \in BOOLEAN}

\* The credentials in a datagram's MESSAGE-INTEGRITY.
KeyOf(m) == IF Len(m.attrs) < 2 THEN -1 ELSE m.attrs[2].value.key

\* What the session of each generation makes of the datagrams.
Verdicts ==
  {[gen |-> g, verdict |-> Verdict(m, g), key |-> KeyOf(m)] :
     g \in 0..1, m \in {d \in Datagrams : rtc_classify_packet(d.b0) = "stun"}}

Datagram == \/ \E v \in Verdicts, a \in Peers : v.gen = s.gen /\ HandleStun(v.verdict, v.key, a)
            \/ \E o \in Outcomes : Dtls(22, o)
            \/ \E k \in {"bye", "pli", "other"} : Rtcp(129, k)

Next == \/ Datagram \/ Advance \/ CloseRequest \/ Reap
        \/ s.state = "none" /\ \E o \in ParsedOffers, f \in Steps \cup {""} : HandleOffer(o, f)
        \/ \E o \in Outcomes : Tick(o)
        \/ \E idr \in BOOLEAN : SendUnit(idr)

Spec == Init /\ [][Next]_vars

-----------------------------------------------------------------------------
(* Properties *)

\* A session: its fields, with the ranges of its timers.
Session ==
  [state : {"none", "new", "ice", "dtls", "streaming", "closed"},
   dtls : {"init", "handshaking", "connected", "failed", "closed"},
   started : BOOLEAN, keyed : BOOLEAN, remote : Peers \cup {NoPeer},
   gen : 0..1, checked : 0..1, expected : Fingerprints,
   cert : DOMAIN FingerprintOf, held : SUBSET Resources,
   waiting : BOOLEAN, sent : BOOLEAN,
   sinceIdr : 0..IdrInterval, untilSr : 0..SrInterval,
   idle : 0..(IdleTimeout + 1), age : 0..(Watchdog + 1),
   inState : 0..(Watchdog + 1), closedCalls : Nat]

TypeOK == s \in Session /\ due \in BOOLEAN

(* However a session ends (BYE, timeout, close_notify, a failed handshake inside a   *)
(* tick or a datagram, a close request) and although closing re-enters itself        *)
(* through the DTLS state callback, on_closed is called exactly once and the DTLS     *)
(* engine ends up closed.  A session holds its socket, engine, packetizer and cache    *)
(* until it is destroyed, and a free slot holds nothing, whichever step of its last     *)
(* creation failed.                                                             *)
ClosedExactlyOnce ==
  /\ TypeOK
  /\ s.closedCalls = IF s.state = "closed" THEN 1 ELSE 0
  /\ s.state = "closed" <=> s.dtls = "closed"
  /\ s.held = IF s.state = "none" THEN {} ELSE Resources

\* The peer's certificate is the one the offer named, if it named one.
CertificateIsNamed(x) ==
  x.expected # "" => x.cert # "none" /\ x.expected = FingerprintOf[x.cert]

(* The two state machines agree: a session streams exactly while DTLS is connected.    *)
(* Then the SRTP keys exist, and media goes to the source of a check made with this      *)
(* session's credentials, never with those of the viewer that had the port before.  If   *)
(* the offer's last a=fingerprint line names a certificate, the peer showed one and it    *)
(* is the one named, so the keys are shared with the browser that posted the offer.  An   *)
(* offer whose last such line is empty names none; the code takes it and compares        *)
(* nothing, which is less than dtls_srtp.h:89 says, and so nothing is claimed for it.     *)
StreamingIsKeyed ==
  /\ s.state = "streaming" <=> s.dtls = "connected"
  /\ s.state = "dtls" <=> s.dtls = "handshaking"
  /\ s.state = "streaming" => s.keyed /\ CertificateIsNamed(s)
  /\ s.dtls \in {"handshaking", "connected"} => s.remote # NoPeer
  /\ s.remote # NoPeer => s.checked = s.gen

(* No session outlives a silent peer, and none waits for the ClientHello for longer    *)
(* than the watchdog: once the tick of the current time unit is done, every open        *)
(* session was heard within the idle timeout.                                       *)
SilenceEndsSession ==
  ~due /\ Open =>
    s.idle <= IdleTimeout /\ (s.state = "ice" => s.inState <= Watchdog)

(* What README.md says of the DTLS watchdog: it also closes a session whose handshake    *)
(* has begun and does not end.                                                     *)
HandshakeIsWatched == ~due /\ s.state = "dtls" => s.inState <= Watchdog

(* A session just made takes a datagram for a check exactly if it is one its browser made, up   *)
(* to the MESSAGE-INTEGRITY.  Every binding request is answered to its source and under    *)
(* its transaction, and a browser takes the answer to a valid check: its integrity and       *)
(* checksum are the ones it computes, and the mapped address is its own.                *)
ChecksAreAnswered ==
  s.state = "new" /\ s.age = 0 => \A m \in Datagrams, a \in Peers :
    LET r == Reply(m, s.gen, a)
        n == Len(r.attrs)
    IN  /\ Verdict(m, s.gen) = "valid" <=>
             /\ Len(m.attrs) >= 2 /\ m.length \in 40..Octets(m.attrs, Len(m.attrs))
             /\ \E c \in BrowserChecks(s.gen) : UpTo(m, 2, 0) = UpTo(c, 2, 0)
        /\ r # NoReply <=> m.type = "request" /\ m.cookie /\ WellSized(m)
        /\ r # NoReply => r.tid = m.tid /\ r.length = Octets(r.attrs, n)
        /\ Verdict(m, s.gen) = "valid" =>
             /\ XorMapped(r.attrs[1].value) = a
             /\ r.attrs[2].value = Hmac(Pwd(s.gen), UpTo(r, 1, r.length - FingerprintSize))
             /\ r.attrs[n].value = Crc(UpTo(r, n - 1, r.length))

-----------------------------------------------------------------------------
(* The reference for an offer: what its lines say, read as a whole *)

Short(t) == SelectSeq(t, LAMBDA l : l.tag # "long")
SectionOf(t, i) == Cardinality({j \in 1..i : t[j].tag = "m"})
Videos(t) == {i \in DOMAIN t : t[i].tag = "m" /\ t[i].value = "video"}
Lines(t, tag) == {i \in DOMAIN t : t[i].tag = tag}

\* The payload types mapped in the first video section, each with its first rtpmap line.
Mapped(t) ==
  LET inVideo == {i \in Lines(t, "rtpmap") : /\ Videos(t) # {} /\ t[i].pt \in 1..127
                                             /\ SectionOf(t, i) = SectionOf(t, Min(Videos(t)))}
      first == {i \in inVideo : \A j \in inVideo : j < i => t[j].pt # t[i].pt}
  IN  {i \in first : Cardinality({j \in first : j <= i}) <= SdpMaxH264}

\* The value the last fmtp line after rtpmap line i gives to a parameter.
Param(t, i, field, default) ==
  LET given == {j \in Lines(t, "fmtp") : /\ j > i /\ SectionOf(t, j) = SectionOf(t, i)
                                         /\ t[j].pt = t[i].pt /\ t[j][field] # -1}
  IN  IF given = {} THEN default ELSE t[Max(given)][field]

\* A constrained baseline decoder is best, then a baseline one, then an unnamed one.
Preference(t, i) ==
  LET idc == Param(t, i, "idc", -1)
      iop == Param(t, i, "iop", -1)
  IN  IF Param(t, i, "mode", 0) # 1 THEN 0
      ELSE IF idc = -1 THEN 1
      ELSE IF idc = 66 \/ (idc = 77 /\ iop >= 128) THEN (IF iop % 128 >= 64 THEN 3 ELSE 2)
      ELSE 0

\* A browser can reach the addresses of the answer: they are distinct ones of this host,
\* the one it already used comes first, or else a private one if there is one.
CandidatesAreOurs ==
  \A addrs \in Addresses, host \in Hosts :
    LET up == {addrs[i].ip : i \in {j \in DOMAIN addrs : addrs[j].up}} \ {Loopback}
        c == CandidateLines(HostCandidates(host, collect_interfaces(addrs)))
        ips == [i \in DOMAIN c |-> c[i].ip]
    IN  /\ Range(ips) \subseteq IF up = {} THEN {Loopback} ELSE up
        /\ Len(c) = Max({1, Min({SdpMaxCandidates, Cardinality(up)})})
        /\ IsInjective(ips)
        /\ \A i \in 2..Len(c) : c[i].below > c[i - 1].below
        /\ Cardinality(up) <= MaxInterfaces =>
             IF host \in up THEN ips[1] = host
             ELSE (\E ip \in up : is_private_ipv4(ip)) => is_private_ipv4(ips[1])

(* An offer is taken exactly if it has the transport attributes, at most the allowed        *)
(* number of sections, a video section with an H.264 format this server can send, and does    *)
(* not insist on being the DTLS server.  The answer then has one section per offered one,      *)
(* in order, of the same kind, and only the first video section has a port; its payload type     *)
(* is the earliest of the most preferred formats of that section; its candidates are distinct     *)
(* addresses of this host, the one the browser used first, in falling priority.               *)
AnswerFitsOffer ==
  s.state = "none" /\ s.gen = 0 => CandidatesAreOurs /\ \A text \in Offers :
    LET t == Short(text)
        offer == sdp_parse_offer(text)
        best == {i \in Mapped(t) : /\ Preference(t, i) > 0
                                   /\ \A j \in Mapped(t) : \/ Preference(t, j) < Preference(t, i)
                                                           \/ Preference(t, j) = Preference(t, i) /\ j >= i}
        ans == sdp_build_answer(offer, <<Loopback>>)
        setups == Lines(t, "setup")
    IN  /\ offer.reason = "" <=>
             /\ \A tag \in {"ufrag", "pwd", "fingerprint"} : Lines(t, tag) # {}
             /\ Cardinality(Lines(t, "m")) <= SdpMaxMlines
             /\ best # {}
             /\ setups # {} => t[Max(setups)].value # "passive"
        /\ offer.reason = "" =>
             /\ Len(ans.sections) = Cardinality(Lines(t, "m"))
             /\ \A i \in Lines(t, "m") :
                  LET sec == ans.sections[SectionOf(t, i)]
                  IN  /\ sec.kind = t[i].value
                      /\ sec.port # 0 <=> i = Min(Videos(t))
                      /\ sec.port # 0 => sec.mid = ans.bundle /\ \E j \in best : sec.pt = t[j].pt
=============================================================================
