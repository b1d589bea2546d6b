-------------------------- MODULE RtcSessionProofs --------------------------
(***************************************************************************)
(* That a session ends exactly once, that it streams only with the keys    *)
(* and to the address of its own browser, and that silence ends it: for    *)
(* all timeouts, peers and offers, and any number of viewers in the slot.   *)
(***************************************************************************)
EXTENDS RtcSession, TLAPS

-----------------------------------------------------------------------------
(* The inductive invariant *)

\* What holds of the session between two steps: ClosedExactlyOnce and
\* StreamingIsKeyed, and that a failed engine is closed at once, and that no
\* session has been in its state for longer than it exists.
Sound(x) ==
  /\ x \in Session
  /\ x.closedCalls = IF x.state = "closed" THEN 1 ELSE 0
  /\ x.held = IF x.state = "none" THEN {} ELSE Resources
  /\ x.state = "closed" <=> x.dtls = "closed"
  /\ x.state = "streaming" <=> x.dtls = "connected"
  /\ x.state = "dtls" <=> x.dtls = "handshaking"
  /\ x.dtls # "failed"
  /\ x.state = "streaming" => x.keyed /\ CertificateIsNamed(x)
  /\ x.dtls \in {"handshaking", "connected"} => x.remote # NoPeer
  /\ x.remote # NoPeer => x.checked = x.gen
  /\ x.inState <= x.age

Inv == Sound(s) /\ due \in BOOLEAN /\ SilenceEndsSession

\* The invariant is strong enough.
LEMMA InvImplies == Inv => ClosedExactlyOnce /\ StreamingIsKeyed /\ SilenceEndsSession
BY Zenon DEF Inv, Sound, ClosedExactlyOnce, StreamingIsKeyed, TypeOK

\* The timers begin in their ranges.
LEMMA Timers ==
  /\ IdleTimeout \in Nat /\ Watchdog \in Nat /\ IdrInterval \in Nat \ {0} /\ SrInterval \in Nat
  /\ 0 \in 0..(IdleTimeout + 1) /\ 0 \in 0..(Watchdog + 1)
  /\ 0 \in 0..IdrInterval /\ IdrInterval \in 0..IdrInterval
  /\ 0 \in 0..SrInterval /\ SrInterval \in 0..SrInterval
BY SessionAssumption

\* The fields that most steps leave alone.
Own(x, y) ==
  /\ y.held = x.held /\ y.gen = x.gen /\ y.remote = x.remote /\ y.checked = x.checked
  /\ y.expected = x.expected /\ y.cert = x.cert /\ y.keyed = x.keyed

Kept(x, y) == Own(x, y) /\ y.idle = x.idle /\ y.age = x.age

\* A step that only touches the timers and the history keeps it.
LEMMA StillSound ==
  ASSUME NEW x, NEW y \in Session, Sound(x), Own(x, y), y.inState <= y.age,
         y.state = x.state, y.dtls = x.dtls, y.closedCalls = x.closedCalls
  PROVE  Sound(y)
BY Zenon DEF Sound, Own, CertificateIsNamed

-----------------------------------------------------------------------------
(* Sessions that begin *)

\* rtc_session_create.
LEMMA NewIsSound ==
  ASSUME NEW gen \in 0..1, NEW f \in Fingerprints PROVE Sound(New(gen, f))
<1> DEFINE x == New(gen, f)
<1>1. x \in Session
  BY Timers, Zenon DEF New, Session, Resources, FingerprintOf
<1>2. /\ x.state = "new" /\ x.dtls = "init" /\ x.closedCalls = 0 /\ x.held = Resources
      /\ x.remote = NoPeer /\ x.inState = 0 /\ x.age = 0
  BY DEF New
<1>3. x.inState <= x.age
  BY <1>2
<1>4. Sound(x)
  <2> HIDE DEF x
  <2> QED BY <1>1, <1>2, <1>3, Zenon DEF Sound
<1> QED BY <1>4

\* A slot without a session, if nothing is left of the last one.
LEMMA FreeIsSound ==
  ASSUME NEW gen \in 0..1 PROVE Sound(Free(gen, {}))
<1> DEFINE x == Free(gen, {})
<1>1. x \in Session
  BY Timers, OfferAssumption, Zenon DEF Free, New, Session, FingerprintOf
<1>2. /\ x.state = "none" /\ x.dtls = "init" /\ x.closedCalls = 0 /\ x.held = {}
      /\ x.remote = NoPeer /\ x.inState = 0 /\ x.age = 0
  BY DEF Free, New
<1>3. x.inState <= x.age
  BY <1>2
<1>4. Sound(x)
  <2> HIDE DEF x
  <2> QED BY <1>1, <1>2, <1>3, Zenon DEF Sound
<1> QED BY <1>4

\* Whichever step of rtc_session_create fails, what was taken is given back.
LEMMA NothingLeft == \A step \in Steps : TakenBefore(step) \ Released(step) = {}
BY DEF Steps, TakenBefore, Released, Resources

\* The slot is free when the server starts.
LEMMA InitInv == Init => Inv
<1> SUFFICES ASSUME Init PROVE Inv
  OBVIOUS
<1>1. Sound(s)
  BY FreeIsSound DEF Init
<1>2. s.state = "none"
  BY DEF Init, Free, New
<1> QED BY <1>1, <1>2, Zenon DEF Inv, Init, SilenceEndsSession, Open

-----------------------------------------------------------------------------
(* Sessions that end *)

\* What a session needs to be closed, also in the middle of a step.
Closable(x) ==
  /\ x \in Session /\ x.state \notin {"none", "closed"}
  /\ x.closedCalls = 0 /\ x.held = Resources
  /\ x.remote # NoPeer => x.checked = x.gen

\* Between two steps every open session can be closed.
LEMMA OpenIsClosable ==
  ASSUME NEW x, Sound(x), x.state \notin {"none", "closed"} PROVE Closable(x)
BY Zenon DEF Sound, Closable

\* set_state.
LEMMA SetStateSets ==
  ASSUME NEW x \in Session, NEW st \in {"new", "ice", "dtls", "streaming", "closed"},
         NEW y, y = SetState(x, st)
  PROVE  /\ y \in Session /\ Kept(x, y)
         /\ y.state = st /\ y.inState = 0 /\ y.dtls = x.dtls /\ y.closedCalls = x.closedCalls
<1>1. y \in Session
  BY Timers, Zenon DEF SetState, Session
<1>2. Kept(x, y)
  BY Zenon DEF SetState, Session, Kept, Own
<1>3. y.state = st /\ y.inState = 0 /\ y.dtls = x.dtls /\ y.closedCalls = x.closedCalls
  BY DEF SetState, Session
<1> QED BY <1>1, <1>2, <1>3, Zenon

\* The assignment in dtls_set_state.
LEMMA DtlsSets ==
  ASSUME NEW x \in Session, NEW st \in {"handshaking", "connected", "failed", "closed"},
         NEW y, y = [x EXCEPT !.dtls = st]
  PROVE  /\ y \in Session /\ Kept(x, y)
         /\ y.dtls = st /\ y.state = x.state /\ y.closedCalls = x.closedCalls
         /\ y.inState = x.inState
<1>1. y \in Session
  BY DEF Session
<1>2. Kept(x, y)
  BY Zenon DEF Session, Kept, Own
<1>3. /\ y.dtls = st /\ y.state = x.state /\ y.closedCalls = x.closedCalls
      /\ y.inState = x.inState
  BY DEF Session
<1> QED BY <1>1, <1>2, <1>3, Zenon

\* The on_closed hook.
LEMMA OnClosedCounts ==
  ASSUME NEW x \in Session, x.closedCalls = 0, NEW y, y = OnClosed(x)
  PROVE  /\ y \in Session /\ Kept(x, y)
         /\ y.closedCalls = 1 /\ y.state = x.state /\ y.dtls = x.dtls /\ y.inState = x.inState
<1>1. y \in Session
  BY DEF OnClosed, Session
<1>2. Kept(x, y)
  BY Zenon DEF OnClosed, Session, Kept, Own
<1>3. y.closedCalls = 1 /\ y.state = x.state /\ y.dtls = x.dtls /\ y.inState = x.inState
  BY DEF OnClosed, Session
<1> QED BY <1>1, <1>2, <1>3, Zenon

\* A session is closed and complete.
Ended(x, y) ==
  /\ y \in Session /\ Kept(x, y)
  /\ y.state = "closed" /\ y.dtls = "closed" /\ y.closedCalls = 1 /\ y.inState = 0

\* Such a session is as the invariant wants it.
LEMMA EndedIsSound ==
  ASSUME NEW x, Closable(x), NEW y, Ended(x, y) PROVE Sound(y) /\ y.state = "closed"
<1>1. y.age \in 0..(Watchdog + 1)
  BY DEF Ended, Session
<1>2. y.inState <= y.age
  BY <1>1, Timers DEF Ended
<1> QED BY <1>2, Zenon DEF Sound, Closable, Ended, Kept, Own

\* rtc_session_close, with the engine's callback inside.
LEMMA CloseEnds ==
  ASSUME NEW x, Closable(x) PROVE Ended(x, Close(x))
<1>a. PICK a : a = SetState(x, "closed")
  BY Zenon
<1>b. PICK b : b = [a EXCEPT !.dtls = "closed"]
  BY Zenon
<1>c. PICK c : c = IF a.dtls = "closed" THEN a ELSE b
  OBVIOUS
<1>1. x \in Session /\ x.state # "closed" /\ x.closedCalls = 0
  BY Zenon DEF Closable
<1>2. /\ a \in Session /\ Kept(x, a) /\ a.state = "closed" /\ a.inState = 0
      /\ a.closedCalls = 0
  BY <1>1, <1>a, SetStateSets
<1>3. /\ b \in Session /\ Kept(a, b) /\ b.state = "closed" /\ b.inState = 0
      /\ b.closedCalls = 0 /\ b.dtls = "closed"
  BY <1>2, <1>b, DtlsSets
<1>4. Close(x) = OnClosed(c)
  BY <1>1, <1>3, <1>a, <1>b, <1>c, Zenon DEF Close, DtlsClose, CloseAgain
<1>5. /\ c \in Session /\ Kept(x, c) /\ c.state = "closed" /\ c.inState = 0
      /\ c.closedCalls = 0 /\ c.dtls = "closed"
  BY <1>2, <1>3, <1>c, Zenon DEF Kept, Own
<1>6. /\ Close(x) \in Session /\ Kept(c, Close(x)) /\ Close(x).closedCalls = 1
      /\ Close(x).state = "closed" /\ Close(x).dtls = "closed" /\ Close(x).inState = 0
  BY <1>4, <1>5, OnClosedCounts, Zenon
<1> QED BY <1>5, <1>6, Zenon DEF Ended, Kept, Own

\* dtls_srtp_close of an engine that is not closed, with the session's callback.
LEMMA DtlsCloseEnds ==
  ASSUME NEW x, Closable(x), x.dtls # "closed" PROVE Ended(x, DtlsClose(x))
<1>a. PICK a : a = [x EXCEPT !.dtls = "closed"]
  BY Zenon
<1>b. PICK b : b = SetState(a, "closed")
  BY Zenon
<1>1. x \in Session /\ x.state # "closed" /\ x.closedCalls = 0
  BY Zenon DEF Closable
<1>2. /\ a \in Session /\ Kept(x, a) /\ a.state # "closed" /\ a.dtls = "closed"
      /\ a.closedCalls = 0
  BY <1>1, <1>a, DtlsSets
<1>3. DtlsClose(x) = OnClosed(b)
  BY <1>2, <1>a, <1>b, Zenon DEF DtlsClose, CloseAgain
<1>4. /\ b \in Session /\ Kept(a, b) /\ b.state = "closed" /\ b.inState = 0
      /\ b.closedCalls = 0 /\ b.dtls = "closed"
  BY <1>2, <1>b, SetStateSets
<1> DEFINE y == DtlsClose(x)
<1>5. /\ y \in Session /\ Kept(b, y) /\ y.closedCalls = 1
      /\ y.state = "closed" /\ y.dtls = "closed" /\ y.inState = 0
  BY <1>3, <1>4, OnClosedCounts, Zenon
<1> QED BY <1>2, <1>4, <1>5, Zenon DEF Ended, Kept, Own

\* An engine that fails ends its session too.
LEMMA FailedEnds ==
  ASSUME NEW x, Closable(x), x.dtls # "failed" PROVE Ended(x, DtlsSetState(x, "failed"))
<1>a. PICK a : a = [x EXCEPT !.dtls = "failed"]
  BY Zenon
<1>1. x \in Session
  BY Zenon DEF Closable
<1>2. /\ a \in Session /\ Kept(x, a) /\ a.state = x.state /\ a.closedCalls = x.closedCalls
  BY <1>1, <1>a, DtlsSets
<1>3. DtlsSetState(x, "failed") = Close(a)
  BY <1>a DEF DtlsSetState
<1>4. Closable(a)
  BY <1>2, Zenon DEF Closable, Kept, Own
<1>5. Ended(a, Close(a))
  BY <1>4, CloseEnds
<1> QED BY <1>2, <1>3, <1>5, Zenon DEF Ended, Kept, Own

-----------------------------------------------------------------------------
(* Handshakes *)

\* rtc_session_request_idr.
LEMMA RequestIdrKeeps ==
  ASSUME NEW x \in Session, NEW y, y = RequestIdr(x)
  PROVE  /\ y \in Session /\ Kept(x, y) /\ y.inState = x.inState
         /\ y.state = x.state /\ y.dtls = x.dtls /\ y.closedCalls = x.closedCalls
<1>1. y \in Session
  BY Timers, Zenon DEF RequestIdr, Session
<1>2. Kept(x, y)
  BY Zenon DEF RequestIdr, Session, Kept, Own
<1>3. /\ y.inState = x.inState
      /\ y.state = x.state /\ y.dtls = x.dtls /\ y.closedCalls = x.closedCalls
  BY Zenon DEF RequestIdr, Session
<1> QED BY <1>1, <1>2, <1>3

\* dtls_on_connected.
LEMMA OnConnectedStreams ==
  ASSUME NEW x \in Session, NEW y, y = OnConnected(x)
  PROVE  /\ y \in Session /\ Kept(x, y) /\ y.inState = 0
         /\ y.state = "streaming" /\ y.dtls = x.dtls /\ y.closedCalls = x.closedCalls
<1>a. PICK a : a = SetState(x, "streaming")
  BY Zenon
<1>b. PICK b : b = [a EXCEPT !.waiting = TRUE]
  BY Zenon
<1>c. PICK c : c = RequestIdr(b)
  BY Zenon
<1>1. /\ a \in Session /\ Kept(x, a) /\ a.inState = 0
      /\ a.state = "streaming" /\ a.dtls = x.dtls /\ a.closedCalls = x.closedCalls
  BY <1>a, SetStateSets
<1>2. /\ b \in Session /\ Kept(a, b) /\ b.inState = a.inState
      /\ b.state = a.state /\ b.dtls = a.dtls /\ b.closedCalls = a.closedCalls
  <2>1. a \in Session
    BY <1>1
  <2>2. b \in Session
    BY <1>b, <2>1, Zenon DEF Session
  <2>3. Kept(a, b)
    BY <1>b, <2>1, Zenon DEF Session, Kept, Own
  <2>4. /\ b.inState = a.inState
        /\ b.state = a.state /\ b.dtls = a.dtls /\ b.closedCalls = a.closedCalls
    BY <1>b, <2>1, Zenon DEF Session
  <2> QED BY <2>2, <2>3, <2>4
<1>3. /\ c \in Session /\ Kept(b, c) /\ c.inState = b.inState
      /\ c.state = b.state /\ c.dtls = b.dtls /\ c.closedCalls = b.closedCalls
  BY <1>2, <1>c, RequestIdrKeeps
<1>4. y = [c EXCEPT !.untilSr = SrInterval]
  BY <1>a, <1>b, <1>c, Zenon DEF OnConnected, SrPeriod
<1>5. y \in Session
  BY <1>3, <1>4, Timers, Zenon DEF Session
<1>6. /\ Kept(c, y) /\ y.inState = c.inState
      /\ y.state = c.state /\ y.dtls = c.dtls /\ y.closedCalls = c.closedCalls
  BY <1>3, <1>4, Zenon DEF Session, Kept, Own
<1> QED BY <1>1, <1>2, <1>3, <1>5, <1>6, Zenon DEF Kept, Own

\* The end of pump_ssl, when the handshake has finished.
LEMMA FinishKeeps ==
  ASSUME NEW x, Sound(x), x.state \notin {"none", "closed"}, x.remote # NoPeer,
         NEW o \in Finished, NEW y, y = Finish(x, o)
  PROVE  Sound(y) /\ y.idle = x.idle /\ y.state \in {"streaming", "closed"}
<1>0. x \in Session /\ x.dtls # "failed" /\ Closable(x)
  BY OpenIsClosable, Zenon DEF Sound
<1>1. CASE derive_srtp_keys(x, o)
  <2>a. PICK a : a = [x EXCEPT !.keyed = TRUE, !.cert = o.cert]
    BY Zenon
  <2>b. PICK b : b = DtlsSetState(a, "connected")
    BY Zenon
  <2>1. o.cert \in DOMAIN FingerprintOf
    BY Zenon DEF Finished
  <2>2. a \in Session
    BY <1>0, <2>1, <2>a, Zenon DEF Session
  <2>3. /\ a.keyed = TRUE /\ a.cert = o.cert /\ a.state = x.state /\ a.dtls = x.dtls
        /\ a.closedCalls = x.closedCalls /\ a.held = x.held /\ a.gen = x.gen
        /\ a.remote = x.remote /\ a.checked = x.checked /\ a.expected = x.expected
        /\ a.idle = x.idle /\ a.age = x.age
    BY <1>0, <2>a, Zenon DEF Session
  <2>4. /\ b \in Session /\ Kept(a, b) /\ b.dtls = "connected"
        /\ b.closedCalls = a.closedCalls
    <3>1. CASE a.dtls = "connected"
      BY <2>2, <2>b, <3>1, Zenon DEF DtlsSetState, Kept, Own
    <3>2. CASE a.dtls # "connected"
      <4>1. b = [a EXCEPT !.dtls = "connected"]
        BY <2>b, <3>2 DEF DtlsSetState
      <4> QED BY <2>2, <4>1, DtlsSets
    <3> QED BY <3>1, <3>2
  <2>5. y = OnConnected(b)
    BY <1>1, <2>a, <2>b, Zenon DEF Finish
  <2>6. /\ y \in Session /\ Kept(b, y) /\ y.inState = 0 /\ y.state = "streaming"
        /\ y.dtls = "connected" /\ y.closedCalls = x.closedCalls
    BY <2>3, <2>4, <2>5, OnConnectedStreams, Zenon
  <2>7. x.expected # "" => o.cert # "none" /\ x.expected = FingerprintOf[o.cert]
    BY <1>1, Zenon DEF derive_srtp_keys, fingerprint_hex_equal
  <2>8. y.inState <= y.age
    <3>1. y.age \in 0..(Watchdog + 1)
      BY <2>6, Zenon DEF Session
    <3> QED BY <2>6, <3>1, Timers
  <2>9. Kept(a, y)
    BY <2>4, <2>6, Zenon DEF Kept, Own
  <2>10. Sound(y)
    <3>a. y.closedCalls = 0 /\ x.held = Resources /\ x.checked = x.gen
      BY <1>0, <2>6, Zenon DEF Closable
    <3>b. /\ y.held = x.held /\ y.keyed = TRUE /\ y.remote = x.remote
          /\ y.checked = x.checked /\ y.gen = x.gen
      BY <2>3, <2>9, Zenon DEF Kept, Own
    <3>1. /\ y.closedCalls = 0 /\ y.held = Resources /\ y.keyed = TRUE
          /\ y.remote # NoPeer /\ y.checked = y.gen
      BY <3>a, <3>b, Zenon
    <3>2. CertificateIsNamed(y)
      <4>1. y.expected = x.expected /\ y.cert = o.cert
        BY <2>3, <2>9, Zenon DEF Kept, Own
      <4> QED BY <2>7, <4>1, Zenon DEF CertificateIsNamed
    <3> QED BY <2>6, <2>8, <3>1, <3>2, Zenon DEF Sound
  <2> QED BY <2>3, <2>6, <2>9, <2>10, Zenon DEF Kept
<1>2. CASE ~derive_srtp_keys(x, o)
  <2>1. y = DtlsSetState(x, "failed")
    BY <1>2, Zenon DEF Finish
  <2>2. Ended(x, y)
    BY <1>0, <2>1, FailedEnds
  <2> QED BY <1>0, <2>2, EndedIsSound, Zenon DEF Ended, Kept
<1> QED BY <1>1, <1>2

\* The start of the handshake in pump_ssl.
LEMMA BeginKeeps ==
  ASSUME NEW x, Sound(x), x.state \notin {"none", "closed"}, x.remote # NoPeer,
         NEW y, y = DtlsSetState([x EXCEPT !.started = TRUE], "handshaking")
  PROVE  Sound(y) /\ y.idle = x.idle /\ y.state = "dtls" /\ y.remote # NoPeer
<1>a. PICK a : a = [x EXCEPT !.started = TRUE]
  BY Zenon
<1>0. x \in Session /\ Closable(x)
  BY OpenIsClosable, Zenon DEF Sound
<1>1. a \in Session
  BY <1>0, <1>a, Zenon DEF Session
<1>2. /\ Kept(x, a) /\ a.state = x.state /\ a.dtls = x.dtls
      /\ a.closedCalls = x.closedCalls /\ a.inState = x.inState
  BY <1>0, <1>a, Zenon DEF Session, Kept, Own
<1>3. CASE a.dtls = "handshaking"
  <2>1. y = a
    BY <1>3, <1>a, Zenon DEF DtlsSetState
  <2>2. y.inState <= y.age
    BY <1>2, <2>1, Zenon DEF Sound, Kept
  <2>3. Sound(y)
    BY <1>1, <1>2, <2>1, <2>2, StillSound, Zenon DEF Kept
  <2> QED BY <1>2, <1>3, <2>1, <2>3, Zenon DEF Kept, Own, Sound
<1>4. CASE a.dtls # "handshaking"
  <2>b. PICK b : b = [a EXCEPT !.dtls = "handshaking"]
    BY Zenon
  <2>1. y = SetState(b, "dtls")
    BY <1>4, <1>a, <2>b, Zenon DEF DtlsSetState
  <2>2. /\ b \in Session /\ Kept(a, b) /\ b.dtls = "handshaking"
        /\ b.closedCalls = a.closedCalls
    BY <1>1, <2>b, DtlsSets
  <2>3. /\ y \in Session /\ Kept(b, y) /\ y.dtls = "handshaking" /\ y.state = "dtls"
        /\ y.closedCalls = a.closedCalls /\ y.inState = 0
    BY <2>1, <2>2, SetStateSets
  <2>4. Kept(x, y)
    BY <1>2, <2>2, <2>3, Zenon DEF Kept, Own
  <2>5. y.inState <= y.age
    <3>1. y.age \in 0..(Watchdog + 1)
      BY <2>3, Zenon DEF Session
    <3> QED BY <2>3, <3>1, Timers
  <2>6. Sound(y)
    <3>1. /\ y.closedCalls = 0 /\ y.held = Resources
          /\ y.remote # NoPeer /\ y.checked = y.gen
      BY <1>0, <1>2, <2>3, <2>4, Zenon DEF Closable, Kept, Own
    <3> QED BY <2>3, <2>5, <3>1, Zenon DEF Sound
  <2> QED BY <2>3, <2>4, <2>6, Zenon DEF Kept, Own
<1> QED BY <1>3, <1>4

\* pump_ssl, whatever OpenSSL makes of what it reads.
LEMMA PumpKeeps ==
  ASSUME NEW x, Sound(x), x.state \notin {"none", "closed"}, x.remote # NoPeer,
         NEW o \in Outcomes, NEW y, y = Pump(x, o)
  PROVE  /\ Sound(y) /\ y.idle = x.idle
         /\ y.state \in {"dtls", "streaming", "closed"} \/ y = x
<1>a. PICK a : a = IF ~x.started THEN DtlsSetState([x EXCEPT !.started = TRUE], "handshaking")
                   ELSE x
  BY Zenon
<1>1. /\ Sound(a) /\ a.idle = x.idle /\ a.remote # NoPeer
      /\ a.state \notin {"none", "closed"} /\ (a.state = "dtls" \/ a = x)
  BY <1>a, BeginKeeps, Zenon
<1>2. Closable(a) /\ a.dtls \notin {"failed", "closed"} /\ x.dtls \notin {"failed", "closed"}
  BY <1>1, OpenIsClosable, Zenon DEF Sound
<1>3. CASE o.kind = "error" \/ (~x.started /\ o.kind = "closed")
  <2>1. y = DtlsSetState(a, "failed")
    BY <1>2, <1>3, <1>a DEF Pump
  <2>2. Ended(a, y)
    BY <1>2, <2>1, FailedEnds, Zenon
  <2> QED BY <1>1, <1>2, <2>2, EndedIsSound, Zenon DEF Ended, Kept
<1>4. CASE o.kind = "closed" /\ x.started
  <2>1. y = DtlsClose(a)
    BY <1>2, <1>4, <1>a DEF Pump
  <2>2. Ended(a, y)
    BY <1>2, <2>1, DtlsCloseEnds, Zenon
  <2> QED BY <1>1, <1>2, <2>2, EndedIsSound, Zenon DEF Ended, Kept
<1>5. CASE o.kind = "finished" /\ ~x.keyed
  <2>1. y = Finish(a, o)
    BY <1>2, <1>5, <1>a DEF Pump
  <2>2. o \in Finished
    BY <1>5, Zenon DEF Outcomes
  <2> QED BY <1>1, <2>1, <2>2, FinishKeeps, Zenon
<1>6. CASE ~(\/ o.kind = "error" \/ (~x.started /\ o.kind = "closed")
             \/ (o.kind = "closed" /\ x.started) \/ (o.kind = "finished" /\ ~x.keyed))
  <2>1. y = a
    BY <1>2, <1>6, <1>a DEF Pump
  <2> QED BY <1>1, <2>1, Zenon
<1> QED BY <1>3, <1>4, <1>5, <1>6, Zenon

-----------------------------------------------------------------------------
(* Checks *)

\* Datagrams of type t with attributes in S.
Packets(t, S) ==
  [b0 : {0}, type : {t}, cookie : BOOLEAN, length : Int, tid : {7}, attrs : Seq(S)]

\* x has been appended to the sequence a.
OneMore(a, x, b) ==
  /\ Len(b) = Len(a) + 1 /\ b[Len(a) + 1] = x
  /\ \A i \in 1..Len(a) : b[i] = a[i]

\* An attribute appended to a datagram.
LEMMA AppendsOne ==
  ASSUME NEW t, NEW S, NEW p \in Packets(t, S), NEW x \in S, x.size \in Int,
         NEW q, q = Append1(p, x)
  PROVE  q \in Packets(t, S) /\ OneMore(p.attrs, x, q.attrs)
<1>0. p.attrs \in Seq(S) /\ p.length \in Int
  BY DEF Packets
<1>1. Append(p.attrs, x) \in Seq(S) /\ p.length + x.size \in Int
  BY <1>0
<1>2. q = [p EXCEPT !.attrs = Append(p.attrs, x), !.length = p.length + x.size]
  BY Zenon DEF Append1
<1>3. q \in Packets(t, S) /\ q.attrs = Append(p.attrs, x)
  BY <1>1, <1>2, Zenon DEF Packets
<1>4. OneMore(p.attrs, x, Append(p.attrs, x))
  BY <1>0 DEF OneMore
<1> QED BY <1>3, <1>4, Zenon

\* By their types, the attributes of a datagram that arrives.
Shaped(q) ==
  /\ Len(q) \in 1..3 /\ DOMAIN q = 1..Len(q)
  /\ q[1].type = "username" /\ "type" \in DOMAIN q[1]
  /\ Len(q) >= 2 => q[2].type = "integrity"
  /\ Len(q) = 3 => q[3].type = "fingerprint"

\* Only the second attribute can be a MESSAGE-INTEGRITY.
LEMMA ShapedIntegrity ==
  ASSUME NEW q, Shaped(q), NEW i \in DOMAIN q, q[i].type = "integrity"
  PROVE  i = 2 /\ Len(q) >= 2
BY DEF Shaped

\* A browser's check has USERNAME, MESSAGE-INTEGRITY and perhaps FINGERPRINT.
LEMMA CheckIsShaped ==
  ASSUME NEW t, NEW g, NEW n, NEW f
  PROVE  \E S : /\ Check(t, g, n, f) \in Packets(t, S)
                /\ Shaped(Check(t, g, n, f).attrs) /\ Len(Check(t, g, n, f).attrs) >= 2
<1>u. PICK u : u = [type |-> "username", size |-> 16, value |-> n]
  BY Zenon
<1>a. PICK a : a = Append1(Header(0, t, 7), u)
  BY Zenon
<1>m. PICK m : m = [type |-> "integrity", size |-> MiSize,
                    value |-> Hmac(Pwd(g), [a EXCEPT !.length = @ + MiSize])]
  BY Zenon
<1>b. PICK b : b = Append1(a, m)
  BY Zenon
<1>w. PICK w : w = [type |-> "fingerprint", size |-> FingerprintSize,
                    value |-> Crc([b EXCEPT !.length = @ + FingerprintSize])]
  BY Zenon
<1>c. PICK c : c = Append1(b, w)
  BY Zenon
<1> DEFINE S == {u, m, w}
<1>0. /\ u.type = "username" /\ m.type = "integrity" /\ w.type = "fingerprint"
      /\ "type" \in DOMAIN u /\ u.size \in Int /\ m.size \in Int /\ w.size \in Int
  BY <1>u, <1>m, <1>w DEF MiSize, FingerprintSize
<1>s. u \in S /\ m \in S /\ w \in S
  BY Zenon
<1>1. Header(0, t, 7) \in Packets(t, S) /\ Len(Header(0, t, 7).attrs) = 0
  BY DEF Header, Packets
<1> HIDE DEF S
<1>2. a \in Packets(t, S) /\ Len(a.attrs) = 1 /\ a.attrs[1] = u
  <2>1. a \in Packets(t, S) /\ OneMore(Header(0, t, 7).attrs, u, a.attrs)
    BY <1>0, <1>1, <1>a, <1>s, AppendsOne, Zenon
  <2> QED BY <1>1, <2>1 DEF OneMore
<1>3. b \in Packets(t, S) /\ Len(b.attrs) = 2 /\ b.attrs[1] = u /\ b.attrs[2] = m
  <2>1. b \in Packets(t, S) /\ OneMore(a.attrs, m, b.attrs)
    BY <1>0, <1>2, <1>b, <1>s, AppendsOne, Zenon
  <2> QED BY <1>2, <2>1 DEF OneMore
<1>4. /\ c \in Packets(t, S) /\ Len(c.attrs) = 3
      /\ c.attrs[1] = u /\ c.attrs[2] = m /\ c.attrs[3] = w
  <2>1. c \in Packets(t, S) /\ OneMore(b.attrs, w, c.attrs)
    BY <1>0, <1>3, <1>c, <1>s, AppendsOne, Zenon
  <2> QED BY <1>3, <2>1 DEF OneMore
<1>5. Check(t, g, n, f) = IF f THEN c ELSE b
  BY <1>u, <1>a, <1>m, <1>b, <1>w, <1>c, Zenon DEF Check, WithIntegrity, WithFingerprint
<1>6. b.attrs \in Seq(S) /\ c.attrs \in Seq(S)
  BY <1>3, <1>4, Zenon DEF Packets
<1>7. Shaped(b.attrs) /\ Shaped(c.attrs)
  BY <1>0, <1>3, <1>4, <1>6 DEF Shaped
<1> QED BY <1>3, <1>4, <1>5, <1>7

\* A function on 1..n is a sequence.
LEMMA FunctionIsSeq ==
  ASSUME NEW S, NEW n \in Nat, NEW f \in [1..n -> S] PROVE f \in Seq(S) /\ Len(f) = n
OBVIOUS

\* However a check is damaged on its way.
LEMMA VariantIsShaped ==
  ASSUME NEW t, NEW S, NEW c \in Packets(t, S), Shaped(c.attrs), Len(c.attrs) >= 2,
         NEW m \in Variants(c)
  PROVE  Shaped(m.attrs)
<1>q. PICK q : q = c.attrs
  BY Zenon
<1>0. q \in Seq(S) /\ Len(q) \in Nat /\ q \in [1..Len(q) -> S]
  BY <1>q DEF Packets
<1>1. ASSUME NEW v, m = [c EXCEPT !.attrs[1].value = v] PROVE Shaped(m.attrs)
  <2>e. PICK e : e = [q[1] EXCEPT !.value = v]
    BY Zenon
  <2>1. m.attrs = [q EXCEPT ![1] = e]
    BY <1>1, <1>q, <2>e DEF Packets
  <2>2. m.attrs \in [1..Len(q) -> S \cup {e}]
    BY <1>0, <2>1, Zenon
  <2>3. Len(m.attrs) = Len(q) /\ DOMAIN m.attrs = 1..Len(q)
    BY <1>0, <2>2, FunctionIsSeq
  <2>4. e.type = q[1].type /\ "type" \in DOMAIN e
    BY <1>q, <2>e DEF Shaped
  <2>5. /\ 1 \in DOMAIN q /\ m.attrs[1] = e
        /\ \A i \in DOMAIN q : i # 1 => m.attrs[i] = q[i]
    BY <1>0, <1>q, <2>1 DEF Shaped
  <2> QED BY <1>0, <1>q, <2>3, <2>4, <2>5 DEF Shaped
<1>2. CASE m.attrs = q
  BY <1>2, <1>q
<1>3. CASE m = UpTo(c, 1, 16)
  <2>1. m.attrs = SubSeq(q, 1, 1)
    BY <1>3, <1>q DEF UpTo, Packets
  <2>2. Len(m.attrs) = 1 /\ DOMAIN m.attrs = 1..1 /\ m.attrs[1] = q[1]
    BY <1>0, <1>q, <2>1 DEF Shaped
  <2> QED BY <1>q, <2>2 DEF Shaped
<1>4. CASE m \in {c, [c EXCEPT !.cookie = FALSE], [c EXCEPT !.length = @ - FingerprintSize],
                  [c EXCEPT !.length = @ + 4]}
  <2>1. m.attrs = q
    BY <1>4, <1>q DEF Packets
  <2> QED BY <1>2, <2>1
<1>5. \/ m \in {c, [c EXCEPT !.cookie = FALSE], [c EXCEPT !.length = @ - FingerprintSize],
                [c EXCEPT !.length = @ + 4]}
      \/ m = UpTo(c, 1, 16)
      \/ \E v : m = [c EXCEPT !.attrs[1].value = v]
  BY Zenon DEF Variants
<1> QED BY <1>1, <1>3, <1>4, <1>5

\* stun_verify_mi compares with the first MESSAGE-INTEGRITY, which is where the
\* browser put its own.
LEMMA VerifiedKey ==
  ASSUME NEW m, Shaped(m.attrs), NEW g, stun_verify_mi(m, g) PROVE KeyOf(m) = g
<1> DEFINE i == stun_find_attribute(m, "integrity")
           seen == {k \in DOMAIN m.attrs : Octets(m.attrs, k) <= m.length}
           hits == {k \in seen : m.attrs[k].type = "integrity"}
<1>1. i # 0 /\ m.attrs[i].value = Hmac(g, UpTo(m, i - 1, Octets(m.attrs, i - 1) + MiSize))
  BY Zenon DEF stun_verify_mi
<1>2. hits # {} /\ i = CHOOSE k \in hits : \A j \in hits : k <= j
  BY <1>1, Zenon DEF stun_find_attribute
<1>3. \A k \in hits : k = 2 /\ Len(m.attrs) >= 2
  BY ShapedIntegrity
<1>4. i = 2 /\ Len(m.attrs) >= 2
  <2> HIDE DEF hits, i
  <2>1. 2 \in hits /\ \A j \in hits : 2 <= j
    BY <1>2, <1>3
  <2> QED BY <1>2, <1>3, <2>1
<1>5. m.attrs[2].value.key = g
  <2>1. PICK z : m.attrs[2].value = Hmac(g, z)
    BY <1>1, <1>4, Zenon
  <2> QED BY <2>1 DEF Hmac
<1>6. ~(Len(m.attrs) < 2)
  BY <1>4 DEF Shaped
<1> QED BY <1>5, <1>6, Zenon DEF KeyOf

\* A datagram the session takes for a valid check was made with its own
\* credentials, whoever had the port before (handle_stun).
LEMMA ValidIsOwn ==
  ASSUME NEW v \in Verdicts, v.verdict = "valid" PROVE v.key = v.gen
<1>1. PICK g \in 0..1, m \in Datagrams :
        v = [gen |-> g, verdict |-> Verdict(m, g), key |-> KeyOf(m)]
  BY DEF Verdicts
<1>2. PICK t \in {"request", "indication", "response"}, h \in 0..1,
           n \in Names(0) \cup Names(1), f \in BOOLEAN : m \in Variants(Check(t, h, n, f))
  BY DEF Datagrams
<1>3. Shaped(m.attrs)
  <2>1. PICK c : c = Check(t, h, n, f)
    BY Zenon
  <2>2. PICK S : c \in Packets(t, S) /\ Shaped(c.attrs) /\ Len(c.attrs) >= 2
    BY <2>1, CheckIsShaped, Zenon
  <2>3. m \in Variants(c)
    BY <1>2, <2>1, Zenon
  <2> QED BY <2>2, <2>3, VariantIsShaped
<1>4. Verdict(m, g) = "valid" /\ v.key = KeyOf(m) /\ v.gen = g
  BY <1>1, Zenon
<1>5. stun_verify_mi(m, g)
  BY <1>4 DEF Verdict, Pwd
<1> QED BY <1>3, <1>4, <1>5, VerifiedKey, Zenon

-----------------------------------------------------------------------------
(* The steps *)

\* What SilenceEndsSession says of an open session.
Fresh(x) == x.idle <= IdleTimeout /\ (x.state = "ice" => x.inState <= Watchdog)

\* What is to be shown of a step.
LEMMA InvAgain ==
  ASSUME Sound(s'), due' \in BOOLEAN,
         ~due' /\ s'.state \notin {"none", "closed"} => Fresh(s')
  PROVE  Inv'
BY Zenon DEF Inv, SilenceEndsSession, Open, Fresh

\* The next session has the other credentials.
LEMMA OtherGen == ASSUME NEW gen \in 0..1 PROVE 1 - gen \in 0..1
OBVIOUS

\* A session that was heard just now, and does not wait for a ClientHello or began
\* to just now.
LEMMA FreshFromStart ==
  ASSUME NEW x, x.idle = 0, x.state # "ice" \/ x.inState = 0 PROVE Fresh(x)
BY Timers DEF Fresh

\* handle_offer: the slot gets a session, or stays free.
LEMMA HandleOfferKeeps ==
  ASSUME Inv, NEW offer \in ParsedOffers, NEW fails \in Steps \cup {""},
         HandleOffer(offer, fails)
  PROVE  Inv'
<1>1. 1 - s.gen \in 0..1 /\ due' \in BOOLEAN
  BY OtherGen, Zenon DEF Inv, Sound, Session, HandleOffer
<1>2. CASE fails = ""
  <2>1. s' = New(1 - s.gen, offer.fingerprint)
    BY <1>2, Zenon DEF HandleOffer
  <2>2. Sound(s')
    BY <1>1, <2>1, OfferAssumption, NewIsSound, Zenon
  <2>3. Fresh(s')
    BY <2>1, FreshFromStart, Zenon DEF New
  <2> QED BY <1>1, <2>2, <2>3, InvAgain, Zenon
<1>3. CASE fails # ""
  <2>1. s' = Free(1 - s.gen, {})
    BY <1>3, NothingLeft, Zenon DEF HandleOffer
  <2>2. s'.state = "none"
    BY <2>1, Zenon DEF Free, New
  <2> QED BY <1>1, <2>1, <2>2, FreeIsSound, InvAgain, Zenon
<1> QED BY <1>2, <1>3, Zenon

\* A datagram that arrives restarts the idle timeout.
LEMMA HeardKeeps ==
  ASSUME NEW x, Sound(x), NEW y, y = Heard(x)
  PROVE  /\ Sound(y) /\ y.idle = 0 /\ y.state = x.state /\ y.remote = x.remote
         /\ y.inState = x.inState
<1>0. x \in Session
  BY Zenon DEF Sound
<1>1. y \in Session
  BY <1>0, Timers, Zenon DEF Heard, Session
<1>2. /\ Own(x, y) /\ y.idle = 0 /\ y.age = x.age /\ y.inState = x.inState
      /\ y.state = x.state /\ y.dtls = x.dtls /\ y.closedCalls = x.closedCalls
  BY <1>0, Zenon DEF Heard, Session, Own
<1>3. y.inState <= y.age
  BY <1>2, Zenon DEF Sound
<1>4. Sound(y)
  BY <1>1, <1>2, <1>3, StillSound, Zenon
<1> QED BY <1>2, <1>4, Zenon DEF Own

\* A datagram that does not close the session leaves it fresh.
LEMMA HeardIsFresh ==
  ASSUME Inv, ~due, s.state \notin {"none", "closed"},
         NEW y, y.idle = 0,
         y.state = "ice" => y.inState = 0 \/ (s.state = "ice" /\ y.inState = s.inState)
  PROVE  Fresh(y)
<1>1. s.state = "ice" => s.inState <= Watchdog
  BY Zenon DEF Inv, SilenceEndsSession, Open
<1> QED BY <1>1, Timers DEF Fresh

\* handle_stun: only a check with this session's credentials gives it a peer.
LEMMA HandleStunKeeps ==
  ASSUME Inv, NEW v \in Verdicts, v.gen = s.gen, NEW a \in Peers,
         HandleStun(v.verdict, v.key, a)
  PROVE  Inv'
<1>0. Sound(s) /\ s.state \notin {"none", "closed"} /\ due' \in BOOLEAN /\ due' = due
  BY Zenon DEF Inv, HandleStun, Open
<1>h. PICK h : h = Heard(s)
  BY Zenon
<1>1. /\ Sound(h) /\ h.idle = 0 /\ h.state = s.state /\ h.remote = s.remote
      /\ h.inState = s.inState
  BY <1>0, <1>h, HeardKeeps
<1>2. CASE v.verdict # "valid"
  <2>1. s' = h
    BY <1>2, <1>h, Zenon DEF HandleStun
  <2>2. ~due' => Fresh(s')
    BY <1>0, <1>1, <2>1, HeardIsFresh, Zenon
  <2> QED BY <1>0, <1>1, <2>1, <2>2, InvAgain
<1>3. CASE v.verdict = "valid"
  <2>b. PICK b : b = [h EXCEPT !.remote = a, !.checked = v.key]
    BY Zenon
  <2>0. h \in Session /\ h.gen = s.gen /\ h.gen \in 0..1 /\ s \in Session
    BY <1>0, <1>1, <1>h, Zenon DEF Sound, Session, Heard
  <2>1. v.key = h.gen /\ a # NoPeer /\ a \in Peers \cup {NoPeer}
    BY <1>3, <2>0, ValidIsOwn, SessionAssumption, Zenon
  <2>2. b \in Session
    BY <2>0, <2>1, <2>b, Zenon DEF Session
  <2>3. /\ b.remote = a /\ b.checked = b.gen /\ b.state = h.state /\ b.dtls = h.dtls
        /\ b.closedCalls = h.closedCalls /\ b.held = h.held /\ b.keyed = h.keyed
        /\ b.expected = h.expected /\ b.cert = h.cert /\ b.inState = h.inState
        /\ b.age = h.age /\ b.idle = h.idle
    BY <2>0, <2>1, <2>b, Zenon DEF Session
  <2>4. Sound(b)
    BY <1>1, <2>1, <2>2, <2>3, Zenon DEF Sound, CertificateIsNamed
  <2>5. s' = FirstCheck(b)
    BY <1>3, <1>h, <2>b, Zenon DEF HandleStun
  <2>6. CASE b.state # "new"
    <3>1. s' = b
      BY <2>5, <2>6, Zenon DEF FirstCheck
    <3>2. ~due' => Fresh(s')
      BY <1>0, <1>1, <2>3, <3>1, HeardIsFresh, Zenon
    <3> QED BY <1>0, <2>4, <3>1, <3>2, InvAgain
  <2>7. CASE b.state = "new"
    <3>1. s' = SetState(b, "ice")
      BY <2>5, <2>7, Zenon DEF FirstCheck
    <3>2. /\ s' \in Session /\ Kept(b, s') /\ s'.state = "ice" /\ s'.inState = 0
          /\ s'.dtls = b.dtls /\ s'.closedCalls = b.closedCalls
      BY <2>2, <3>1, SetStateSets
    <3>3. s'.inState <= s'.age
      <4>1. s'.age \in 0..(Watchdog + 1)
        BY <3>2, Zenon DEF Session
      <4> QED BY <3>2, <4>1, Timers
    <3>4. Sound(s')
      BY <2>4, <2>7, <3>2, <3>3, Zenon DEF Sound, Kept, Own
    <3>5. Fresh(s')
      BY <1>1, <2>3, <3>2, FreshFromStart, Zenon DEF Kept
    <3> QED BY <1>0, <3>4, <3>5, InvAgain
  <2> QED BY <2>6, <2>7
<1> QED BY <1>2, <1>3

\* rtc_session_on_udp with a DTLS record.
LEMMA DtlsKeeps ==
  ASSUME Inv, NEW b0, NEW o \in Outcomes, Dtls(b0, o) PROVE Inv'
<1>h. PICK h : h = Heard(s)
  BY Zenon
<1>1. /\ Sound(s) /\ s.state \notin {"none", "closed"} /\ s.remote # NoPeer
      /\ due' \in BOOLEAN /\ due' = due /\ s' = DtlsOnUdp(h, o)
  BY <1>h, Zenon DEF Inv, Dtls, Open, DtlsAllowed
<1>2. /\ Sound(h) /\ h.idle = 0 /\ h.state = s.state /\ h.remote = s.remote
      /\ h.inState = s.inState
  BY <1>1, <1>h, HeardKeeps, Zenon
<1>3. s' = h \/ s' = Pump(h, o)
  BY <1>1, Zenon DEF DtlsOnUdp
<1>4. /\ Sound(s') /\ s'.idle = 0
      /\ s'.state \in {"dtls", "streaming", "closed"} \/ s' = h
  <2>1. h.state \notin {"none", "closed"} /\ h.remote # NoPeer
    BY <1>1, <1>2, Zenon
  <2>2. CASE s' = Pump(h, o)
    BY <1>2, <2>1, <2>2, PumpKeeps
  <2> QED BY <1>2, <1>3, <2>2, Zenon
<1>5. ~due' => Fresh(s')
  BY <1>1, <1>2, <1>4, HeardIsFresh, Zenon
<1> QED BY <1>1, <1>4, <1>5, InvAgain, Zenon

\* rtc_session_on_udp with an RTCP packet.
LEMMA RtcpKeeps ==
  ASSUME Inv, NEW b0, NEW kind, Rtcp(b0, kind) PROVE Inv'
<1>h. PICK h : h = Heard(s)
  BY Zenon
<1>1. /\ Sound(s) /\ s.state = "streaming" /\ due' \in BOOLEAN
      /\ s' = h \/ s' = Close(h) \/ s' = RequestIdr(h)
  BY <1>h DEF Inv, Rtcp
<1>2. Sound(h) /\ h.idle = 0 /\ h.state = "streaming"
  BY <1>1, <1>h, HeardKeeps, Zenon
<1>3. CASE s' = h
  BY <1>1, <1>2, <1>3, FreshFromStart, InvAgain, Zenon
<1>4. CASE s' = Close(h)
  BY <1>1, <1>2, <1>4, OpenIsClosable, CloseEnds, EndedIsSound, InvAgain, Zenon
<1>5. CASE s' = RequestIdr(h)
  <2>1. h \in Session
    BY <1>2, Zenon DEF Sound
  <2>2. /\ s' \in Session /\ Kept(h, s') /\ s'.inState = h.inState
        /\ s'.state = h.state /\ s'.dtls = h.dtls /\ s'.closedCalls = h.closedCalls
    BY <1>5, <2>1, RequestIdrKeeps, Zenon
  <2>3. s'.inState <= s'.age
    BY <1>2, <2>2, Zenon DEF Sound, Kept
  <2>4. Sound(s')
    BY <1>2, <2>2, <2>3, StillSound, Zenon DEF Kept
  <2>5. Fresh(s')
    BY <1>2, <2>2, FreshFromStart, Zenon DEF Kept
  <2> QED BY <1>1, <2>4, <2>5, InvAgain, Zenon
<1> QED BY <1>1, <1>3, <1>4, <1>5, Zenon

\* A step that closes an open session.
LEMMA ClosingKeeps ==
  ASSUME Inv, Open, due' \in BOOLEAN, s' = Close(s) PROVE Inv'
BY OpenIsClosable, CloseEnds, EndedIsSound, InvAgain, Zenon DEF Inv, Open

\* The sender report at the end of a tick.
LEMMA SenderReportKeeps ==
  ASSUME NEW x, Sound(x), NEW y, y = SenderReport(x)
  PROVE  Sound(y) /\ y.idle = x.idle /\ y.state = x.state /\ y.inState = x.inState
<1>0. x \in Session
  BY Zenon DEF Sound
<1>1. y \in Session
  BY <1>0, Timers, Zenon DEF SenderReport, SrPeriod, Session
<1>2. /\ Kept(x, y) /\ y.inState = x.inState
      /\ y.state = x.state /\ y.dtls = x.dtls /\ y.closedCalls = x.closedCalls
  BY <1>0, Zenon DEF SenderReport, Session, Kept, Own
<1>3. y.inState <= y.age
  BY <1>2, Zenon DEF Sound, Kept
<1>4. Sound(y)
  BY <1>1, <1>2, <1>3, StillSound, Zenon DEF Kept
<1> QED BY <1>2, <1>4, Zenon DEF Kept

\* The tick closes what has been silent or has waited for too long; what it
\* leaves open is fresh.
LEMMA TickKeeps ==
  ASSUME Inv, NEW o \in Outcomes, Tick(o) PROVE Inv'
<1>1. Sound(s) /\ Open /\ s.state \notin {"none", "closed"} /\ due' \in BOOLEAN
  BY Zenon DEF Inv, Tick, Open
<1>2. CASE Idle(s) \/ NoClientHello(s)
  BY <1>1, <1>2, ClosingKeeps, Zenon DEF Tick
<1>3. CASE ~(Idle(s) \/ NoClientHello(s))
  <2>d. PICK d : d = DtlsTick(s, o)
    BY Zenon
  <2>1. s' = SenderReport(d)
    BY <1>3, <2>d, Zenon DEF Tick
  <2>2. s.dtls = "handshaking" => s.remote # NoPeer
    BY <1>1, Zenon DEF Sound
  <2>3. /\ Sound(d) /\ d.idle = s.idle
        /\ d.state \in {"dtls", "streaming", "closed"} \/ d = s
    BY <1>1, <2>2, <2>d, PumpKeeps, Zenon DEF DtlsTick
  <2>4. Sound(s') /\ s'.idle = d.idle /\ s'.state = d.state /\ s'.inState = d.inState
    BY <2>1, <2>3, SenderReportKeeps, Zenon
  <2>5. s.idle <= IdleTimeout /\ (s.state = "ice" => s.inState <= Watchdog)
    <3>1. /\ s.idle \in 0..(IdleTimeout + 1) /\ s.age \in 0..(Watchdog + 1)
          /\ s.inState \in 0..(Watchdog + 1) /\ s.inState <= s.age
      BY <1>1, Zenon DEF Sound, Session
    <3> QED BY <1>3, <3>1, Timers DEF Idle, NoClientHello
  <2>6. Fresh(s')
    BY <2>3, <2>4, <2>5, Zenon DEF Fresh
  <2> QED BY <1>1, <2>4, <2>6, InvAgain, Zenon
<1> QED BY <1>2, <1>3, Zenon

\* The ages stay in order while time passes.
LEMMA AdvanceKeeps ==
  ASSUME Inv, Advance PROVE Inv'
<1>1. Sound(s) /\ s \in Session /\ due' = TRUE
  BY Zenon DEF Inv, Sound, Advance
<1>2. /\ s.idle \in 0..(IdleTimeout + 1) /\ s.age \in 0..(Watchdog + 1)
      /\ s.inState \in 0..(Watchdog + 1) /\ s.inState <= s.age
      /\ s.sinceIdr \in 0..IdrInterval /\ s.untilSr \in 0..SrInterval
  BY <1>1, Zenon DEF Sound, Session
<1>3. /\ Older(s.idle, IdleTimeout) \in 0..(IdleTimeout + 1)
      /\ Older(s.age, Watchdog) \in 0..(Watchdog + 1)
      /\ Older(s.inState, Watchdog) \in 0..(Watchdog + 1)
      /\ Older(s.inState, Watchdog) <= Older(s.age, Watchdog)
      /\ Older(s.sinceIdr, IdrInterval - 1) \in 0..IdrInterval
      /\ (IF s.untilSr = 0 THEN 0 ELSE s.untilSr - 1) \in 0..SrInterval
  BY <1>2, Timers DEF Older
<1>4. s' = [s EXCEPT !.idle = Older(s.idle, IdleTimeout), !.age = Older(s.age, Watchdog),
                     !.sinceIdr = Older(s.sinceIdr, IdrInterval - 1),
                     !.inState = Older(s.inState, Watchdog),
                     !.untilSr = IF s.untilSr = 0 THEN 0 ELSE s.untilSr - 1]
  BY Zenon DEF Advance
<1>5. s' \in Session
  BY <1>1, <1>3, <1>4, Zenon DEF Session
<1>6. /\ Own(s, s') /\ s'.state = s.state /\ s'.dtls = s.dtls
      /\ s'.closedCalls = s.closedCalls
      /\ s'.inState = Older(s.inState, Watchdog) /\ s'.age = Older(s.age, Watchdog)
  BY <1>1, <1>4, Zenon DEF Session, Own
<1>7. Sound(s')
  BY <1>1, <1>3, <1>5, <1>6, StillSound, Zenon
<1> QED BY <1>1, <1>7, InvAgain, Zenon

\* reap_sessions.
LEMMA ReapKeeps ==
  ASSUME Inv, Reap PROVE Inv'
<1>1. s.gen \in 0..1 /\ s.held = Resources
  BY Zenon DEF Inv, Sound, Session, Reap
<1>2. s' = Free(s.gen, {}) /\ due' \in BOOLEAN
  BY <1>1, Zenon DEF Reap
<1>3. s'.state = "none"
  BY <1>2, Zenon DEF Free, New
<1> QED BY <1>1, <1>2, <1>3, FreeIsSound, InvAgain, Zenon

\* rtc_session_send_access_unit.
LEMMA SendUnitKeeps ==
  ASSUME Inv, NEW idr \in BOOLEAN, SendUnit(idr) PROVE Inv'
<1>1. Sound(s) /\ s \in Session /\ s.state = "streaming" /\ due' = due /\ due \in BOOLEAN
  BY Zenon DEF Inv, Sound, SendUnit
<1>2. \/ s' = [s EXCEPT !.waiting = FALSE, !.sent = TRUE]
      \/ s' = RequestIdr(s) \/ s' = [s EXCEPT !.sent = TRUE]
  BY Zenon DEF SendUnit
<1>3. /\ s' \in Session /\ Kept(s, s') /\ s'.inState = s.inState
      /\ s'.state = s.state /\ s'.dtls = s.dtls /\ s'.closedCalls = s.closedCalls
  <2>1. CASE s' = RequestIdr(s)
    BY <1>1, <2>1, RequestIdrKeeps, Zenon
  <2>2. CASE s' = [s EXCEPT !.waiting = FALSE, !.sent = TRUE]
    <3>1. s' \in Session
      BY <1>1, <2>2, Zenon DEF Session
    <3> QED BY <1>1, <2>2, <3>1, Zenon DEF Session, Kept, Own
  <2>3. CASE s' = [s EXCEPT !.sent = TRUE]
    <3>1. s' \in Session
      BY <1>1, <2>3, Zenon DEF Session
    <3> QED BY <1>1, <2>3, <3>1, Zenon DEF Session, Kept, Own
  <2> QED BY <1>2, <2>1, <2>2, <2>3, Zenon
<1>4. s'.inState <= s'.age
  BY <1>1, <1>3, Zenon DEF Sound, Kept
<1>5. Sound(s')
  BY <1>1, <1>3, <1>4, StillSound, Zenon DEF Kept
<1>6. ~due' => Fresh(s')
  BY <1>1, <1>3, Zenon DEF Inv, SilenceEndsSession, Open, Fresh, Kept
<1> QED BY <1>1, <1>5, <1>6, InvAgain, Zenon

-----------------------------------------------------------------------------
(* The theorems *)

\* Every step keeps the invariant.
LEMMA NextInv == Inv /\ [Next]_vars => Inv'
<1> SUFFICES ASSUME Inv, [Next]_vars PROVE Inv'
  OBVIOUS
<1>1. ASSUME NEW v \in Verdicts, NEW a \in Peers,
             v.gen = s.gen, HandleStun(v.verdict, v.key, a)
      PROVE  Inv'
  BY <1>1, HandleStunKeeps
<1>2. ASSUME NEW o \in Outcomes, Dtls(22, o) PROVE Inv'
  BY <1>2, DtlsKeeps
<1>3. ASSUME NEW k \in {"bye", "pli", "other"}, Rtcp(129, k) PROVE Inv'
  BY <1>3, RtcpKeeps
<1>4. CASE Advance
  BY <1>4, AdvanceKeeps
<1>5. CASE CloseRequest
  BY <1>5, ClosingKeeps, Zenon DEF CloseRequest, Inv
<1>6. CASE Reap
  BY <1>6, ReapKeeps
<1>7. ASSUME NEW o \in ParsedOffers, NEW f \in Steps \cup {""}, HandleOffer(o, f) PROVE Inv'
  BY <1>7, HandleOfferKeeps, Zenon
<1>8. ASSUME NEW o \in Outcomes, Tick(o) PROVE Inv'
  BY <1>8, TickKeeps
<1>9. ASSUME NEW idr \in BOOLEAN, SendUnit(idr) PROVE Inv'
  BY <1>9, SendUnitKeeps
<1>10. CASE UNCHANGED vars
  BY <1>10, Zenon DEF Inv, SilenceEndsSession, Open, vars
<1> QED
  BY <1>1, <1>2, <1>3, <1>4, <1>5, <1>6, <1>7, <1>8, <1>9, <1>10, Zenon DEF Next, Datagram

\* However sessions end, on_closed is called once for each, the engine ends up
\* closed, and nothing is left of a session whose creation failed half way
\* (rtc_session_close, dtls_set_state, rtc_session_create, session_free).
THEOREM SessionsEndOnce == Spec => []ClosedExactlyOnce
BY InitInv, NextInv, InvImplies, PTL DEF Spec

\* A session streams exactly while its engine is connected, to an address that
\* knew the session's own credentials, whatever arrives from the viewers that had
\* the port before; and if the offer named a certificate, only to a peer that
\* showed that certificate in the handshake its keys come from.  An offer with an
\* empty last a=fingerprint line names none and binds the keys to nobody
\* (pump_ssl, derive_srtp_keys, handle_stun).
THEOREM MediaIsForItsViewer == Spec => []StreamingIsKeyed
BY InitInv, NextInv, InvImplies, PTL DEF Spec

\* After its tick no open session has been silent for longer than the idle
\* timeout, or waited for a ClientHello for longer than the watchdog allows
\* (rtc_session_tick).
THEOREM SilentSessionsEnd == Spec => []SilenceEndsSession
BY InitInv, NextInv, InvImplies, PTL DEF Spec
=============================================================================
