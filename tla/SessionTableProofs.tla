-------------------------- MODULE SessionTableProofs --------------------------
(***************************************************************************)
(* What the run of MCSessionTable checks for two slots and three viewers   *)
(* holds for every number of slots, viewers and restarts: the counters add *)
(* up, the encoder works for viewers only, no session outlives its DTLS    *)
(* context, "decoding" is the word of the viewer in the slot, and the      *)
(* server says "streaming" only when one viewer is sent media and          *)
(* acknowledges it.                                                        *)
(***************************************************************************)
EXTENDS SessionTable, FiniteSetTheorems, TLAPS

-----------------------------------------------------------------------------
(* The table *)

Session ==
    [state: {"connecting", "streaming", "closed"}, id: Nat, context: Nat,
     waiting: BOOLEAN, media: Nat, rr: Nat]

\* A slot holds NULL or a session with all of its fields.
Table == sessions \in [Slots -> Session \cup {Null}]

(* A record without the fields of a session is none (sessions[i] == NULL).     *)
LEMMA NullIsNone == Null \notin Session
<1>1. ASSUME NEW s \in Session PROVE s # Null
  <2>1. s.state # "null"
    BY DEF Session
  <2> QED BY <2>1 DEF Null
<1> QED BY <1>1

(* The open slots are the sessions that are not closed (sessions_active).      *)
LEMMA OpenSlots ==
  ASSUME Table, NEW i \in Slots
  PROVE  Open(i) <=> sessions[i] \in Session /\ sessions[i].state # "closed"
BY NullIsNone DEF Table, Open, IsSession

(* There are finitely many slots, so the viewers can be counted.               *)
LEMMA ViewersFinite == IsFiniteSet(Viewers) /\ Cardinality(Viewers) \in Nat
<1>1. IsFiniteSet(Slots)
  BY FS_Interval, TableAssumption DEF Slots
<1>2. Viewers \in SUBSET Slots
  BY DEF Viewers
<1> QED BY <1>1, <1>2, FS_Subset, FS_CardinalityType

(* Sessions that leave are taken off the count, each once.                     *)
LEMMA CountLeft ==
  ASSUME NEW S \in SUBSET Viewers
  PROVE  /\ Cardinality(S) \in Nat
         /\ Cardinality(Viewers \ S) = Cardinality(Viewers) - Cardinality(S)
<1>1. IsFiniteSet(Viewers)
  BY ViewersFinite
<1>2. IsFiniteSet(S)
  BY <1>1, FS_Subset
<1>3. Viewers \cap S = S
  OBVIOUS
<1> QED BY <1>1, <1>2, <1>3, FS_Difference, FS_CardinalityType, ZenonT(30)

(* rtc_session_close on some of the viewers closes these and no others.        *)
LEMMA CloseAllCloses ==
  ASSUME Table, NEW S \in SUBSET Viewers, CloseAll(S)
  PROVE  /\ Table'
         /\ Viewers' = Viewers \ S
         /\ \A i \in Slots : /\ IsSession(i)' <=> IsSession(i)
                             /\ IsSession(i) => /\ sessions'[i].context = sessions[i].context
                                                /\ sessions'[i].id = sessions[i].id
<1>1. S \subseteq Slots /\ \A i \in S : sessions[i] \in Session
  BY OpenSlots DEF Viewers
<1>2. ASSUME NEW i \in Slots
      PROVE  /\ sessions'[i] \in Session \cup {Null}
             /\ IsSession(i)' <=> IsSession(i)
             /\ IsSession(i) => /\ sessions'[i].context = sessions[i].context
                                /\ sessions'[i].id = sessions[i].id
             /\ Open(i)' <=> Open(i) /\ i \notin S
  <2>1. CASE i \in S
    <3>1. sessions'[i] = [sessions[i] EXCEPT !.state = "closed"]
      BY <2>1 DEF CloseAll
    <3>2. sessions[i] \in Session
      BY <1>1, <2>1
    <3>3. /\ sessions'[i] \in Session /\ sessions'[i].state = "closed"
          /\ sessions'[i].context = sessions[i].context
          /\ sessions'[i].id = sessions[i].id
      BY <3>1, <3>2 DEF Session
    <3> QED BY <2>1, <3>2, <3>3, NullIsNone DEF IsSession, Open
  <2>2. CASE i \notin S
    <3>1. sessions'[i] = sessions[i]
      BY <2>2 DEF CloseAll
    <3> QED BY <2>2, <3>1 DEF Table, IsSession, Open
  <2> QED BY <2>1, <2>2
<1>3. DOMAIN sessions' = Slots /\ sessions' = [i \in Slots |-> sessions'[i]]
  BY DEF CloseAll
<1>4. Table'
  BY <1>2, <1>3 DEF Table
<1>5. Viewers' = Viewers \ S
  BY <1>2 DEF Viewers
<1> QED BY <1>2, <1>4, <1>5
-----------------------------------------------------------------------------
(* The inductive invariant *)

\* What /api/status shows as decoding was reported by the viewer in the slot.
DecodingIsOwn ==
    \A i \in Slots : IsSession(i) /\ decoding[i] => reporter[i] = sessions[i].id

CountInv == sessions_total - sessions_closed = Cardinality(Viewers)

\* Table makes the fields of a session known, the rest is what is to be shown.
Inv ==
    /\ Table /\ TypeOK /\ DOMAIN reporter = Slots
    /\ CountInv
    /\ media_active => running
    /\ phase = "reap" => (media_active <=> running /\ Viewers # {})
    /\ OwnContext
    /\ DecodingIsOwn

\* A step that leaves in every slot the same viewer, open or closed as before.
SameViewers ==
    /\ Table'
    /\ \A i \in Slots :
         /\ IsSession(i)' <=> IsSession(i)
         /\ Open(i)' <=> Open(i)
         /\ IsSession(i) => /\ sessions'[i].context = sessions[i].context
                            /\ sessions'[i].id = sessions[i].id

(* The states of a table are those of TypeOK.                                  *)
LEMMA TableStates ==
  ASSUME Table
  PROVE  \A i \in Slots : sessions[i].state \in {"null", "connecting", "streaming", "closed"}
BY DEF Table, Session, Null

(* Steps that change how a session is, not whether it is there: all between    *)
(* two turns of reap_sessions except requests and closings.                    *)
LEMMA SameViewersKeep ==
  ASSUME Inv, SameViewers, UNCHANGED <<counts, dtls_ready, context>>,
         running' \in BOOLEAN, media_active' \in BOOLEAN, media_active' => running',
         phase' \in {"udp", "http", "tick", "fan"},
         decoded' \in [Slots -> 0..MaxDecoded], decoding' \in [Slots -> BOOLEAN],
         DOMAIN reporter' = Slots, DecodingIsOwn'
  PROVE  Inv'
<1>1. Viewers' = Viewers
  BY DEF SameViewers, Viewers
<1>2. Table' /\ \A i \in Slots : sessions'[i].state \in {"null", "connecting", "streaming", "closed"}
  <2>1. Table'
    BY DEF SameViewers
  <2> QED BY <2>1 DEF Table, Session, Null
<1>3. TypeOK'
  BY <1>2 DEF Inv, TypeOK, counts
<1>4. CountInv'
  BY <1>1 DEF Inv, CountInv, counts
<1>5. OwnContext'
  <2>1. ASSUME NEW i \in Slots, Open(i)' PROVE dtls_ready' /\ sessions'[i].context = context'
    BY <2>1 DEF Inv, OwnContext, SameViewers, Open
  <2> QED BY <2>1 DEF OwnContext
<1> QED BY <1>2, <1>3, <1>4, <1>5 DEF Inv

(* The reports of the slots stay those of their viewers.                       *)
LEMMA ReportsStay ==
  ASSUME Inv, SameViewers, UNCHANGED client
  PROVE  /\ decoded' \in [Slots -> 0..MaxDecoded] /\ decoding' \in [Slots -> BOOLEAN]
         /\ DOMAIN reporter' = Slots /\ DecodingIsOwn'
<1>1. decoded' = decoded /\ decoding' = decoding /\ reporter' = reporter
  BY DEF client
<1>2. DecodingIsOwn'
  BY <1>1 DEF Inv, DecodingIsOwn, SameViewers
<1> QED BY <1>1, <1>2 DEF Inv, TypeOK

(* Closing some of the viewers, by a BYE, a request or a timeout: each is      *)
(* counted out once (session_on_closed).                                       *)
LEMMA ClosingKeeps ==
  ASSUME Inv, NEW S \in SUBSET Viewers, CloseAll(S),
         UNCHANGED <<sessions_total, world, client>>,
         phase' \in {"udp", "http", "tick", "fan"}
  PROVE  Inv'
<1>1. /\ Table'
      /\ Viewers' = Viewers \ S
      /\ \A i \in Slots : /\ IsSession(i)' <=> IsSession(i)
                          /\ IsSession(i) => /\ sessions'[i].context = sessions[i].context
                                             /\ sessions'[i].id = sessions[i].id
  BY CloseAllCloses DEF Inv
<1>2. /\ Cardinality(S) \in Nat
      /\ Cardinality(Viewers \ S) = Cardinality(Viewers) - Cardinality(S)
  BY CountLeft
<1>3. Cardinality(Viewers) \in Nat /\ Cardinality(Viewers \ S) \in Nat
  <2>1. IsFiniteSet(Viewers \ S)
    BY ViewersFinite, FS_Difference
  <2> QED BY <2>1, ViewersFinite, FS_CardinalityType
<1>4. sessions_total' = sessions_total /\ sessions_closed' = sessions_closed + Cardinality(S)
  BY DEF CloseAll
<1>5. CountInv'
  BY <1>1, <1>2, <1>3, <1>4, TableAssumption, SMTT(30) DEF Inv, CountInv, TypeOK
<1>6. sessions_closed' \in 0..MaxOffers
  BY <1>2, <1>3, <1>4, TableAssumption DEF Inv, CountInv, TypeOK
<1>7. TypeOK'
  <2>1. \A i \in Slots : sessions'[i].state \in {"null", "connecting", "streaming", "closed"}
    BY <1>1 DEF Table, Session, Null
  <2> QED BY <1>4, <1>6, <2>1 DEF Inv, TypeOK, world, client
<1>8. OwnContext'
  <2>1. ASSUME NEW i \in Slots, Open(i)' PROVE dtls_ready' /\ sessions'[i].context = context'
    <3>1. i \in Viewers'
      BY <2>1 DEF Viewers
    <3>2. i \in Viewers
      BY <1>1, <3>1
    <3>3. Open(i) /\ IsSession(i)
      BY <3>2 DEF Viewers, Open
    <3> QED BY <1>1, <3>3 DEF Inv, OwnContext, world
  <2> QED BY <2>1 DEF OwnContext
<1>9. DecodingIsOwn'
  BY <1>1 DEF Inv, DecodingIsOwn, client
<1> QED BY <1>1, <1>5, <1>7, <1>8, <1>9 DEF Inv, world, client
-----------------------------------------------------------------------------
(* The steps *)

(* A step that rewrites fields of sessions other than their identity.          *)
LEMMA RewritesKeep ==
  ASSUME Table, sessions' = [i \in Slots |-> sessions'[i]],
         \A i \in Slots :
            \/ sessions'[i] = sessions[i]
            \/ /\ sessions[i] \in Session /\ sessions[i].state # "closed" /\ sessions'[i] \in Session
               /\ sessions'[i].state # "closed"
               /\ sessions'[i].context = sessions[i].context
               /\ sessions'[i].id = sessions[i].id
            \/ /\ sessions[i] \in Session /\ sessions'[i] \in Session
               /\ sessions'[i].state = sessions[i].state
               /\ sessions'[i].context = sessions[i].context
               /\ sessions'[i].id = sessions[i].id
  PROVE  SameViewers
<1>1. Table'
  BY DEF Table
<1>2. ASSUME NEW i \in Slots
      PROVE  /\ IsSession(i)' <=> IsSession(i)
             /\ Open(i)' <=> Open(i)
             /\ IsSession(i) => /\ sessions'[i].context = sessions[i].context
                                /\ sessions'[i].id = sessions[i].id
  BY NullIsNone DEF Table, IsSession, Open
<1> QED BY <1>1, <1>2 DEF SameViewers

(* The handshake and the reports of a receiver (drain_session_socket).         *)
LEMMA ConnectKeeps == ASSUME Inv, NEW i \in Slots, Connect(i) PROVE Inv'
<1>1. sessions[i] \in Session /\ sessions[i].state = "connecting"
  BY OpenSlots DEF Inv, Connect
<1>2. sessions' = [sessions EXCEPT ![i].state = "streaming"]
  BY DEF Connect
<1>3. sessions' = [j \in Slots |-> sessions'[j]] /\ \A j \in Slots \ {i} : sessions'[j] = sessions[j]
  BY <1>2, Zenon DEF Inv, Table
<1>4. /\ sessions'[i] \in Session /\ sessions'[i].state = "streaming"
      /\ sessions'[i].context = sessions[i].context /\ sessions'[i].id = sessions[i].id
  BY <1>1, <1>2 DEF Inv, Table, Session
<1>5. SameViewers
  BY <1>1, <1>3, <1>4, RewritesKeep DEF Inv
<1>6. UNCHANGED client
  BY DEF Connect
<1> QED BY <1>5, <1>6, ReportsStay, SameViewersKeep, SMTT(30) DEF Connect, Inv, TypeOK, world

LEMMA ReceiverReportKeeps == ASSUME Inv, NEW i \in Slots, ReceiverReport(i) PROVE Inv'
<1>1. sessions[i] \in Session
  BY NullIsNone DEF Inv, Table, ReceiverReport, Streaming, IsSession
<1>2. sessions' = [sessions EXCEPT ![i].rr = 0]
  BY DEF ReceiverReport
<1>3. sessions' = [j \in Slots |-> sessions'[j]] /\ \A j \in Slots \ {i} : sessions'[j] = sessions[j]
  BY <1>2, Zenon DEF Inv, Table
<1>4. /\ sessions'[i] \in Session /\ sessions'[i].state = sessions[i].state
      /\ sessions'[i].context = sessions[i].context /\ sessions'[i].id = sessions[i].id
  BY <1>1, <1>2 DEF Inv, Table, Session
<1>5. SameViewers
  BY <1>1, <1>3, <1>4, RewritesKeep DEF Inv
<1>6. UNCHANGED client
  BY DEF ReceiverReport
<1> QED BY <1>5, <1>6, ReportsStay, SameViewersKeep, SMTT(30) DEF ReceiverReport, Inv, TypeOK, world

(* The three ways a session closes while the server goes on.                   *)
LEMMA ByeKeeps == ASSUME Inv, NEW i \in Slots, Bye(i) PROVE Inv'
BY ClosingKeeps DEF Bye, Viewers

LEMMA CloseKeeps == ASSUME Inv, NEW i \in Slots, Close(i) PROVE Inv'
BY ClosingKeeps DEF Close, Viewers, Closable

LEMMA TicksKeep == ASSUME Inv, Ticks PROVE Inv'
BY ClosingKeeps DEF Ticks, Viewers, Advance

(* A sent unit (fan_out_access_units) and the clock.                           *)
LEMMA SentIsSession ==
  ASSUME NEW s \in Session, NEW t, t = [s EXCEPT !.waiting = FALSE, !.media = 0]
  PROVE  t \in Session /\ t.state = s.state /\ t.context = s.context /\ t.id = s.id
BY Zenon DEF Session

LEMMA FanOutKeeps == ASSUME Inv, FanOut PROVE Inv'
<1>1. ASSUME NEW isIdr \in BOOLEAN,
             sessions' = [i \in Slots |->
                  IF Gets(i, isIdr)
                  THEN [sessions[i] EXCEPT !.waiting = FALSE, !.media = 0]
                  ELSE sessions[i]]
      PROVE  SameViewers
  <2>1. ASSUME NEW i \in Slots, Gets(i, isIdr)
        PROVE  /\ sessions[i] \in Session
               /\ sessions'[i] \in Session /\ sessions'[i].state = sessions[i].state
               /\ sessions'[i].context = sessions[i].context
               /\ sessions'[i].id = sessions[i].id
    <3>1. sessions[i] \in Session
      BY <2>1, NullIsNone DEF Inv, Table, Gets, Streaming, IsSession
    <3>2. sessions'[i] = [sessions[i] EXCEPT !.waiting = FALSE, !.media = 0]
      BY <1>1, <2>1, Zenon
    <3> QED BY <3>1, <3>2, SentIsSession, Zenon
  <2>2. \A i \in Slots : ~Gets(i, isIdr) => sessions'[i] = sessions[i]
    BY <1>1, Zenon
  <2>3. sessions' = [i \in Slots |-> sessions'[i]]
    BY <1>1, Zenon
  <2> QED BY <2>1, <2>2, <2>3, RewritesKeep DEF Inv
<1>2. SameViewers
  <2>1. CASE UNCHANGED sessions
    BY <2>1, RewritesKeep DEF Inv, Table
  <2> QED BY <2>1, <1>1, Zenon DEF FanOut
<1>3. UNCHANGED client
  BY Zenon DEF FanOut
<1> QED BY <1>2, <1>3, ReportsStay, SameViewersKeep, ZenonT(30) DEF FanOut, Inv, TypeOK, world, Advance

LEMMA SuperviseKeeps == ASSUME Inv, Supervise PROVE Inv'
<1>1. ASSUME sessions' = [i \in Slots |->
                 IF IsSession(i)
                 THEN [sessions[i] EXCEPT !.media = Older(@), !.rr = Older(@)]
                 ELSE Null]
      PROVE  SameViewers
  <2>1. ASSUME NEW i \in Slots, IsSession(i)
        PROVE  /\ sessions[i] \in Session
               /\ sessions'[i] \in Session /\ sessions'[i].state = sessions[i].state
               /\ sessions'[i].context = sessions[i].context
               /\ sessions'[i].id = sessions[i].id
    <3>1. sessions[i] \in Session
      BY <2>1 DEF Inv, Table, IsSession
    <3>2. sessions'[i] = [sessions[i] EXCEPT !.media = Older(sessions[i].media),
                                             !.rr = Older(sessions[i].rr)]
      BY <1>1, <2>1, Zenon
    <3>3. Older(sessions[i].media) \in Nat /\ Older(sessions[i].rr) \in Nat
      BY <3>1, TableAssumption DEF Session, Older, Never
    <3> QED BY <3>1, <3>2, <3>3, ZenonT(30) DEF Session
  <2>2. \A i \in Slots : ~IsSession(i) => sessions'[i] = sessions[i]
    BY <1>1, Zenon DEF IsSession
  <2>3. sessions' = [i \in Slots |-> sessions'[i]]
    BY <1>1, Zenon
  <2> QED BY <2>1, <2>2, <2>3, RewritesKeep DEF Inv
<1>2. SameViewers
  <2>1. CASE UNCHANGED sessions
    BY <2>1, RewritesKeep DEF Inv, Table
  <2> QED BY <2>1, <1>1, ZenonT(30) DEF Supervise
<1>3. UNCHANGED client
  BY Zenon DEF Supervise
<1> QED BY <1>2, <1>3, ReportsStay, SameViewersKeep, ZenonT(30) DEF Supervise, Inv, TypeOK, Advance
LEMMA UdpDoneKeeps == ASSUME Inv, UdpDone PROVE Inv'
<1>1. SameViewers
  BY RewritesKeep DEF UdpDone, Inv, Table
<1>2. UNCHANGED client
  BY DEF UdpDone
<1> QED BY <1>1, <1>2, ReportsStay, SameViewersKeep DEF UdpDone, Inv, TypeOK, world, Advance

(* The pipeline goes, and with it the encoder's work (handle_camera_restart).  *)
LEMMA CameraRestartKeeps == ASSUME Inv, CameraRestart PROVE Inv'
<1>1. SameViewers
  BY RewritesKeep DEF CameraRestart, Inv, Table
<1>2. UNCHANGED client
  BY DEF CameraRestart
<1>3. phase' = "http" /\ media_active' = FALSE /\ running' \in BOOLEAN
  BY DEF CameraRestart
<1>4. UNCHANGED <<counts, dtls_ready, context>>
  BY DEF CameraRestart
<1> QED BY <1>1, <1>2, <1>3, <1>4, ReportsStay, SameViewersKeep, Zenon

(* A report is written into the slot of the viewer that sent it                *)
(* (handle_client_stats).                                                      *)
LEMMA ClientStatsKeeps ==
  ASSUME Inv, NEW i \in Slots, NEW n \in 0..MaxDecoded, ClientStats(i, n)
  PROVE  Inv'
<1>1. sessions' = sessions /\ phase' = "http" /\ IsSession(i)
  BY DEF ClientStats
<1>2. SameViewers
  BY <1>1, RewritesKeep DEF Inv, Table
<1>3. decoded' \in [Slots -> 0..MaxDecoded]
  BY DEF ClientStats, Inv, TypeOK
<1>4. decoding' \in [Slots -> BOOLEAN]
  <2>1. decoding' = [decoding EXCEPT ![i] = n > decoded[i]] /\ decoding \in [Slots -> BOOLEAN]
    BY DEF ClientStats, Inv, TypeOK
  <2>2. (n > decoded[i]) \in BOOLEAN
    BY DEF Inv, TypeOK
  <2> QED BY <2>1, <2>2, Zenon
<1>5. DOMAIN reporter' = Slots /\ reporter' = [reporter EXCEPT ![i] = sessions[i].id]
  BY DEF ClientStats, Inv
<1>6. \A j \in Slots \ {i} : decoding'[j] = decoding[j] /\ reporter'[j] = reporter[j]
  BY <1>5 DEF ClientStats, Inv, TypeOK
<1>7. reporter'[i] = sessions[i].id
  BY <1>5 DEF Inv
<1>8. DecodingIsOwn'
  BY <1>1, <1>6, <1>7 DEF DecodingIsOwn, IsSession, Inv
<1> QED BY <1>1, <1>2, <1>3, <1>4, <1>5, <1>8, SameViewersKeep, SMTT(30)
        DEF ClientStats, Inv, TypeOK, world

(* A new viewer is counted in, belongs to the current context and has not      *)
(* reported yet (handle_offer).                                                *)
LEMMA OfferKeeps == ASSUME Inv, NEW i \in Slots, Offer(i) PROVE Inv'
<1> DEFINE s == [state |-> "connecting", id |-> sessions_total + 1, context |-> context,
                 waiting |-> TRUE, media |-> NotYet, rr |-> NotYet]
<1>1. s \in Session
  BY TableAssumption DEF Inv, TypeOK, Session, NotYet, Never
<1>2. sessions' = [sessions EXCEPT ![i] = s]
  BY DEF Offer
<1>3. s.state = "connecting" /\ s.context = context
  OBVIOUS
<1> HIDE DEF s
<1>4. Table' /\ sessions'[i] = s /\ \A j \in Slots \ {i} : sessions'[j] = sessions[j]
  BY <1>1, <1>2 DEF Inv, Table
<1>5. Open(i)' /\ ~Open(i)
  BY <1>1, <1>3, <1>4, NullIsNone, Zenon DEF Open, IsSession, Offer
<1>6. \A j \in Slots \ {i} : /\ Open(j)' <=> Open(j)
                             /\ IsSession(j)' <=> IsSession(j)
  BY <1>4 DEF Open, IsSession
<1>7. Viewers' = Viewers \cup {i} /\ i \notin Viewers
  BY <1>5, <1>6 DEF Viewers
<1>8. Cardinality(Viewers') = Cardinality(Viewers) + 1 /\ Cardinality(Viewers) \in Nat
  BY <1>7, ViewersFinite, FS_AddElement
<1>9. /\ sessions_total' = sessions_total + 1 /\ sessions_closed' = sessions_closed
      /\ sessions_total < MaxOffers /\ phase' = "http" /\ dtls_ready
      /\ UNCHANGED world
  BY DEF Offer
<1>10. CountInv'
  BY <1>8, <1>9 DEF Inv, CountInv, TypeOK
<1>11. /\ decoded' \in [Slots -> 0..MaxDecoded] /\ DOMAIN reporter' = Slots
       /\ reporter' = reporter
  BY TableAssumption DEF Offer, ResetReports, Inv, TypeOK
<1>12. /\ decoding' \in [Slots -> BOOLEAN] /\ decoding'[i] = FALSE
       /\ \A j \in Slots \ {i} : decoding'[j] = decoding[j]
  BY DEF Offer, ResetReports, Inv, TypeOK
<1>13. TypeOK'
  <2>1. \A j \in Slots : sessions'[j].state \in {"null", "connecting", "streaming", "closed"}
    BY <1>4 DEF Table, Session, Null
  <2> QED BY <1>9, <1>11, <1>12, <2>1, TableAssumption DEF Inv, TypeOK, world
<1>14. OwnContext'
  <2>1. ASSUME NEW j \in Slots, Open(j)' PROVE dtls_ready' /\ sessions'[j].context = context'
    <3>1. CASE j = i
      BY <1>3, <1>4, <1>9, <3>1 DEF world
    <3>2. CASE j # i
      BY <1>4, <1>6, <1>9, <2>1, <3>2, SMTT(30) DEF Inv, OwnContext, world
    <3> QED BY <3>1, <3>2
  <2> QED BY <2>1 DEF OwnContext
<1>15. DecodingIsOwn'
  BY <1>4, <1>6, <1>11, <1>12 DEF Inv, DecodingIsOwn
<1> QED BY <1>4, <1>9, <1>10, <1>11, <1>13, <1>14, <1>15 DEF Inv, world
(* A restart drops every session and counts out those that were still open     *)
(* (sessions_close_all), so none of the old context is left.                   *)
LEMMA WebrtcRestartKeeps == ASSUME Inv, WebrtcRestart PROVE Inv'
<1>1. \A i \in Slots : sessions'[i] = Null
  BY DEF WebrtcRestart, Dropped, IsSession
<1>2. Table'
  <2>1. sessions' = [i \in Slots |-> IF i \in Dropped THEN Null ELSE sessions[i]]
    BY DEF WebrtcRestart
  <2> QED BY <1>1, <2>1 DEF Table
<1>3. \A i \in Slots : ~IsSession(i)' /\ ~Open(i)'
  BY <1>1 DEF IsSession, Open, Null
<1>4. Viewers' = {}
  BY <1>3 DEF Viewers
<1>5. {i \in Dropped : Open(i)} = Viewers
  BY DEF Dropped, Viewers, Open
<1>6. sessions_closed' = sessions_closed + Cardinality(Viewers) /\ sessions_total' = sessions_total
  BY <1>5, Zenon DEF WebrtcRestart
<1>7. Cardinality(Viewers) \in Nat /\ Cardinality({}) = 0
  BY ViewersFinite, FS_EmptySet
<1>8. CountInv' /\ sessions_closed' \in 0..MaxOffers
  BY <1>4, <1>6, <1>7, TableAssumption DEF Inv, CountInv, TypeOK
<1>9. TypeOK'
  <2>1. \A i \in Slots : sessions'[i].state \in {"null", "connecting", "streaming", "closed"}
    BY <1>1 DEF Null
  <2>2. context' \in 0..MaxRestarts
    BY TableAssumption DEF WebrtcRestart, Inv, TypeOK
  <2> QED BY <1>6, <1>8, <2>1, <2>2, Zenon DEF WebrtcRestart, Inv, TypeOK, client
<1>10. OwnContext' /\ DecodingIsOwn'
  BY <1>3 DEF OwnContext, DecodingIsOwn
<1> QED BY <1>2, <1>8, <1>9, <1>10 DEF WebrtcRestart, Inv, client

(* Reaping empties the slots of closed sessions only, and media_active is made *)
(* to follow what is left (reap_sessions).                                     *)
LEMMA ReapKeeps == ASSUME Inv, Reap PROVE Inv'
<1>1. sessions' = [i \in Slots |-> IF Open(i) THEN sessions[i] ELSE Null]
  BY DEF Reap
<1>2. \A i \in Slots : /\ Open(i) => sessions'[i] = sessions[i]
                       /\ ~Open(i) => sessions'[i] = Null
  BY <1>1
<1>3. Table'
  BY <1>1 DEF Inv, Table
<1>4. \A i \in Slots : /\ IsSession(i)' <=> Open(i)
                       /\ Open(i)' <=> Open(i)
  BY <1>2 DEF Open, IsSession
<1>5. Viewers' = Viewers
  BY <1>4 DEF Viewers
<1>6. CountInv'
  BY <1>5 DEF Reap, Inv, CountInv, counts
<1>7. media_active' = (running /\ Viewers # {}) /\ running' = running /\ phase' = "reap"
  BY DEF Reap, Advance
<1>8. TypeOK'
  <2>1. \A i \in Slots : sessions'[i].state \in {"null", "connecting", "streaming", "closed"}
    BY <1>3 DEF Table, Session, Null
  <2>2. media_active' \in BOOLEAN
    BY <1>7, Zenon DEF Inv, TypeOK
  <2> QED BY <1>7, <2>1, <2>2 DEF Reap, Inv, TypeOK, counts, client
<1>9. OwnContext'
  BY <1>2, <1>4 DEF Reap, Inv, OwnContext
<1>10. DecodingIsOwn'
  BY <1>2, <1>4 DEF Reap, Inv, DecodingIsOwn, client, Open
<1>11. DOMAIN reporter' = Slots
  BY DEF Reap, Inv, client
<1>12. (media_active' => running') /\ (media_active' <=> running' /\ Viewers' # {})
  BY <1>5, <1>7, Zenon
<1> QED BY <1>3, <1>6, <1>8, <1>9, <1>10, <1>11, <1>12, SMTT(30) DEF Inv

-----------------------------------------------------------------------------
(* One flow of media for all viewers *)

HasMedia(i) == sessions[i].media # NotYet

\* A viewer that was sent a unit streams and no longer waits for an IDR, and only
\* such a viewer has acknowledged anything.
Keyed(i) ==
    /\ HasMedia(i) => sessions[i].state # "connecting" /\ ~sessions[i].waiting
    /\ sessions[i].rr # NotYet => HasMedia(i)

\* Such viewers are all sent every unit, so the last one is equally old for all.
Flow ==
    /\ \A i \in Slots : IsSession(i) => Keyed(i)
    /\ \A i, j \in Slots :
          Open(i) /\ Open(j) /\ HasMedia(i) /\ HasMedia(j)
            => sessions[i].media = sessions[j].media

(* What a step may do to a slot without disturbing the flow: nothing, empty    *)
(* it, close it, take in a viewer nothing was sent to, or leave its media and  *)
(* wait alone while it connects or reports.                                    *)
LEMMA FlowStays ==
  ASSUME Table, Flow,
         \A i \in Slots :
            \/ sessions'[i] = sessions[i]
            \/ sessions'[i] = Null
            \/ /\ sessions'[i] \in Session /\ sessions'[i].media = NotYet
               /\ sessions'[i].rr = NotYet
            \/ /\ sessions[i] \in Session /\ sessions'[i] \in Session
               /\ sessions'[i].media = sessions[i].media
               /\ sessions'[i].waiting = sessions[i].waiting
               /\ sessions'[i].state # "connecting"
               /\ sessions'[i].rr # NotYet => sessions[i].media # NotYet
               /\ sessions'[i].state = "closed" \/ sessions[i].state # "closed"
  PROVE  Flow'
<1>1. ASSUME NEW i \in Slots, IsSession(i)'
      PROVE  /\ Keyed(i)'
             /\ Open(i)' /\ HasMedia(i)' =>
                  Open(i) /\ HasMedia(i) /\ sessions'[i].media = sessions[i].media
  <2>1. CASE sessions'[i] = sessions[i]
    BY <1>1, <2>1 DEF Flow, Keyed, IsSession, Open, HasMedia
  <2>2. CASE sessions'[i] = Null
    BY <1>1, <2>2 DEF IsSession
  <2>3. CASE sessions'[i] \in Session /\ sessions'[i].media = NotYet /\ sessions'[i].rr = NotYet
    BY <2>3 DEF Keyed, HasMedia, NotYet, Never
  <2>4. CASE /\ sessions[i] \in Session /\ sessions'[i] \in Session
             /\ sessions'[i].media = sessions[i].media
             /\ sessions'[i].waiting = sessions[i].waiting
             /\ sessions'[i].state # "connecting"
             /\ sessions'[i].rr # NotYet => sessions[i].media # NotYet
             /\ sessions'[i].state = "closed" \/ sessions[i].state # "closed"
    <3>1. IsSession(i) /\ Keyed(i)
      BY <2>4, NullIsNone DEF IsSession, Flow
    <3> QED BY <2>4, <3>1 DEF Keyed, HasMedia, Open, NotYet, Never
  <2> QED BY <2>1, <2>2, <2>3, <2>4
<1>2. ASSUME NEW i \in Slots, NEW j \in Slots,
             Open(i)' /\ Open(j)' /\ HasMedia(i)' /\ HasMedia(j)'
      PROVE  sessions'[i].media = sessions'[j].media
  <2>1. IsSession(i)' /\ IsSession(j)'
    BY <1>2 DEF Open
  <2> QED BY <1>1, <1>2, <2>1 DEF Flow
<1> QED BY <1>1, <1>2 DEF Flow

(* Every step but a unit that is sent and the clock is of that kind.           *)
LEMMA ViewerStepsKeepFlow ==
  ASSUME Inv, Flow, NEW i \in Slots, Connect(i) \/ ReceiverReport(i) \/ Offer(i)
  PROVE  Flow'
<1>1. CASE Connect(i)
  <2>1. sessions[i] \in Session /\ sessions[i].state = "connecting"
    BY <1>1, OpenSlots DEF Inv, Connect
  <2>2. sessions' = [sessions EXCEPT ![i].state = "streaming"]
    BY <1>1 DEF Connect
  <2>3. \A j \in Slots \ {i} : sessions'[j] = sessions[j]
    BY <2>2, Zenon DEF Inv, Table
  <2>4. /\ sessions'[i] \in Session /\ sessions'[i].state = "streaming"
        /\ sessions'[i].media = sessions[i].media /\ sessions'[i].rr = sessions[i].rr
        /\ sessions'[i].waiting = sessions[i].waiting
    BY <2>1, <2>2 DEF Inv, Table, Session
  <2>5. sessions[i].rr # NotYet => sessions[i].media # NotYet
    BY <2>1, NullIsNone DEF Flow, Keyed, HasMedia, IsSession
  <2> QED BY <2>1, <2>3, <2>4, <2>5, FlowStays DEF Inv
<1>2. CASE ReceiverReport(i)
  <2>1. /\ sessions[i] \in Session /\ sessions[i].state = "streaming"
        /\ sessions[i].media # NotYet
    BY <1>2, NullIsNone DEF Inv, Table, ReceiverReport, Streaming, IsSession
  <2>2. sessions' = [sessions EXCEPT ![i].rr = 0]
    BY <1>2 DEF ReceiverReport
  <2>3. \A j \in Slots \ {i} : sessions'[j] = sessions[j]
    BY <2>2, Zenon DEF Inv, Table
  <2>4. /\ sessions'[i] \in Session /\ sessions'[i].state = "streaming"
        /\ sessions'[i].media = sessions[i].media
        /\ sessions'[i].waiting = sessions[i].waiting
    BY <2>1, <2>2 DEF Inv, Table, Session
  <2> QED BY <2>1, <2>3, <2>4, FlowStays DEF Inv
<1>3. CASE Offer(i)
  <2> DEFINE s == [state |-> "connecting", id |-> sessions_total + 1, context |-> context,
                   waiting |-> TRUE, media |-> NotYet, rr |-> NotYet]
  <2>1. s \in Session
    BY TableAssumption DEF Inv, TypeOK, Session, NotYet, Never
  <2>2. sessions' = [sessions EXCEPT ![i] = s]
    BY <1>3 DEF Offer
  <2>3. s.media = NotYet /\ s.rr = NotYet
    OBVIOUS
  <2> HIDE DEF s
  <2>4. sessions'[i] = s /\ \A j \in Slots \ {i} : sessions'[j] = sessions[j]
    BY <2>2, Zenon DEF Inv, Table
  <2> QED BY <2>1, <2>3, <2>4, FlowStays DEF Inv
<1> QED BY <1>1, <1>2, <1>3

LEMMA ClosingKeepsFlow ==
  ASSUME Inv, Flow, NEW S \in SUBSET Viewers, CloseAll(S)
  PROVE  Flow'
<1>1. ASSUME NEW i \in Slots, i \in S
      PROVE  /\ sessions[i] \in Session /\ sessions'[i] \in Session
             /\ sessions'[i].media = sessions[i].media
             /\ sessions'[i].waiting = sessions[i].waiting
             /\ sessions'[i].rr # NotYet => sessions[i].media # NotYet
             /\ sessions'[i].state = "closed"
  <2>1. sessions[i] \in Session
    BY <1>1, OpenSlots DEF Viewers, Inv
  <2>2. sessions'[i] = [sessions[i] EXCEPT !.state = "closed"]
    BY <1>1, Zenon DEF CloseAll
  <2>3. sessions[i].rr # NotYet => sessions[i].media # NotYet
    BY <2>1, NullIsNone DEF Flow, Keyed, HasMedia, IsSession
  <2> QED BY <2>1, <2>2, <2>3 DEF Session
<1>2. \A i \in Slots : i \notin S => sessions'[i] = sessions[i]
  BY Zenon DEF CloseAll
<1> QED BY <1>1, <1>2, FlowStays DEF Inv

LEMMA TableStepsKeepFlow ==
  ASSUME Inv, Flow, WebrtcRestart \/ Reap \/ UNCHANGED sessions
  PROVE  Flow'
<1>1. CASE WebrtcRestart
  <2>1. \A i \in Slots : sessions'[i] = Null
    BY <1>1 DEF WebrtcRestart, Dropped, IsSession
  <2> QED BY <2>1, FlowStays DEF Inv
<1>2. CASE Reap
  <2>1. \A i \in Slots : sessions'[i] = sessions[i] \/ sessions'[i] = Null
    BY <1>2, Zenon DEF Reap
  <2> QED BY <2>1, FlowStays DEF Inv
<1>3. CASE UNCHANGED sessions
  BY <1>3, FlowStays DEF Inv
<1> QED BY <1>1, <1>2, <1>3

(* An open viewer that has media streams and waits for nothing.                *)
LEMMA HasMediaGets ==
  ASSUME Inv, Flow, NEW i \in Slots, Open(i), HasMedia(i), NEW isIdr \in BOOLEAN
  PROVE  Gets(i, isIdr)
<1>1. sessions[i] \in Session /\ IsSession(i) /\ sessions[i].state # "closed"
  BY OpenSlots DEF Inv, Open
<1>2. sessions[i].state # "connecting" /\ ~sessions[i].waiting
  BY <1>1 DEF Flow, Keyed
<1> QED BY <1>1, <1>2 DEF Session, Gets, Streaming

(* A unit goes to every viewer that already has media, and to new ones with    *)
(* it: for all of them it is the latest (fan_out_access_units).                *)
LEMMA FanOutKeepsFlow == ASSUME Inv, Flow, FanOut PROVE Flow'
<1>1. CASE UNCHANGED sessions
  BY <1>1, TableStepsKeepFlow
<1>2. ASSUME NEW isIdr \in BOOLEAN,
             sessions' = [i \in Slots |->
                  IF Gets(i, isIdr)
                  THEN [sessions[i] EXCEPT !.waiting = FALSE, !.media = 0]
                  ELSE sessions[i]]
      PROVE  Flow'
  <2>1. ASSUME NEW i \in Slots, Gets(i, isIdr)
        PROVE  Keyed(i)' /\ sessions'[i].media = 0
    <3>1. sessions[i] \in Session /\ sessions[i].state = "streaming"
      BY <2>1, NullIsNone DEF Inv, Table, Gets, Streaming, IsSession
    <3>2. sessions'[i] = [sessions[i] EXCEPT !.waiting = FALSE, !.media = 0]
      BY <1>2, <2>1, Zenon
    <3>3. sessions'[i].state = "streaming" /\ sessions'[i].waiting = FALSE /\ sessions'[i].media = 0
      BY <3>1, <3>2 DEF Session
    <3>4. NotYet # 0
      BY TableAssumption DEF NotYet, Never
    <3> QED BY <3>3, <3>4 DEF Keyed, HasMedia, NotYet, Never
  <2>2. \A i \in Slots : ~Gets(i, isIdr) => sessions'[i] = sessions[i]
    BY <1>2, Zenon
  <2>3. ASSUME NEW i \in Slots, IsSession(i)' PROVE Keyed(i)'
    <3>1. CASE Gets(i, isIdr)
      BY <2>1, <3>1
    <3>2. CASE ~Gets(i, isIdr)
      BY <2>2, <2>3, <3>2 DEF Flow, Keyed, IsSession, HasMedia
    <3> QED BY <3>1, <3>2
  <2>4. ASSUME NEW i \in Slots, Open(i)', HasMedia(i)' PROVE sessions'[i].media = 0
    <3>1. CASE Gets(i, isIdr)
      BY <2>1, <3>1
    <3>2. CASE ~Gets(i, isIdr)
      <4>1. Open(i) /\ HasMedia(i)
        BY <2>2, <2>4, <3>2 DEF Open, IsSession, HasMedia
      <4> QED BY <3>2, <4>1, HasMediaGets, Zenon
    <3> QED BY <3>1, <3>2
  <2> QED BY <2>3, <2>4 DEF Flow
<1> QED BY <1>1, <1>2, Zenon DEF FanOut

(* Growing older keeps equal ages equal and NotYet apart from all others.      *)
LEMMA OlderKeeps ==
  ASSUME NEW age \in Nat
  PROVE  Older(age) # NotYet <=> age # NotYet
BY TableAssumption DEF Older, NotYet, Never

LEMMA SuperviseKeepsFlow == ASSUME Inv, Flow, Supervise PROVE Flow'
<1>1. CASE UNCHANGED sessions
  BY <1>1, TableStepsKeepFlow
<1>2. ASSUME sessions' = [i \in Slots |->
                 IF IsSession(i)
                 THEN [sessions[i] EXCEPT !.media = Older(@), !.rr = Older(@)]
                 ELSE Null]
      PROVE  Flow'
  <2>1. ASSUME NEW i \in Slots, IsSession(i)'
        PROVE  /\ IsSession(i) /\ Keyed(i)' /\ sessions'[i].state = sessions[i].state
               /\ sessions'[i].media = Older(sessions[i].media)
               /\ HasMedia(i)' <=> HasMedia(i)
    <3>1. IsSession(i) /\ sessions[i] \in Session
      BY <1>2, <2>1, Zenon DEF IsSession, Inv, Table
    <3>2. sessions'[i] = [sessions[i] EXCEPT !.media = Older(sessions[i].media),
                                             !.rr = Older(sessions[i].rr)]
      BY <1>2, <3>1, Zenon
    <3>3. /\ sessions'[i].state = sessions[i].state
          /\ sessions'[i].waiting = sessions[i].waiting
          /\ sessions'[i].media = Older(sessions[i].media)
          /\ sessions'[i].rr = Older(sessions[i].rr)
      BY <3>1, <3>2 DEF Session
    <3>4. sessions[i].media \in Nat /\ sessions[i].rr \in Nat
      BY <3>1 DEF Session
    <3>5. Keyed(i)
      BY <3>1 DEF Flow
    <3> QED BY <3>1, <3>3, <3>4, <3>5, OlderKeeps DEF Keyed, HasMedia, NotYet, Never
  <2>2. ASSUME NEW i \in Slots, NEW j \in Slots,
               Open(i)' /\ Open(j)' /\ HasMedia(i)' /\ HasMedia(j)'
        PROVE  sessions'[i].media = sessions'[j].media
    <3>1. /\ Open(i) /\ HasMedia(i) /\ sessions'[i].media = Older(sessions[i].media)
          /\ Open(j) /\ HasMedia(j) /\ sessions'[j].media = Older(sessions[j].media)
      BY <2>1, <2>2 DEF Open
    <3>2. sessions[i].media = sessions[j].media
      BY <3>1 DEF Flow
    <3> QED BY <3>1, <3>2
  <2> QED BY <2>1, <2>2 DEF Flow
<1> QED BY <1>1, <1>2, Zenon DEF Supervise

LEMMA NextFlow == Inv /\ Flow /\ [Next]_vars => Flow'
<1> SUFFICES ASSUME Inv, Flow, [Next]_vars PROVE Flow'
  OBVIOUS
<1>1. ASSUME NEW i \in Slots, Connect(i) \/ ReceiverReport(i) \/ Offer(i) PROVE Flow'
  BY <1>1, ViewerStepsKeepFlow
<1>2. ASSUME NEW i \in Slots, Bye(i) \/ Close(i) PROVE Flow'
  BY <1>2, ClosingKeepsFlow DEF Bye, Close, Closable, Viewers
<1>3. CASE Ticks
  BY <1>3, ClosingKeepsFlow DEF Ticks, Viewers
<1>4. ASSUME NEW i \in Slots, NEW n \in 0..MaxDecoded, ClientStats(i, n) PROVE Flow'
  BY <1>4, TableStepsKeepFlow DEF ClientStats
<1>5. CASE WebrtcRestart \/ CameraRestart \/ UdpDone \/ Reap \/ UNCHANGED vars
  BY <1>5, TableStepsKeepFlow DEF CameraRestart, UdpDone, vars
<1>6. CASE FanOut \/ Supervise
  BY <1>6, FanOutKeepsFlow, SuperviseKeepsFlow
<1> QED BY <1>1, <1>2, <1>3, <1>4, <1>5, <1>6, SMTT(30) DEF Next

(* If media is recent for one viewer and a report of another, both are recent  *)
(* for that other (server_state).                                              *)
LEMMA FlowStreams ==
  ASSUME Inv, Flow, server_state = "streaming"
  PROVE  \E i \in Slots : Rtp(i) /\ Rtcp(i)
<1>1. (\E i \in Slots : Rtp(i)) /\ (\E i \in Slots : Rtcp(i))
  BY DEF server_state
<1>2. PICK i \in Slots : Rtp(i)
  BY <1>1
<1>3. PICK j \in Slots : Rtcp(j)
  BY <1>1
<1>4. sessions[i] \in Session /\ sessions[j] \in Session /\ Open(i) /\ Open(j)
  BY <1>2, <1>3, OpenSlots DEF Rtp, Rtcp, Inv
<1>5. HasMedia(i) /\ sessions[j].rr # NotYet
  BY <1>2, <1>3, <1>4, TableAssumption DEF Rtp, Rtcp, HasMedia, NotYet, Never, Session
<1>6. HasMedia(j)
  BY <1>4, <1>5 DEF Flow, Keyed, Open
<1>7. sessions[i].media = sessions[j].media
  BY <1>4, <1>5, <1>6 DEF Flow
<1> QED BY <1>2, <1>3, <1>4, <1>7 DEF Rtp

-----------------------------------------------------------------------------
(* The results *)

LEMMA InitInv == Init => Inv
<1> SUFFICES ASSUME Init PROVE Inv
  OBVIOUS
<1>1. Table /\ \A i \in Slots : ~IsSession(i) /\ ~Open(i)
  BY DEF Init, Table, IsSession, Open
<1>2. Viewers = {}
  BY <1>1 DEF Viewers
<1>3. CountInv
  BY <1>2, FS_EmptySet DEF Init, CountInv
<1>4. TypeOK
  <2>1. \A i \in Slots : sessions[i].state \in {"null", "connecting", "streaming", "closed"}
    BY DEF Init, Null
  <2>2. decoded \in [Slots -> 0..MaxDecoded]
    BY TableAssumption DEF Init
  <2>3. decoding \in [Slots -> BOOLEAN] /\ media_active \in BOOLEAN
    BY Zenon DEF Init
  <2>4. sessions_total \in 0..MaxOffers /\ sessions_closed \in 0..MaxOffers
    BY TableAssumption DEF Init
  <2>5. context \in 0..MaxRestarts
    BY TableAssumption DEF Init
  <2> QED BY <2>1, <2>2, <2>3, <2>4, <2>5, Zenon DEF Init, TypeOK
<1>5. OwnContext /\ DecodingIsOwn
  BY <1>1 DEF OwnContext, DecodingIsOwn
<1> QED BY <1>1, <1>3, <1>4, <1>5 DEF Init, Inv

LEMMA NextInv == Inv /\ [Next]_vars => Inv'
<1> SUFFICES ASSUME Inv, [Next]_vars PROVE Inv'
  OBVIOUS
<1>1. ASSUME NEW i \in Slots, Connect(i) \/ ReceiverReport(i) \/ Bye(i) PROVE Inv'
  BY <1>1, ConnectKeeps, ReceiverReportKeeps, ByeKeeps
<1>2. ASSUME NEW i \in Slots, Offer(i) \/ Close(i) PROVE Inv'
  BY <1>2, OfferKeeps, CloseKeeps
<1>3. ASSUME NEW i \in Slots, NEW n \in 0..MaxDecoded, ClientStats(i, n) PROVE Inv'
  BY <1>3, ClientStatsKeeps
<1>4. CASE WebrtcRestart \/ CameraRestart
  BY <1>4, WebrtcRestartKeeps, CameraRestartKeeps
<1>5. CASE UdpDone \/ Ticks \/ FanOut \/ Reap \/ Supervise
  BY <1>5, UdpDoneKeeps, TicksKeep, FanOutKeeps, ReapKeeps, SuperviseKeeps, SMTT(30)
<1>6. CASE UNCHANGED vars
  <2>1. Table' /\ TypeOK' /\ DOMAIN reporter' = Slots
    BY <1>6 DEF vars, Inv, Table, TypeOK
  <2>2. \A i \in Slots : /\ IsSession(i)' <=> IsSession(i)
                         /\ Open(i)' <=> Open(i)
    BY <1>6 DEF vars, Open, IsSession
  <2>3. Viewers' = Viewers
    BY <2>2 DEF Viewers
  <2>4. CountInv'
    BY <1>6, <2>3 DEF vars, Inv, CountInv
  <2>5. OwnContext' /\ DecodingIsOwn'
    BY <1>6, <2>2 DEF vars, Inv, OwnContext, DecodingIsOwn
  <2>6. media_active' = media_active /\ running' = running /\ phase' = phase
    BY <1>6 DEF vars
  <2> QED BY <2>1, <2>3, <2>4, <2>5, <2>6 DEF Inv
<1> QED BY <1>1, <1>2, <1>3, <1>4, <1>5, <1>6, SMTT(30) DEF Next

LEMMA InvCounts == Inv => CountsAddUp
<1> SUFFICES ASSUME Inv PROVE CountsAddUp
  OBVIOUS
<1>1. Viewers # {} <=> \E i \in Slots : Open(i)
  BY DEF Viewers
<1> QED BY <1>1 DEF Inv, CountsAddUp, CountInv, Viewers

(* However many slots, viewers and restarts there are: accepted minus closed   *)
(* is the number of open sessions, through every BYE, timeout, close and       *)
(* restart (session_on_closed), and media_active follows the pipeline and the  *)
(* viewers (reap_sessions).                                                    *)
THEOREM SessionsAreCounted == Spec => []CountsAddUp
<1>1. Spec => []Inv
  BY InitInv, NextInv, PTL DEF Spec
<1> QED BY <1>1, InvCounts, PTL

(* No session outlives the DTLS context it was made from, whatever is          *)
(* restarted and when (handle_webrtc_restart).                                 *)
THEOREM SessionsOwnTheirContext == Spec => []OwnContext
<1>1. Inv => OwnContext
  BY DEF Inv
<1> QED BY <1>1, InitInv, NextInv, PTL DEF Spec

(* "decoding" in /api/status is the word of the viewer in the slot, for every  *)
(* order of offers, reports and closings (handle_client_stats, handle_offer).  *)
THEOREM ReportsAreOwn == Spec => []DecodingIsOwn
<1>1. Inv => DecodingIsOwn
  BY DEF Inv
<1> QED BY <1>1, InitInv, NextInv, PTL DEF Spec

LEMMA InitFlow == Init => Flow
BY DEF Init, Flow, IsSession, Open

(* All that /api/status says of the viewers is true of them: "decoding" is the *)
(* word of the viewer in the slot, and under "streaming" one viewer both was   *)
(* sent a unit and acknowledged the stream, however viewers come, report and   *)
(* go.  That the readers of the log and the rates are right on bounded inputs  *)
(* is the hypothesis; the run of MCSessionTable evaluates it.                  *)
THEOREM StatusTellsTheTruth == ReadersAreRight => (Spec => []StatusIsTrue)
<1> SUFFICES ASSUME ReadersAreRight PROVE Spec => []StatusIsTrue
  OBVIOUS
<1>1. Init => Inv /\ Flow
  BY InitInv, InitFlow
<1>2. Inv /\ Flow /\ [Next]_vars => (Inv /\ Flow)'
  BY NextInv, NextFlow
<1>3. Inv /\ Flow => StatusIsTrue
  BY FlowStreams DEF StatusIsTrue, Inv, DecodingIsOwn
<1> QED BY <1>1, <1>2, <1>3, PTL DEF Spec
=============================================================================
