------------------------------ MODULE RtpSender ------------------------------
(***************************************************************************)
(* The sending half of a session that streams: the packetizer's loop with  *)
(* rtp_packet_sink called for every packet, the retransmission cache, the  *)
(* browser's RTCP answered from it, and what a sender report says          *)
(* (src/webrtc/webrtc_session.c with rtp_h264.c and rtcp.c).  Everything   *)
(* runs on one thread, so RTCP and reports come between access units and   *)
(* never inside one; one step is one packet.                               *)
(*                                                                         *)
(* Packets are also counted without wrap, from 1: the n-th has the         *)
(* sequence number n % SeqSpace.                                           *)
(***************************************************************************)
EXTENDS RtpH264, Rtcp

CONSTANTS CacheSize,    \* RETX_CACHE_SIZE
          Units,        \* access units to send: their bytes, and the NAL units
                        \* the encoder made them of
          Arrivals,     \* RTCP the browser may send: a compound packet and the
                        \* true round trip, in units of the compact clock
          FrameGap,     \* microseconds from one captured frame to the next
          Delays,       \* microseconds from a capture to a sender report
          WallOffset,   \* the wall clock's reading at 0 of the monotonic one
          CountSpace,   \* 2^32 in the code: the counters of the packetizer
          MaxUnits,     \* bound: access units sent
          MaxFailures   \* bound: packets that cannot be protected

ASSUME CacheAssumption ==
    /\ SeqSpace \in Nat \ {0} /\ CacheSize \in Nat \ {0}
    /\ SeqSpace % CacheSize = 0

\* The compact clock tells a round trip of less than half its range.
ASSUME TripAssumption ==
    /\ ClockSpace \in Nat \ {0} /\ UnitsPerSecond \in Nat \ {0}
    /\ MsPerSecond \in Nat /\ Tolerance \in Nat
    /\ \A a \in Arrivals :
          a.trip \in Int /\ -ClockSpace <= 2 * a.trip /\ 2 * a.trip < ClockSpace

\* The access units have bytes.  The clocks of a sender report are made of one
\* another: the compact clock is the middle of the NTP time.  A report and the
\* frames around it are less than half a turn of the 90 kHz clock apart.
Near(us) == LET off == us * TickNum
            IN 2 * (off + TickDen) <= TickSpace * TickDen
                 /\ 2 * (TickDen - off) <= TickSpace * TickDen

ASSUME TimeAssumption ==
    /\ \A u \in Units : u.bytes # <<>>
    /\ FrameGap \in Nat /\ WallOffset \in Nat /\ Epoch \in Nat /\ Delays \subseteq Nat
    /\ {UsPerSecond, FracSpace, SecSpace, TickNum, TickDen, TickSpace, CountSpace}
          \subseteq Nat \ {0}
    /\ FracSpace % UnitsPerSecond = 0 /\ ClockSpace % UnitsPerSecond = 0
    /\ SecSpace % (ClockSpace \div UnitsPerSecond) = 0
    /\ 2 * (TickDen * FracSpace + UsPerSecond * TickNum)
          <= SecSpace * UsPerSecond * FracSpace * TickNum
    /\ \A d \in Delays : Near(d) /\ Near(FrameGap - d)

VARIABLES
    streaming,      \* the session has not been closed by a BYE
    unit,           \* the access unit being packetized, <<>> for none
    nals,           \* history: the NAL units it was made of
    cursor, offset, \* where its loop is
    emitted,        \* history: its packets so far
    units,          \* access units begun
    sequence,       \* p->sequence
    sent,           \* history: the packets that left, by count
    count,          \* history: packets numbered
    failures,       \* packets that could not be protected
    have_base, base_pts_us,          \* the packetizer's timeline
    pts_us,         \* when the last access unit was captured
    packets, octets,                 \* its counters
    due,            \* history: what octets should be behind the last unit
    report,         \* history: the sender report between the last two access
                    \* units and the time it went out, <<>> for none
    retx_seq, retx_len, retx_data,   \* the cache; retx_data by count
    compound, trip, \* history: RTCP handled since the last access unit, and the
                    \* true round trip then
    resent,         \* history: the packets it was answered with, by count
    reported,       \* history: whether it counted as a report on our stream
    rtt_ms          \* stats.rtt_ms

loop == <<unit, nals, cursor, offset, emitted, units>>
cache == <<retx_seq, retx_len, retx_data>>
numbers == <<sequence, count, sent, failures, packets, octets>>
timeline == <<have_base, base_pts_us, pts_us, due, report>>
feedback == <<compound, trip, resent, reported, rtt_ms>>
vars == <<streaming, loop, cache, numbers, timeline, feedback>>

CacheSlots == 0..(CacheSize - 1)

Init ==
    /\ streaming = TRUE
    /\ unit = <<>> /\ nals = <<>> /\ cursor = 0 /\ offset = FirstByte
    /\ emitted = <<>> /\ units = 0
    /\ sequence = 0 /\ count = 0 /\ sent = {} /\ failures = 0
    /\ packets = 0 /\ octets = 0 /\ due = 0
    /\ have_base = FALSE /\ base_pts_us = 0 /\ pts_us = 0 /\ report = <<>>
    /\ retx_seq = [i \in CacheSlots |-> 0]
    /\ retx_len = [i \in CacheSlots |-> 0]
    /\ retx_data = [i \in CacheSlots |-> 0]
    /\ compound = <<>> /\ trip = 0 /\ resent = {} /\ reported = FALSE /\ rtt_ms = 0

-----------------------------------------------------------------------------
(* Sending *)

\* History: the payload RFC 6184 makes of a NAL unit of this length, one header
\* for the unit, or two bytes for each fragment of the rest.
OctetsOfLength(n) ==
    IF Fits(n) THEN n ELSE (n - 1) + 2 * ((n - 1 + Chunk - 1) \div Chunk)

OctetsOf(ns) == ForEach(LAMBDA sum, n : sum + OctetsOfLength(Len(n)), 0, ns)

\* rtc_session_send_access_unit, with an access unit it does not hold back.
SendAccessUnit(u) ==
    /\ streaming /\ unit = <<>> /\ units < MaxUnits
    /\ unit' = u.bytes /\ nals' = u.nals /\ cursor' = 0 /\ offset' = FirstByte
    /\ emitted' = <<>> /\ units' = units + 1
    /\ compound' = <<>> /\ trip' = 0 /\ resent' = {} /\ reported' = FALSE
    /\ pts_us' = pts_us + FrameGap
    /\ have_base' = TRUE
    /\ base_pts_us' = IF have_base THEN base_pts_us ELSE pts_us'
    /\ due' = (due + OctetsOf(u.nals)) % CountSpace
    /\ UNCHANGED <<streaming, cache, numbers, report, rtt_ms>>

\* rtp_ts, the timestamp in every packet of the access unit.
Stamp == TimestampAt(base_pts_us, pts_us)

InLoop == unit # <<>> /\ MoreNals(unit, cursor)

Nal == NextNal(unit, cursor)

\* Two start codes with nothing but zeros between them.
SkipEmpty ==
    /\ InLoop /\ Nal.length = 0
    /\ cursor' = After(Nal)
    /\ UNCHANGED <<unit, nals, offset, emitted, units, streaming, cache, numbers, timeline,
                   feedback>>

NextSeq == (sequence + 1) % SeqSpace

Slot(seq) == seq % CacheSize

\* The loop emits packet p under the next sequence number and goes on.
Emit(p) ==
    /\ emitted' = Append(emitted, p)
    /\ cursor' = IF MoreOf(Nal, p) THEN cursor ELSE After(Nal)
    /\ offset' = IF MoreOf(Nal, p) THEN p.from + p.take ELSE FirstByte
    /\ sequence' = NextSeq /\ count' = count + 1
    /\ packets' = (packets + 1) % CountSpace
    /\ octets' = (octets + Payload(p)) % CountSpace
    /\ UNCHANGED <<unit, nals, units, streaming, timeline, feedback>>

\* rtp_packet_sink protects and sends the packet, and keeps what it sent.
Sink ==
    /\ InLoop /\ Nal.length > 0
    /\ Emit(PacketAt(unit, Nal, offset))
    /\ sent' = sent \cup {count + 1}
    /\ retx_data' = [retx_data EXCEPT ![Slot(NextSeq)] = count + 1]
    /\ retx_len' = [retx_len EXCEPT ![Slot(NextSeq)] = 1]
    /\ retx_seq' = [retx_seq EXCEPT ![Slot(NextSeq)] = NextSeq]
    /\ UNCHANGED failures

\* dtls_srtp_send_rtp fails: the packet has used up its number.
SinkFails ==
    /\ InLoop /\ Nal.length > 0 /\ failures < MaxFailures
    /\ Emit(PacketAt(unit, Nal, offset))
    /\ failures' = failures + 1
    /\ UNCHANGED <<sent, cache>>

Return ==
    /\ unit # <<>> /\ ~InLoop
    /\ unit' = <<>> /\ nals' = <<>> /\ emitted' = <<>> /\ cursor' = 0
    /\ report' = <<>>
    /\ UNCHANGED <<offset, units, streaming, cache, numbers, have_base, base_pts_us,
                   pts_us, due, feedback>>

-----------------------------------------------------------------------------
(* The sender report of rtc_session_tick; RtcSession has its timer *)

\* Slip: the last frame's timestamp is reused.
MutReportTimestamp(us) == IF have_base THEN TimestampAt(base_pts_us, pts_us) ELSE 0
\* rtp_h264_timestamp_at, 0 before the first access unit.
ReportTimestamp(us) == IF have_base THEN TimestampAt(base_pts_us, us) ELSE 0

\* frames_sent > 0: some access unit made a packet.
FramesSent == count > 0

\* Bound: one datagram of RTCP or one report between two access units.
SenderReport(delay) ==
    /\ streaming /\ unit = <<>> /\ compound = <<>> /\ report = <<>>
    /\ FramesSent
    /\ LET now == pts_us + delay
       IN report' = <<[at |-> now,
                       sr |-> BuildSenderReport(now + WallOffset, ReportTimestamp(now),
                                                packets, octets)]>>
    /\ UNCHANGED <<streaming, loop, cache, numbers, have_base, base_pts_us, pts_us, due,
                   feedback>>

-----------------------------------------------------------------------------
(* dtls_on_rtcp; what a keyframe request does is in RtcSession *)

\* Slip: any packet in the slot will do.
MutCached(seq) == retx_len[Slot(seq)] # 0
Cached(seq) == retx_len[Slot(seq)] # 0 /\ retx_seq[Slot(seq)] = seq

\* handle_nacks.
Answers(nacks) == {retx_data[Slot(seq)] : seq \in {n \in Range(nacks) : Cached(n)}}

\* The peer echoes the time of a sender report and how long ago it came, so the
\* clock now shows both and the round trip.
Now(block, t) == (block.lsr + block.dlsr + t) % ClockSpace

OurReport(f) == f.rr # <<>> /\ f.rr[1].ssrc = Ours

RttAfter(f, t) ==
    LET rtt == RttMs(Now(f.rr[1], t), f.rr[1].lsr, f.rr[1].dlsr)
    IN IF OurReport(f) /\ rtt >= 0 THEN rtt ELSE rtt_ms

\* The datagrams as rtcp_parse reads them.
Datagrams == {[arrival |-> a, read |-> Parse(a.compound)] : a \in Arrivals}

\* f is what rtcp_parse made of the datagram.
OnRtcp(c, t, f) ==
    /\ streaming /\ unit = <<>> /\ compound = <<>> /\ report = <<>>
    /\ compound' = c /\ trip' = t
    /\ IF f.bye
       THEN /\ streaming' = FALSE
            /\ resent' = {} /\ reported' = FALSE
            /\ UNCHANGED rtt_ms
       ELSE /\ resent' = Answers(f.nacks)
            /\ reported' = OurReport(f)
            /\ rtt_ms' = RttAfter(f, t)
            /\ UNCHANGED streaming
    /\ UNCHANGED <<loop, cache, numbers, timeline>>

Next ==
    \/ \E u \in Units : SendAccessUnit(u)
    \/ SkipEmpty \/ Sink \/ SinkFails \/ Return
    \/ \E delay \in Delays : SenderReport(delay)
    \/ \E d \in Datagrams : OnRtcp(d.arrival.compound, d.arrival.trip, d.read)

Spec == Init /\ [][Next]_vars

-----------------------------------------------------------------------------
(* The receiver of RFC 6184: whole units, or fragments from a start to an end *)

Received(at, length) == SubSeq(unit, at + 1, at + length)

Receive(state, p) ==
    IF ~p.fu THEN [state EXCEPT !.units = Append(@, Received(p.nal, p.take))]
    ELSE LET have == IF p.start THEN 1 + p.take
                     ELSE IF p.from = state.have THEN state.have + p.take ELSE 0
         IN IF p.end
            THEN [units |-> Append(state.units, Received(p.nal, have)), have |-> 0]
            ELSE [state EXCEPT !.have = have]

Reassembled == ForEach(Receive, [units |-> <<>>, have |-> 0], emitted).units

Packetized == unit # <<>> /\ ~InLoop

(* What the browser said, read without the parser *)

\* The packets in front of the first malformed one.
ValidPart(c) ==
    LET bad == {i \in DOMAIN c : c[i].kind = "bad"}
    IN IF bad = {} THEN c
       ELSE SubSeq(c, 1, (CHOOSE i \in bad : \A j \in bad : i <= j) - 1)

\* The reports with a block about our stream, and the first such block.
ReportsOnUs(c) ==
    {i \in DOMAIN ValidPart(c) :
        /\ c[i].kind = "report"
        /\ \E j \in DOMAIN c[i].blocks : c[i].blocks[j].ssrc = Ours}

FirstOnUs(c) ==
    LET blocks == c[Min(ReportsOnUs(c))].blocks
    IN blocks[Min({j \in DOMAIN blocks : blocks[j].ssrc = Ours})]

AllNacks(c) ==
    LET valid == ValidPart(c)
        named(fci) == ForEach(LAMBDA all, e : all \o Entry(e), <<>>, fci)
    IN ForEach(LAMBDA all, p : IF p.kind = "nack" THEN all \o named(p.fci) ELSE all,
               <<>>, valid)

\* The packets asked for; the parser has room for the first MaxNacks of them.
Asked(c) ==
    LET all == AllNacks(c)
    IN Range(SubSeq(all, 1, IF Len(all) < MaxNacks THEN Len(all) ELSE MaxNacks))

SaidBye(c) == \E i \in DOMAIN ValidPart(c) : ValidPart(c)[i].kind = "bye"

\* rtcp_parse reads every datagram as it is meant: the goodbye and the numbers asked
\* for, and of the report blocks the first that is about our stream, with two
\* times of the compact clock.
ParsedAsMeant ==
    \A d \in Datagrams :
        LET c == d.arrival.compound
            f == d.read
        IN /\ f.bye <=> SaidBye(c)
           /\ Range(f.nacks) = Asked(c) /\ Asked(c) \subseteq 0..(SeqSpace - 1)
           /\ OurReport(f) <=> ReportsOnUs(c) # {}
           /\ OurReport(f) => /\ f.rr[1] = FirstOnUs(c)
                              /\ f.rr[1].lsr \in 0..(ClockSpace - 1)
                              /\ f.rr[1].dlsr \in 0..(ClockSpace - 1)

(* What a receiver makes of a sender report *)

\* A difference modulo space, read as the nearest value to 0.
Nearest(x, space) == LET m == x % space IN IF 2 * m < space THEN m ELSE m - space

\* Where a receiver places the access unit by the sender report: the report's time
\* plus the difference of the RTP timestamps.  In 1 / (FracSpace * TickNum)
\* of a microsecond.
Placed(r) ==
    (r.sr.secs * FracSpace + r.sr.frac) * UsPerSecond * TickNum
      + Nearest(Stamp - r.sr.rtp_ts, TickSpace) * TickDen * FracSpace

\* The middle of the report's NTP time, as the peer takes it: the low half of the
\* seconds, the high half of the fraction.
Middle(sr) == ((sr.secs * FracSpace + sr.frac) \div (FracSpace \div UnitsPerSecond)) % ClockSpace

\* The report's two timestamps place the access unit where it was captured.
SameInstant(r) ==
    LET captured == (pts_us + WallOffset + Epoch * UsPerSecond) * FracSpace * TickNum
        off == Nearest(Placed(r) - captured,
                       SecSpace * UsPerSecond * FracSpace * TickNum)
        bound == TickDen * FracSpace + UsPerSecond * TickNum
    IN -bound < off /\ off < bound

-----------------------------------------------------------------------------
(* Properties *)

\* The types of the sender's state; sequence numbers are 16 bit.
TypeOK ==
    /\ streaming \in BOOLEAN /\ reported \in BOOLEAN
    /\ sequence \in 0..(SeqSpace - 1) /\ sequence = count % SeqSpace
    /\ sent \subseteq 1..count
    /\ retx_seq \in [CacheSlots -> 0..(SeqSpace - 1)]
    /\ retx_len \in [CacheSlots -> {0, 1}]
    /\ retx_data \in [CacheSlots -> 0..count]
    /\ packets \in 0..(CountSpace - 1) /\ octets \in 0..(CountSpace - 1)
    /\ rtt_ms \in Nat

\* What rtp_h264_packetize makes of an access unit is what RFC 6184 asks for.  A
\* receiver gets back every NAL unit, whole and in order, and no other: next_nal
\* finds them between start codes of either length and padding, and no byte is
\* lost or sent twice at a fragment boundary.  No packet exceeds the budget and
\* none is a first and a last fragment at once.  The last packet, and only it,
\* has the marker bit, unless an empty NAL unit sits between two others.  The
\* types hold throughout.
ReassemblesExactly ==
    /\ TypeOK
    /\ Packetized =>
        /\ Reassembled = SelectSeq(nals, LAMBDA n : n # <<>>)
        /\ \A k \in DOMAIN emitted :
              /\ emitted[k].take + (IF emitted[k].fu THEN 2 ELSE 0) <= Budget
              /\ ~(emitted[k].fu /\ emitted[k].start /\ emitted[k].end)
              /\ k = Len(emitted) => emitted[k].marker
              /\ k < Len(emitted) /\ (\A i \in DOMAIN nals : nals[i] # <<>>)
                    => ~emitted[k].marker

\* The cache never mixes up the rounds of the sequence number: what it holds for a
\* number did leave, has that number, and is the latest that has.  And every packet
\* that left among the last CacheSize is in it.
CacheIsCurrent ==
    /\ \A seq \in 0..(SeqSpace - 1) :
          Cached(seq) => /\ retx_data[Slot(seq)] \in sent
                         /\ retx_data[Slot(seq)] % SeqSpace = seq
                         /\ \A n \in sent : n % SeqSpace = seq => n <= retx_data[Slot(seq)]
    /\ \A n \in sent :
          n > count - CacheSize => /\ Cached(n % SeqSpace)
                                   /\ retx_data[Slot(n % SeqSpace)] = n

\* A NACK brings back the packets asked for and no others.  Every packet sent
\* again has a sequence number the peer named, among the first the parser has
\* room for and in front of anything malformed, it did leave before, and it is
\* the latest with that number, so a number that has come round never brings back
\* the packet of the round before.  And a packet asked for that is among the last
\* CacheSize numbers and did leave is sent again, also just after the sequence
\* number wrapped, unless the peer says goodbye in the same datagram.  The cache
\* could answer any other NACK as well (CacheIsCurrent).  The parser's part, that
\* what it reads is what the peer said, is ParsedAsMeant.
AnswersWhatWasAsked ==
    /\ CacheIsCurrent
    /\ \A m \in resent :
          /\ m \in sent /\ m % SeqSpace \in Asked(compound)
          /\ \A n \in sent : n % SeqSpace = m % SeqSpace => n <= m
    /\ ~SaidBye(compound) /\ unit = <<>> /\ compound # <<>> =>
          \A n \in sent : n > count - CacheSize /\ n % SeqSpace \in Asked(compound)
                             => n \in resent
    /\ Init => ParsedAsMeant

\* "Only a block about our own SSRC describes this stream": a datagram counts as
\* a report exactly when a block in it is about our stream, whatever blocks come
\* before and after it.  The round trip time shown after one that echoes a sender
\* report is the true one to half a millisecond, also across the wrap of the
\* compact clock; a trip the rounding made slightly negative is shown as 0.
RttIsTheTrip ==
    /\ reported <=> (ReportsOnUs(compound) # {} /\ ~SaidBye(compound))
    /\ reported /\ FirstOnUs(compound).lsr # 0 =>
          /\ trip >= 0 => LET d == rtt_ms * UnitsPerSecond - trip * MsPerSecond
                          IN 2 * d <= UnitsPerSecond /\ -2 * d <= UnitsPerSecond
          /\ trip < 0 /\ trip > -Tolerance => rtt_ms = 0

\* "The NTP and RTP timestamps of an SR must denote the same instant": a sender
\* report places the access unit before it and the one after it at the wall
\* clock's time of their capture, to one tick of the 90 kHz clock, also when that
\* clock or the NTP seconds wrap in between; and the middle of its NTP time, which
\* the peer echoes, is what ntp_msw reads at that instant.
ReportIsTimed ==
    \A i \in DOMAIN report :
        /\ SameInstant(report[i])
        /\ Middle(report[i].sr) = NtpMsw(report[i].at + WallOffset)

\* A sender report counts the packets numbered before it, the ones that could not
\* be protected included, modulo 2^32.
PacketsAreCounted ==
    unit = <<>> => \A i \in DOMAIN report : report[i].sr.packets = count % CountSpace

\* What the two sides report of the stream is true.  The browser's reports give
\* the round trip (RttIsTheTrip).  A sender report gives the time (ReportIsTimed),
\* and its counters are the packets numbered so far (PacketsAreCounted) and the
\* payload RFC 6184 makes of the units.
ReportsAreTrue ==
    /\ RttIsTheTrip
    /\ ReportIsTimed /\ PacketsAreCounted
    /\ unit = <<>> => \A i \in DOMAIN report : report[i].sr.octets = due
=============================================================================
