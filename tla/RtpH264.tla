------------------------------- MODULE RtpH264 -------------------------------
(***************************************************************************)
(* The packetizer's decisions (src/webrtc/rtp_h264.c): the NAL units of an *)
(* access unit become RTP packets, whole when they fit, split into FU-A    *)
(* fragments when they do not, with the marker bit on the last packet.     *)
(*                                                                         *)
(* An access unit is a sequence of bytes, of which 0 and 1 matter to the   *)
(* search for start codes; positions in it count from 0, as in the code.   *)
(* A packet says which bytes of the NAL unit at which position it holds.   *)
(***************************************************************************)
EXTENDS Integers, Sequences

CONSTANTS Budget,           \* payload_budget: RTP_MAX_PACKET - RTP_HEADER_SIZE
          TickNum, TickDen, \* 90000 ticks in 1000000 microseconds
          TickSpace         \* 2^32 in the code

ASSUME BudgetAssumption == Budget \in Nat /\ Budget > 2

-----------------------------------------------------------------------------
(* Annex B: a NAL unit stands between start codes 0 0 1 or 0 0 0 1 *)

Byte(d, i) == d[i + 1]

\* The length of the start code at position i, 0 when there is none.
CodeLength(d, i) ==
    IF i + 3 > Len(d) \/ Byte(d, i) # 0 \/ Byte(d, i + 1) # 0 THEN 0
    ELSE IF Byte(d, i + 2) = 1 THEN 3
    ELSE IF i + 4 <= Len(d) /\ Byte(d, i + 2) = 0 /\ Byte(d, i + 3) = 1 THEN 4
    ELSE 0

\* scan_start_code: where the next one is, the end of the data when there is none.
ScanStartCode(d, from) ==
    LET codes == {i \in from..Len(d) : CodeLength(d, i) # 0}
    IN IF codes = {} THEN Len(d) ELSE CHOOSE i \in codes : \A j \in codes : i <= j

MoreNals(d, cursor) == ScanStartCode(d, cursor) < Len(d)

\* The end of the unit without the zeros in front of the next start code.
Until(d, body, end) ==
    CHOOSE e \in body..end :
        /\ e = body \/ Byte(d, e - 1) # 0
        /\ \A f \in e..(end - 1) : Byte(d, f) = 0

\* next_nal, when MoreNals.
NextNal(d, cursor) ==
    LET code == ScanStartCode(d, cursor)
        body == code + CodeLength(d, code)
    IN [at |-> body, length |-> Until(d, body, ScanStartCode(d, body)) - body]

After(n) == n.at + n.length

-----------------------------------------------------------------------------
(* Packets *)

Chunk == Budget - 2

Take(rest) == IF rest > Chunk THEN Chunk ELSE rest

IsLast(rest) == rest <= Chunk

\* Slip: the fragments begin with the NAL header, which the FU header replaces.
MutFirstByte == 0
FirstByte == 1

Fits(n) == n <= Budget

\* The look-ahead behind NAL unit n: only at the one that follows.
HasMore(d, n) == MoreNals(d, After(n)) /\ NextNal(d, After(n)).length > 0

\* The packet for NAL unit n of access unit d, whole.
Whole(d, n) ==
    [nal |-> n.at, from |-> 0, take |-> n.length, fu |-> FALSE, start |-> FALSE,
     end |-> TRUE, marker |-> ~HasMore(d, n)]

\* Its fragment from the given byte on.
Fragment(d, n, from) ==
    LET rest == n.length - from
    IN [nal |-> n.at, from |-> from, take |-> Take(rest), fu |-> TRUE,
        start |-> from = FirstByte, end |-> IsLast(rest),
        marker |-> IsLast(rest) /\ ~HasMore(d, n)]

PacketAt(d, n, from) ==
    IF Fits(n.length) THEN Whole(d, n) ELSE Fragment(d, n, from)

\* Whether the loop over the fragments of n goes on behind packet p.
MoreOf(n, p) == p.fu /\ p.from + p.take < n.length

\* The payload of p, with the two bytes that begin a fragment.
Payload(p) == p.take + (IF p.fu THEN 2 ELSE 0)

-----------------------------------------------------------------------------
\* The RTP timestamp of an instant, base being the first unit's.  One mapping,
\* written out in rtp_h264_packetize and again in rtp_h264_timestamp_at.
TimestampAt(base, us) ==
    LET delta == IF us >= base THEN us - base ELSE 0
    IN ((delta * TickNum) \div TickDen) % TickSpace
=============================================================================
