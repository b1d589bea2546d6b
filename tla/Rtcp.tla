--------------------------------- MODULE Rtcp ---------------------------------
(***************************************************************************)
(* src/webrtc/rtcp.c: what rtcp_parse makes of a compound packet, and the  *)
(* round trip time.  A packet is what its header and body say: its report  *)
(* blocks, the entries of a NACK, or its type alone.  "bad" stands for a   *)
(* wrong version or a length that runs past the end, at which the parser   *)
(* returns with what it has.                                               *)
(*                                                                         *)
(* Clock readings are in the compact NTP format, ClockSpace values that    *)
(* wrap, UnitsPerSecond of them to the second.                             *)
(***************************************************************************)
EXTENDS Integers, Sequences, FiniteSetsExt

CONSTANTS Ours,            \* media_ssrc
          MaxNacks,        \* RTCP_MAX_NACK_SEQS
          MaskBits,        \* bits of a NACK's mask, 16 in the code
          SeqSpace,        \* 2^16 in the code
          ClockSpace,      \* 2^32 in the code
          UnitsPerSecond,  \* 65536 in the code
          MsPerSecond,     \* 1000 in the code
          Tolerance,       \* 655 units in the code, 10 ms
          UsPerSecond,     \* 1000000 in the code
          FracSpace,       \* 2^32 in the code
          SecSpace,        \* 2^32 in the code
          Epoch            \* 2208988800 in the code

\* What visiting the elements of seq from first to last makes of base.
ForEach(visit(_, _), base, seq) ==
    MapThenFoldSet(LAMBDA e, acc : visit(acc, e), base, LAMBDA i : seq[i], Max, DOMAIN seq)

NoFeedback == [pli |-> 0, fir |-> 0, bye |-> FALSE, nacks |-> <<>>, rr |-> <<>>,
               end |-> FALSE]

KeepsBlock(rr) == rr # <<>> /\ rr[1].ssrc = Ours

\* The loop over the report blocks; rr is the block kept, if any.
Blocks(rr, blocks) ==
    ForEach(LAMBDA kept, b : IF KeepsBlock(kept) THEN kept ELSE <<b>>, rr, blocks)

\* The sequence numbers of one FCI entry: the packet id, then the mask's.
Entry(e) ==
    LET bits == SelectSeq([i \in 1..MaskBits |-> i], LAMBDA i : (i - 1) \in e.mask)
    IN <<e.pid>> \o [i \in DOMAIN bits |-> (e.pid + bits[i]) % SeqSpace]

\* The limit is looked at before every number.
AddNacks(nacks, e) ==
    LET all == nacks \o Entry(e)
    IN SubSeq(all, 1, IF Len(all) < MaxNacks THEN Len(all) ELSE MaxNacks)

\* One turn of the loop of rtcp_parse; .end is its early return.
ParseOne(f, p) ==
    CASE f.end               -> f
      [] p.kind = "bad"      -> [f EXCEPT !.end = TRUE]
      [] p.kind = "report"   -> [f EXCEPT !.rr = Blocks(@, p.blocks)]
      [] p.kind = "nack"     -> [f EXCEPT !.nacks = ForEach(AddNacks, @, p.fci)]
      [] p.kind = "bye"      -> [f EXCEPT !.bye = TRUE]
      [] p.kind = "pli"      -> [f EXCEPT !.pli = @ + 1]
      [] p.kind = "fir"      -> [f EXCEPT !.fir = @ + 1]
      [] OTHER               -> f

Parse(compound) == ForEach(ParseOne, NoFeedback, compound)

-----------------------------------------------------------------------------
(* Time in a sender report *)

Fraction(wall) == ((wall % UsPerSecond) * FracSpace) \div UsPerSecond

Seconds(wall) == wall \div UsPerSecond + Epoch

\* rtcp_build_sender_report, what it is given and the 64 bit time it makes of it.
BuildSenderReport(wall, rtp_ts, packets, octets) ==
    [secs |-> Seconds(wall) % SecSpace, frac |-> Fraction(wall),
     rtp_ts |-> rtp_ts, packets |-> packets, octets |-> octets]

\* ntp_msw: the middle of that time, the low half of its seconds and the high
\* half of its fraction.
NtpMsw(wall) ==
    (Seconds(wall) % (ClockSpace \div UnitsPerSecond)) * UnitsPerSecond
      + Fraction(wall) \div (FracSpace \div UnitsPerSecond)

-----------------------------------------------------------------------------
\* The result of an unsigned subtraction read as a signed distance.
Signed(x) == LET m == x % ClockSpace IN IF 2 * m < ClockSpace THEN m ELSE m - ClockSpace

Elapsed(now, lsr, dlsr) == Signed(now - lsr - dlsr)

Rounded(e) == (e * MsPerSecond + UnitsPerSecond \div 2) \div UnitsPerSecond

\* rtcp_rtt_ms; -1 is "unknown".
RttMs(now, lsr, dlsr) ==
    LET e == Elapsed(now, lsr, dlsr)
    IN CASE lsr = 0               -> -1
         [] lsr # 0 /\ e >= 0     -> Rounded(e)
         [] lsr # 0 /\ e < 0      -> IF e > -Tolerance THEN 0 ELSE -1
=============================================================================
