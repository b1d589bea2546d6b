----------------------------- MODULE MCRtpSender -----------------------------
(* RtpSender with packets of four bytes, a cache of four packets, sequence    *)
(* numbers modulo 8 and a clock modulo 16.  NAL units that are empty, just    *)
(* fit, fill two fragments and leave one byte for a third, behind start codes *)
(* of both lengths and with padding; reports with none, one or two blocks,    *)
(* NACKs that wrap and that overfill the list.  The 90 kHz clock has 9 values *)
(* and wraps between a sender report and the frame after it.                  *)
EXTENDS RtpSender

\* A NAL unit of n bytes; a long one has zeros inside.
NalOf(n) == [k \in 1..n |-> IF k = 1 THEN 1 ELSE IF n > 3 /\ k \in {2, 3} THEN 0 ELSE 2]

\* An access unit of NAL units of these lengths, each behind the given start code.
AccessUnit(lengths, code) ==
    LET ns == [i \in DOMAIN lengths |-> NalOf(lengths[i])]
    IN [nals |-> ns, bytes |-> ForEach(LAMBDA all, n : all \o code \o n, <<>>, ns)]

Short == <<0, 0, 1>>
Long == <<0, 0, 0, 1>>
Padded == <<0, 0, 0, 0, 0, 1>>

Lengths == {0, 1, 4, 5, 6}
MCUnits ==
    {AccessUnit(<<n, m>>, Long) : n \in {0, 1, 6}, m \in Lengths}
      \cup {AccessUnit(l, Long) : l \in {<<7>>, <<5, 0, 1>>, <<1, 4, 5>>}}
      \cup {AccessUnit(<<n>>, Short) : n \in Lengths}
      \cup {AccessUnit(<<5, n>>, c) : n \in {0, 5}, c \in {Short, Padded}}

Block(ssrc, lsr, dlsr) == [ssrc |-> ssrc, lsr |-> lsr, dlsr |-> dlsr]
Report(blocks) == [kind |-> "report", blocks |-> blocks]
OurBlock == Block(1, 15, 1)
Other == Block(2, 4, 0)

Reports == {Report(b) : b \in {<<>>, <<OurBlock>>, <<Other>>, <<Other, OurBlock>>,
                               <<OurBlock, Other>>}}
Nacks == {[kind |-> "nack", fci |-> f] :
             f \in {<<[pid |-> 7, mask |-> {0, 2}]>>,
                    <<[pid |-> 3, mask |-> {}], [pid |-> 5, mask |-> {1}]>>}}
Others == {[kind |-> k] : k \in {"bye", "pli", "fir", "other", "bad"}}
Packets == Reports \cup Nacks \cup Others

MCArrivals ==
    {[compound |-> c, trip |-> 7] :
        c \in {<<p>> : p \in Packets}
               \cup (Packets \X ((Reports \ {Report(<<>>)}) \cup Nacks \cup {[kind |-> "bye"]}))}
      \cup {[compound |-> <<Report(<<Block(1, l, d)>>)>>, trip |-> t] :
               l \in {0, 1, 15}, d \in {0, 3}, t \in {-3, -1, 0, 1, 7}}
=============================================================================
