--------------------------------- MODULE Sdp ---------------------------------
(***************************************************************************)
(* Reading an offer and writing the answer, src/webrtc/sdp.c, with the addresses *)
(* src/app/app_server.c puts into it.  An offer is the sequence of its lines, a   *)
(* line the record of its tag and of the fields the parser takes from it:        *)
(*   [tag |-> "m", value]              m=<kind> ...                          *)
(*   [tag |-> "ufrag" | "pwd" | "fingerprint" | "setup" | "mid", value]       *)
(*   [tag |-> "rtpmap", pt]            a=rtpmap:<pt> H264/90000               *)
(*   [tag |-> "fmtp", pt, mode, idc, iop]   -1 where the parameter is missing   *)
(*   [tag |-> "long"]                  any line of SDP_LINE_MAX octets or more  *)
(* idc and iop are the first two octets of profile-level-id.                   *)
(***************************************************************************)
EXTENDS Integers, Sequences, FiniteSetsExt, Folds, Functions

\* What visiting the elements of seq from first to last makes of base.
ForEach(visit(_, _), base, seq) ==
  MapThenFoldSet(LAMBDA e, acc : visit(acc, e), base, LAMBDA i : seq[i], Max, DOMAIN seq)

CONSTANTS SdpMaxMlines,      \* SDP_MAX_MLINES
          SdpMaxH264,        \* SDP_MAX_H264
          SdpMaxCandidates,  \* SDP_MAX_CANDIDATES
          MaxInterfaces      \* MAX_INTERFACES

-----------------------------------------------------------------------------
(* sdp_parse_offer *)

\* The context before the first line.  media counts the m= lines seen.
StartOfOffer ==
  [media |-> 0, mlines |-> <<>>, video |-> 0, tooMany |-> FALSE, h264 |-> <<>>,
   have |-> {}, ufrag |-> "", pwd |-> "", fingerprint |-> "", setup |-> ""]

h264_format(c, pt) == {i \in DOMAIN c.h264 : c.h264[i].pt = pt}

VisitMline(c, kind) ==
  LET n == c.media + 1
  IN  IF n > SdpMaxMlines THEN [c EXCEPT !.media = n, !.tooMany = TRUE]
      ELSE [c EXCEPT !.media = n, !.mlines = Append(@, [kind |-> kind, mid |-> ""]),
                     !.video = IF @ = 0 /\ kind = "video" THEN n ELSE @]

VisitRtpmap(c, pt) ==
  IF pt \in 1..127 /\ Len(c.h264) < SdpMaxH264 /\ h264_format(c, pt) = {}
  THEN [c EXCEPT !.h264 = Append(@, [pt |-> pt, mode |-> 0, idc |-> -1, iop |-> -1])]
  ELSE c

\* parse_h264_fmtp: a parameter that is not there leaves the field as it is.
parse_h264_fmtp(f, l) ==
  [f EXCEPT !.mode = IF l.mode = -1 THEN @ ELSE l.mode,
            !.idc = IF l.idc = -1 THEN @ ELSE l.idc,
            !.iop = IF l.idc = -1 THEN @ ELSE l.iop]

VisitFmtp(c, l) ==
  [c EXCEPT !.h264 = [i \in DOMAIN @ |->
     IF i \in h264_format(c, l.pt) THEN parse_h264_fmtp(@[i], l) ELSE @[i]]]

parse_visit(c, l) ==
  LET inVideo == c.media = c.video /\ c.media # 0
  IN  CASE l.tag = "m"                                   -> VisitMline(c, l.value)
        [] l.tag \in {"ufrag", "pwd", "fingerprint", "setup"} ->
             [c EXCEPT ![l.tag] = l.value, !.have = @ \cup {l.tag}]
        [] l.tag = "mid" /\ c.media \in 1..SdpMaxMlines  ->
             [c EXCEPT !.mlines[c.media].mid = l.value]
        [] l.tag = "rtpmap" /\ inVideo                   -> VisitRtpmap(c, l.pt)
        [] l.tag = "fmtp" /\ inVideo                     -> VisitFmtp(c, l)
        [] OTHER                                         -> c

\* sdp_for_each_line: an overlong line is passed over before it is looked at.
sdp_for_each_line(text) ==
  ForEach(parse_visit, StartOfOffer, SelectSeq(text, LAMBDA l : l.tag # "long"))

Bit(n, b) == (n \div b) % 2 = 1

h264_rank(f) ==
  CASE f.mode # 1                                                -> 0
    [] f.mode = 1 /\ f.idc = -1                                  -> 1
    [] f.mode = 1 /\ (f.idc = 66 \/ (f.idc = 77 /\ Bit(f.iop, 128))) ->
         IF Bit(f.iop, 64) THEN 3 ELSE 2
    [] OTHER                                                     -> 0

\* Slip: the last of the equally good formats is taken.
MutBetter(best, f) ==
  IF h264_rank(f) > 0 /\ h264_rank(f) >= h264_rank(best) THEN f ELSE best

Better(best, f) == IF h264_rank(f) > h264_rank(best) THEN f ELSE best

\* choose_h264: the first of the formats with the best rank.
choose_h264(formats) ==
  ForEach(Better, [pt |-> -1, mode |-> 0, idc |-> -1, iop |-> -1], formats)

\* sdp_parse_offer: the reason an offer is refused, "" for one that is taken.
sdp_parse_offer(text) ==
  LET c == sdp_for_each_line(text)
      chosen == choose_h264(c.h264)
      reason == IF c.tooMany THEN "too many media sections"
                ELSE IF ~({"ufrag", "pwd"} \subseteq c.have) THEN "no ICE credentials"
                ELSE IF "fingerprint" \notin c.have THEN "no DTLS fingerprint"
                ELSE IF c.video = 0 THEN "no video"
                ELSE IF chosen.pt = -1 THEN "no usable H264"
                ELSE IF c.setup = "passive" THEN "setup:passive"
                ELSE ""
  IN  [reason |-> reason, fingerprint |-> c.fingerprint, mlines |-> c.mlines,
       video |-> c.video, chosen |-> chosen]

-----------------------------------------------------------------------------
(* The addresses of the answer.  An address is the sequence of its octets. *)

Loopback == <<127, 0, 0, 1>>

is_private_ipv4(ip) ==
  \/ ip[1] = 10
  \/ ip[1] = 172 /\ ip[2] \in 16..31
  \/ SubSeq(ip, 1, 2) \in {<<192, 168>>, <<169, 254>>}

\* s with ip appended, unless it is there or s is full.
Add(s, ip, max) == IF ip \in Range(s) \/ Len(s) >= max THEN s ELSE Append(s, ip)

\* collect_interfaces: addrs is the kernel's list of [ip, up].
collect_interfaces(addrs) ==
  ForEach(LAMBDA out, a : IF a.up /\ a.ip[1] # 127 THEN Add(out, a.ip, MaxInterfaces)
                          ELSE out,
          <<>>, addrs)

\* choose_advertise_ip: host is the address in the Host header.
choose_advertise_ip(host, ips) ==
  LET private == SelectSeq(ips, is_private_ipv4)
  IN  CASE host \in Range(ips)                        -> host
        [] host \notin Range(ips) /\ private # <<>>   -> private[1]
        [] host \notin Range(ips) /\ private = <<>>   -> IF ips = <<>> THEN Loopback ELSE ips[1]

\* The candidates of handle_offer.
HostCandidates(host, ips) ==
  ForEach(LAMBDA out, ip : Add(out, ip, SdpMaxCandidates),
          <<choose_advertise_ip(host, ips)>>, ips)

-----------------------------------------------------------------------------
(* sdp_build_answer *)

VideoMid(offer) ==
  LET mid == offer.mlines[offer.video].mid IN IF mid = "" THEN "video" ELSE mid

\* The candidate lines: priority 2130706431 - 10 i, written as its distance.
CandidateLines(ips) ==
  SelectSeq([i \in DOMAIN ips |-> [below |-> 10 * (i - 1), ip |-> ips[i]]],
            LAMBDA c : c.below = 0 \/ c.ip # ips[1])

AnswerSection(offer, m, ips) ==
  IF m # offer.video
  THEN [kind |-> offer.mlines[m].kind, port |-> 0, mid |-> offer.mlines[m].mid,
        pt |-> -1, candidates |-> <<>>]
  ELSE [kind |-> "video", port |-> 9, mid |-> VideoMid(offer),
        pt |-> offer.chosen.pt, candidates |-> CandidateLines(ips)]

sdp_build_answer(offer, ips) ==
  [bundle |-> VideoMid(offer),
   sections |-> [m \in DOMAIN offer.mlines |-> AnswerSection(offer, m, ips)]]
=============================================================================
