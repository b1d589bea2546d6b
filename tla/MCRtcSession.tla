---------------------------- MODULE MCRtcSession ----------------------------
(* RtcSession with two source ports and its timers scaled down in their order:  *)
(* keyframe interval, report interval, idle timeout, watchdog.  The offers are   *)
(* all short texts, and all texts that continue a video section with up to four   *)
(* lines about two formats: more sections and formats than the bounds allow        *)
(* included.                                                                *)
EXTENDS RtcSession

M(kind) == [tag |-> "m", value |-> kind]
Attr(tag, v) == [tag |-> tag, value |-> v]
Rtpmap(pt) == [tag |-> "rtpmap", pt |-> pt]
Fmtp(pt, mode, idc, iop) == [tag |-> "fmtp", pt |-> pt, mode |-> mode, idc |-> idc, iop |-> iop]
Long == [tag |-> "long"]

Transport == <<Attr("ufrag", "u"), Attr("pwd", "p"), Attr("fingerprint", "fpA")>>

FormatLines == {Rtpmap(96), Rtpmap(97), Rtpmap(0), Fmtp(96, 1, 66, 224), Fmtp(96, 0, -1, -1),
                Fmtp(97, 1, 66, 0), Fmtp(97, 1, 66, 64), Fmtp(97, -1, 77, 128), M("audio"), Long}

AnyLines == {M("video"), M("audio"), Attr("mid", "0"), Attr("setup", "passive"),
             Attr("setup", "actpass"), Attr("fingerprint", "fpB"), Attr("fingerprint", ""), Long,
             Rtpmap(96), Fmtp(96, 1, -1, -1), Fmtp(96, 1, 100, 0)}

AtMost(n, set) == UNION {[1..k -> set] : k \in 0..n}

MCOffers ==
  {SelectSeq(Transport, LAMBDA l : l.tag \notin missing) \o <<M("video"), Rtpmap(96), Fmtp(96, 1, 66, 224)>> :
     missing \in SUBSET {"ufrag", "pwd", "fingerprint"}}
  \cup {Transport \o body : body \in AtMost(3, AnyLines)}
  \cup {Transport \o <<M("video"), Rtpmap(96), Fmtp(96, 1, 66, 224)>> \o body : body \in AtMost(2, AnyLines)}
  \cup {Transport \o <<M("video")>> \o body : body \in AtMost(4, FormatLines)}

\* Private and public addresses, one of them twice, on up to three interfaces.
Interface == [ip : {<<10, 0, 0, 1>>, <<172, 17, 0, 1>>, <<8, 8, 8, 8>>, Loopback}, up : BOOLEAN]
MCAddresses == AtMost(4, Interface)
MCHosts == {<<10, 0, 0, 1>>, <<8, 8, 8, 8>>, <<9, 9, 9, 9>>}
=============================================================================
