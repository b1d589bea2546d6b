----------------------------- MODULE EncoderX264 -----------------------------
(***************************************************************************)
(* The libx264 backend (src/media/encoder_x264.c).  libx264 runs without   *)
(* lookahead; should it keep a picture back all the same, the keyframe     *)
(* asked for comes out with a later call.                                  *)
(***************************************************************************)
EXTENDS Naturals

CONSTANT Bitrates   \* kbit/s the configuration may ask for

VARIABLES x264,     \* struct X264Backend: handle, force_next_idr, params
          lib,      \* libx264: the rate it works at, a keyframe it still owes
          chain     \* history: "whole", or "broken" after a coded picture is lost

vars == <<x264, lib, chain>>

\* x264_apply_rate: ABR with a half-second VBV, which may not be empty.
x264_apply_rate(kbps) ==
    [bitrate |-> kbps, vbv |-> IF kbps \div 2 > 0 THEN kbps \div 2 ELSE 1]

NoParams == [bitrate |-> 0, vbv |-> 0]

Init ==
    /\ x264 = [handle |-> FALSE, force_next_idr |-> FALSE, params |-> NoParams]
    /\ lib = [rate |-> NoParams, owes |-> FALSE]
    /\ chain = "whole"

\* x264_open; the preset, the profile or the encoder itself may be refused.
Open(kbps) ==
    /\ ~x264.handle
    /\ \/ /\ x264' = [handle |-> TRUE, force_next_idr |-> FALSE,
                      params |-> x264_apply_rate(kbps)]
          /\ lib' = [rate |-> x264_apply_rate(kbps), owes |-> FALSE]
       \/ UNCHANGED <<x264, lib>>
    /\ chain' = "whole"

ForceAfter(result) == result = "oversize"

\* x264_encode.  "failed" is -1 and ends the pipeline; "nothing" and "oversize" are 0.
Encode(force_idr, result) ==
    /\ x264.handle
    /\ LET key == force_idr \/ x264.force_next_idr \/ lib.owes IN
       /\ x264' = [x264 EXCEPT !.force_next_idr = ForceAfter(result)]
       /\ lib' = [lib EXCEPT !.owes = key /\ result = "nothing"]
       /\ chain' = CASE result = "oversize" -> "broken"
                     [] result = "unit" /\ key -> "whole"
                     [] OTHER -> chain

\* x264_set_bitrate: the parameters change even if libx264 then refuses them.
SetBitrate(kbps) ==
    /\ x264.handle /\ kbps # 0
    /\ x264' = [x264 EXCEPT !.params = x264_apply_rate(kbps)]
    /\ \/ lib' = [lib EXCEPT !.rate = x264'.params]
       \/ UNCHANGED lib
    /\ UNCHANGED chain

Close ==
    /\ x264.handle
    /\ x264' = [x264 EXCEPT !.handle = FALSE]
    /\ UNCHANGED <<lib, chain>>

Next ==
    \/ \E kbps \in Bitrates : Open(kbps) \/ SetBitrate(kbps)
    \/ \E force_idr \in BOOLEAN, result \in {"unit", "nothing", "oversize"} :
          Encode(force_idr, result)
    \/ Close

-----------------------------------------------------------------------------
\* "drop this frame and restart the prediction chain with a keyframe": as long
\* as viewers miss a picture that later ones refer to, the next to come out is a
\* keyframe, whatever the caller asks for, and a rate libx264 works at
\* leaves its buffer room for half a second.
ChainRestarts ==
    /\ x264.handle /\ chain = "broken" => x264.force_next_idr \/ lib.owes
    /\ x264.handle => lib.rate.vbv >= 1 /\ lib.rate.vbv <= lib.rate.bitrate
=============================================================================
