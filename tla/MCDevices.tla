------------------------------ MODULE MCDevices ------------------------------
(* Devices.  CSI: frames of two chunks and a pipe that holds one frame and a *)
(* half, with the timeouts scaled down in their order.  V4L2: three buffers,  *)
(* of which some are lost but not all, and an error limit that single         *)
(* failures alone reach as well.  M2M: two input and three capture buffers,   *)
(* fewer than the four of the code, and an error limit that a few faults can  *)
(* reach.  Parameter sets of one and two bytes of payload, the longer just    *)
(* fitting the cache, alone, together, with a keyframe, in part and renewed.  *)
(* Test pictures of ordinary shapes and the narrowest allowed, with words of   *)
(* 16 bits.                                                                   *)
EXTENDS Devices, Sequences

Sps == {<<103, 66>>, <<103, 66, 31>>}
Pps == <<104, 206>>
Idr == <<101, 0, 9>>
Delta == <<65, 154>>
Sei == <<6, 5>>

MCBuffers264 ==
    {<<Idr>>, <<Delta>>, <<Sei, Idr>>, <<Pps>>, <<Pps, Idr>>, <<Idr, Idr>>}
      \cup {<<s>> : s \in Sps} \cup {<<s, Pps>> : s \in Sps}
      \cup {<<s, Idr>> : s \in Sps} \cup {<<s, Pps, Sei, Idr>> : s \in Sps}
      \cup {<<s, Pps, Idr, Idr>> : s \in Sps}

MCFrames ==
    [width : {64, 66, 640}, height : {48, 480, 782, 4096}, fps : {1, 2, 30},
     sequence : {0, 1, 17, 29, 59}, digits : {1, 2, 7}]
=============================================================================
