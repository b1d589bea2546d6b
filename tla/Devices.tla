------------------------------- MODULE Devices -------------------------------
(***************************************************************************)
(* What sits behind the two device interfaces of the media path: the       *)
(* cameras of video_source.h (rpicam-vid as a child process, CsiSource; a   *)
(* V4L2 device, V4l2Source; TestSource) and the encoders of h264_encoder.h (the V4L2    *)
(* M2M encoder, EncoderM2m; libx264, EncoderX264), with opening and closing *)
(* either kind of V4L2 device (DeviceOpen) and what the encode worker does  *)
(* to the output of any encoder (H264Bitstream).  The parts share no state  *)
(* and no step: a pipeline gets one camera and one encoder, and each is     *)
(* driven by a thread of its own.  So a behaviour is one of one part.       *)
(***************************************************************************)
EXTENDS Naturals, FiniteSets

CONSTANTS FrameSize, PipeSize, FirstTimeout, FrameTimeout, TermTries, ReapTries,
          Buffers, FatalErrors, MaxRefused, MaxGlitches,
          Inputs, Captures, MaxErrors, HaveForceKey, MaxFaults, MaxSlow,
          DeviceBuffers, StreamonAttempts, Bitrates, Buffers264, ParamMax,
          Period, MaxLate, Word, Frames

VARIABLES part,                                \* the part that runs
          child, pipe, src, reader, main,      \* CsiSource
          where, device, worker, refusals,     \* V4l2Source
          enc, call, queued, done, ready, drv, spent, wish,   \* EncoderM2m
          x264, lib, chain,                    \* EncoderX264
          kind, pc, dev, mine,                 \* DeviceOpen
          params, sent, latest,                \* H264Bitstream
          test                                 \* TestSource

csi == <<child, pipe, src, reader, main>>
v4l2 == <<where, device, worker, refusals>>
m2m == <<enc, call, queued, done, ready, drv, spent, wish>>
soft == <<x264, lib, chain>>
open == <<kind, pc, dev, mine>>
stream == <<params, sent, latest>>
vars == <<part, csi, v4l2, m2m, soft, open, stream, test>>

Csi == INSTANCE CsiSource WITH worker <- reader
V4l2 == INSTANCE V4l2Source WITH spent <- refusals
M2m == INSTANCE EncoderM2m
X264 == INSTANCE EncoderX264
Dev == INSTANCE DeviceOpen
H264 == INSTANCE H264Bitstream
Test == INSTANCE TestSource

Init ==
    /\ part \in {"csi", "v4l2", "m2m", "x264", "open", "h264", "test"}
    /\ Csi!Init /\ V4l2!Init /\ M2m!Init /\ X264!Init /\ Dev!Init /\ H264!Init
    /\ Test!Init
    /\ part # "open" => kind = "camera"    \* a stand-in, not used then

IsCsi == part = "csi" /\ UNCHANGED <<part, v4l2, m2m, soft, open, stream, test>>
IsV4l2 == part = "v4l2" /\ UNCHANGED <<part, csi, m2m, soft, open, stream, test>>
IsM2m == part = "m2m" /\ UNCHANGED <<part, csi, v4l2, soft, open, stream, test>>
IsX264 == part = "x264" /\ UNCHANGED <<part, csi, v4l2, m2m, open, stream, test>>
IsOpen == part = "open" /\ UNCHANGED <<part, csi, v4l2, m2m, soft, stream, test>>
IsH264 == part = "h264" /\ UNCHANGED <<part, csi, v4l2, m2m, soft, open, test>>
IsTest == part = "test" /\ UNCHANGED <<part, csi, v4l2, m2m, soft, open, stream>>

Next ==
    \/ IsCsi /\ Csi!Next
    \/ IsV4l2 /\ V4l2!Next
    \/ IsM2m /\ M2m!Next
    \/ IsX264 /\ X264!Next
    \/ IsOpen /\ Dev!Next
    \/ IsH264 /\ H264!Next
    \/ IsTest /\ Test!Next

Spec == Init /\ [][Next]_vars

\* The threads of the program run on, a process whose descriptors closed exits,
\* no process survives SIGKILL, a working V4L2 camera fills the buffers it has
\* and an encoder that is not stuck works on.  rpicam-vid need not write, stop
\* or die otherwise; the encode thread calls again for every camera frame.
FairSpec ==
    /\ Spec
    /\ WF_vars(IsCsi /\ Csi!Thread) /\ WF_vars(IsCsi /\ Csi!Main)
    /\ WF_vars(IsCsi /\ Csi!Exits)
    /\ WF_vars(IsCsi /\ child.signal = "KILL" /\ Csi!Dies)
    /\ WF_vars(IsV4l2 /\ V4l2!Thread) /\ WF_vars(IsV4l2 /\ V4l2!Fills)
    /\ WF_vars(IsM2m /\ M2m!Encode) /\ WF_vars(IsM2m /\ M2m!Driver)

-----------------------------------------------------------------------------
\* The types of every part; in particular no read runs past the frame buffer
\* (read_full_frame) and the error counts stop at their limits.
TypeOK == Csi!TypeOK /\ V4l2!TypeOK /\ M2m!TypeOK

\* "the child is reaped exactly once": whichever of the four places that reap
\* gets there first, on either thread, child_pid names the child exactly as
\* long as the kernel does, so no later kill or waitpid hits a recycled pid.  And
\* a closed source leaves no process behind, not even as a zombie, also when
\* the thread could not be created or the child ignores SIGTERM.  For the V4L2
\* source, "the pointer stays valid until the next capture() call or until
\* release()": while a frame is copied the driver does not own its buffer, and
\* between two captures the thread owns none.  Every input buffer of the M2M
\* encoder is free, being filled, with the driver or read by it, exactly one of
\* these on every error path of m2m_encode.
HandlesAreExact ==
    /\ TypeOK
    /\ src.pid <=> child.state \in {"alive", "dying", "zombie"}
    /\ main.pc = "closed" => child.state \in {"none", "reaped"} /\ ~src.fd
    /\ Cardinality(V4l2!In("held")) = (IF worker.pc = "publish" THEN 1 ELSE 0)
    /\ M2m!InputsConserved

\* Whatever step of opening either V4L2 device fails, closing it gives everything
\* back (m2m_open, v4l2_source_create, v4l2_start); see DeviceOpen for the one
\* exception.
ClosesCleanly == Dev!ClosesCleanly

\* A keyframe that was asked for, or that a dropped picture made necessary, is
\* asked of the encoder or still remembered between two calls, unless the
\* hardware refused the control (pending_idr, force_next_idr).
KeyframeRemembered == M2m!Remembered /\ X264!ChainRestarts

\* "every keyframe a viewer can start from is self-contained": see H264Bitstream
\* (finish_access_unit).
IdrIsSelfContained == H264!SelfContained

\* The test camera never bursts after a delay and never draws outside its frame
\* (test_capture, render_frame).
PatternIsSteady ==
    /\ Test!NoBurst
    /\ part = "test" /\ Test!Init => Test!Inside

\* However the child behaves, a stop gets through: the hung reader times out,
\* the thread is joined and the child is gone in the end.
StopGetsThrough == main.pc = "join" ~> main.pc = "closed"

\* "A camera that disappears keeps returning errors; after SOURCE_FATAL_ERRORS
\* in a row the worker stops trying and marks itself failed".  Either capture
\* thread leaves its loop on its own only with the source marked as ended or
\* itself as failed, which media_supervise needs to see.  An encoder whose
\* driver stops working is reported as failed as well.
GoneIsNoticed ==
    /\ part = "v4l2" /\ device = "gone" ~> worker.failed
    /\ [](reader.pc = "exited" /\ reader.running => src.ended /\ ~src.running)
    /\ [](worker.pc = "exited" <=> worker.failed)
    /\ part = "m2m" /\ []<>(drv.stuck) => <>(call.last = "failed")
=============================================================================
