------------------------------ MODULE DeviceOpen ------------------------------
(***************************************************************************)
(* Opening and closing a V4L2 device: the camera of src/media/v4l2_source.c *)
(* (one queue, opened by the source and started by its worker) and the      *)
(* encoder of src/media/encoder_v4l2m2m.c (two queues, opened in one call). *)
(* Every ioctl, open and mmap may fail, and what was taken so far has to be *)
(* given back.  "dev" is what the kernel holds for the process, "mine" what *)
(* the process noted in its struct.                                         *)
(***************************************************************************)
EXTENDS Naturals, FiniteSets

CONSTANTS DeviceBuffers,     \* V4L2_BUFFER_COUNT, M2M_OUTPUT_BUFFERS
          StreamonAttempts   \* M2M_STREAMON_ATTEMPTS

VARIABLES kind,   \* "camera" or "encoder"
          pc,     \* the step of the call in progress
          dev,    \* descriptor, buffers granted per queue, mapped, streaming queues
          mine    \* format, start pointers that are set, streaming, attempt

vars == <<kind, pc, dev, mine>>

Queues == IF kind = "camera" THEN {"capture"} ELSE {"output", "capture"}
None == [q \in {"output", "capture"} |-> 0]

Init ==
    /\ kind \in {"camera", "encoder"}
    /\ pc = "open"
    /\ dev = [fd |-> FALSE, granted |-> None, mapped |-> {}, on |-> {}]
    /\ mine = [format |-> "none", starts |-> {}, streaming |-> FALSE, attempt |-> 1]

\* Where a failure goes: v4l2_source_create closes the descriptor and frees,
\* m2m_open closes the whole device.
CameraFails == pc' = "shut"
EncoderFails == pc' = "streamoff"

Open ==
    /\ pc = "open"
    /\ \/ dev' = [dev EXCEPT !.fd = TRUE] /\ pc' = "configure"
       \/ pc' = "closed" /\ UNCHANGED dev
    /\ UNCHANGED <<kind, mine>>

\* Capabilities, then the first of YUYV and YU12 the driver takes as it is, then
\* the frame interval, which may be refused.
ConfigureCamera ==
    /\ pc = "configure" /\ kind = "camera"
    /\ \E capture, yuyv, yu12 \in BOOLEAN :
         IF capture /\ (yuyv \/ yu12)
         THEN pc' = "map" /\ mine' = [mine EXCEPT !.format = IF yuyv THEN "YUYV" ELSE "YU12"]
         ELSE CameraFails /\ UNCHANGED mine
    /\ UNCHANGED <<kind, dev>>

\* Controls, none of which has to work, then YU12 or NV12 with a usable layout
\* on the raw side and H.264 on the other.
ConfigureEncoder ==
    /\ pc = "configure" /\ kind = "encoder"
    /\ \E yu12, nv12, h264 \in BOOLEAN :
         IF h264 /\ (yu12 \/ nv12)
         THEN pc' = "map" /\ mine' = [mine EXCEPT !.format = IF yu12 THEN "YU12" ELSE "NV12"]
         ELSE EncoderFails /\ UNCHANGED mine
    /\ UNCHANGED <<kind, dev>>

Unmapped == {q \in Queues : dev.granted[q] = 0}

\* The first "good" of n buffers of a queue get mapped.
MapSome(q, n, good) ==
    LET maps == {<<q, i>> : i \in 1..good}
    IN /\ dev' = [dev EXCEPT !.granted[q] = n, !.mapped = @ \cup maps]
       /\ mine' = [mine EXCEPT !.starts = @ \cup maps]

\* VIDIOC_REQBUFS for at least two buffers, then VIDIOC_QUERYBUF and mmap for
\* each until one fails.
MapCamera ==
    /\ pc = "map" /\ kind = "camera" /\ Unmapped # {}
    /\ \/ CameraFails /\ UNCHANGED <<dev, mine>>
       \/ \E n \in 1..DeviceBuffers, good \in 0..DeviceBuffers :
            /\ good <= IF n < 2 THEN 0 ELSE n
            /\ MapSome("capture", n, good)
            /\ IF good < n THEN CameraFails ELSE pc' = "map"
    /\ UNCHANGED kind

\* m2m_map_buffers, the raw side first; one buffer is enough.
MapEncoder ==
    /\ pc = "map" /\ kind = "encoder" /\ Unmapped # {}
    /\ \/ EncoderFails /\ UNCHANGED <<dev, mine>>
       \/ \E n \in 1..DeviceBuffers, good \in 0..DeviceBuffers :
            /\ good <= n
            /\ MapSome(IF "output" \in Unmapped THEN "output" ELSE "capture", n, good)
            /\ IF good < n THEN EncoderFails ELSE pc' = "map"
    /\ UNCHANGED kind

\* A camera is created; the worker starts it later, or the pipeline goes first.
\* An encoder goes on, unless an input buffer is too small.
Mapped ==
    /\ pc = "map" /\ Unmapped = {}
    /\ pc' \in {"queue", "streamoff"}
    /\ UNCHANGED <<kind, dev, mine>>

\* Slip: "streaming" is noted only after both queues have been turned on.
MutNoted == FALSE
Noted == kind = "encoder"

\* VIDIOC_QBUF for the buffers of the capture queue.
QueueBuffers ==
    /\ pc = "queue"
    /\ \/ pc' = "streamoff" /\ UNCHANGED mine
       \/ /\ pc' = "streamon"
          /\ mine' = [mine EXCEPT !.streaming = Noted]
    /\ UNCHANGED <<kind, dev>>

\* VIDIOC_STREAMON, output before capture.  The encoder's may be tried again.
StreamOn ==
    /\ pc = "streamon"
    /\ LET q == IF "output" \in Queues \ dev.on THEN "output" ELSE "capture"
           on == dev.on \cup {q}
       IN \/ /\ dev' = [dev EXCEPT !.on = on]
             /\ mine' = [mine EXCEPT !.streaming = IF on = Queues THEN TRUE ELSE @,
                                     !.attempt = 1]
             /\ pc' = IF on = Queues THEN "running" ELSE "streamon"
          \/ /\ kind = "encoder" /\ mine.attempt < StreamonAttempts
             /\ mine' = [mine EXCEPT !.attempt = @ + 1]
             /\ UNCHANGED <<dev, pc>>
          \/ pc' = "streamoff" /\ UNCHANGED <<dev, mine>>
    /\ UNCHANGED kind

\* The pipeline is torn down: h264_encoder_close, source->close.
Close ==
    /\ pc = "running"
    /\ pc' = "streamoff"
    /\ UNCHANGED <<kind, dev, mine>>

StreamOff ==
    /\ pc = "streamoff"
    /\ dev' = [dev EXCEPT !.on = IF mine.streaming THEN {} ELSE @]
    /\ pc' = "unmap"
    /\ UNCHANGED <<kind, mine>>

\* v4l2_close unmaps the first buffer_count entries, m2m_close all that are set.
Unmap ==
    /\ pc = "unmap"
    /\ dev' = [dev EXCEPT !.mapped = @ \ mine.starts]
    /\ pc' = IF kind = "camera" THEN "shut" ELSE "release"
    /\ UNCHANGED <<kind, mine>>

\* VIDIOC_REQBUFS with 0: the driver refuses while a queue is on or mapped.
Release ==
    /\ pc = "release"
    /\ dev' = [dev EXCEPT !.granted = [q \in DOMAIN @ |->
                 IF q \in dev.on \/ \E m \in dev.mapped : m[1] = q THEN @[q] ELSE 0]]
    /\ pc' = "shut"
    /\ UNCHANGED <<kind, mine>>

\* close: the kernel keeps the file, its buffers and streams while a mapping lives.
Shut ==
    /\ pc = "shut"
    /\ dev' = [dev EXCEPT !.fd = FALSE,
                          !.granted = IF dev.mapped = {} THEN None ELSE @,
                          !.on = IF dev.mapped = {} THEN {} ELSE @]
    /\ pc' = "closed"
    /\ UNCHANGED <<kind, mine>>

Next == Open \/ ConfigureCamera \/ ConfigureEncoder \/ MapCamera \/ MapEncoder \/ Mapped
          \/ QueueBuffers \/ StreamOn
          \/ Close \/ StreamOff \/ Unmap \/ Release \/ Shut

-----------------------------------------------------------------------------
\* Whatever step of opening failed, when the device is closed the kernel holds
\* nothing of it any more, so that the supervisor's next attempt finds it free.
\* An encoder's buffers are back with the driver before the descriptor goes
\* ("Release the buffers explicitly, then the firmware component").  The one
\* exception is a camera whose buffers could be mapped only in part: the
\* failure path of v4l2_source_create closes the descriptor and leaves the
\* mappings made so far.
ClosesCleanly ==
    /\ pc = "shut" /\ kind = "encoder" => dev.granted = None /\ dev.on = {}
    /\ pc = "closed" =>
         \/ dev = [fd |-> FALSE, granted |-> None, mapped |-> {}, on |-> {}]
         \/ /\ kind = "camera"
            /\ 0 < Cardinality(mine.starts)
            /\ Cardinality(mine.starts) < dev.granted["capture"]
    /\ pc = "running" => dev.on = Queues /\ mine.format # "none"
=============================================================================
