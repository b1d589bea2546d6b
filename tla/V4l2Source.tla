------------------------------ MODULE V4l2Source ------------------------------
(***************************************************************************)
(* V4L2 mmap capture (src/media/v4l2_source.c) driven by the capture       *)
(* thread (src/media/source_worker.c): buffers go round between the driver *)
(* and the thread, which copies each frame into the hub and queues the     *)
(* buffer again.  The device may flag frames, refuse a VIDIOC_QBUF, fall   *)
(* silent or disappear.                                                    *)
(***************************************************************************)
EXTENDS Naturals, FiniteSets

CONSTANTS Buffers,      \* what VIDIOC_REQBUFS granted
          FatalErrors,  \* SOURCE_FATAL_ERRORS
          MaxRefused,   \* bound: times VIDIOC_QBUF fails
          MaxGlitches   \* bound: single failures of VIDIOC_DQBUF

VARIABLES where,   \* where[b]: driver, filled, held by the thread, or lost
          device,  \* "ok", "silent" (no more frames), "gone" (ENODEV)
          worker,  \* the thread: its step, consecutive_errors, failed
          spent    \* VIDIOC_QBUF refused, VIDIOC_DQBUF failed

vars == <<where, device, worker, spent>>

\* v4l2_start queues every buffer and turns the stream on.
Init ==
    /\ where = [b \in Buffers |-> "driver"]
    /\ device = "ok"
    /\ worker = [pc |-> "capture", errors |-> 0, failed |-> FALSE]
    /\ spent = [refused |-> 0, glitches |-> 0]

In(place) == {b \in Buffers : where[b] = place}

-----------------------------------------------------------------------------
(* The driver *)

Fills ==
    /\ device = "ok"
    /\ \E b \in In("driver") : where' = [where EXCEPT ![b] = "filled"]
    /\ UNCHANGED <<device, worker, spent>>

Breaks ==
    /\ device = "ok"
    /\ device' \in {"silent", "gone"}
    /\ UNCHANGED <<where, worker, spent>>

\* VIDIOC_QBUF: whether it fails is only logged.
Requeue(b) ==
    \/ /\ where' = [where EXCEPT ![b] = "driver"]
       /\ UNCHANGED spent
    \/ /\ spent.refused < MaxRefused
       /\ where' = [where EXCEPT ![b] = "lost"]
       /\ spent' = [spent EXCEPT !.refused = @ + 1]

-----------------------------------------------------------------------------
(* v4l2_capture and what source_worker_thread does with its result *)

\* -1: one more error; the worker gives up after SOURCE_FATAL_ERRORS in a row.
AfterError(w) ==
    LET n == w.errors + 1
    IN [w EXCEPT !.errors = n, !.failed = n >= FatalErrors,
                 !.pc = IF n >= FatalErrors THEN "exited" ELSE "capture"]

\* 0 or 1: not an error.
AfterNoError(w) == [w EXCEPT !.errors = 0]

\* poll times out after 200 ms: no frame this round.
PollTimeout ==
    /\ worker.pc = "capture"
    /\ device # "gone" /\ In("filled") = {}
    /\ worker' = AfterNoError(worker)
    /\ UNCHANGED <<where, device, spent>>

\* Slip: an error of VIDIOC_DQBUF is taken for "nothing yet".
MutAfterDqbufError(w) == AfterNoError(w)
AfterDqbufError(w) == AfterError(w)

\* The device is gone, or VIDIOC_DQBUF fails once.
CaptureError ==
    /\ worker.pc = "capture"
    /\ \/ device = "gone" /\ UNCHANGED spent
       \/ /\ device # "gone" /\ In("filled") # {}
          /\ spent.glitches < MaxGlitches
          /\ spent' = [spent EXCEPT !.glitches = @ + 1]
    /\ worker' = AfterDqbufError(worker)
    /\ UNCHANGED <<where, device>>

\* A frame with V4L2_BUF_FLAG_ERROR or a bad size goes straight back.
CaptureBad ==
    /\ worker.pc = "capture" /\ device # "gone"
    /\ \E b \in In("filled") : Requeue(b)
    /\ worker' = AfterNoError(worker)
    /\ UNCHANGED device

PlaceOfFrame == "held"

CaptureFrame ==
    /\ worker.pc = "capture" /\ device # "gone"
    /\ \E b \in In("filled") :
          /\ where' = [where EXCEPT ![b] = PlaceOfFrame]
          /\ worker' = [AfterNoError(worker) EXCEPT !.pc = "publish"]
    /\ UNCHANGED <<device, spent>>

\* frame_hub_publish copies the frame, then v4l2_release.
Release ==
    /\ worker.pc = "publish"
    /\ \E b \in In("held") : Requeue(b)
    /\ worker' = [worker EXCEPT !.pc = "capture"]
    /\ UNCHANGED device

Thread == PollTimeout \/ CaptureError \/ CaptureBad \/ CaptureFrame \/ Release

Next == Thread \/ Fills \/ Breaks

-----------------------------------------------------------------------------
\* Every buffer is in one place and the worker's error count stays below its
\* limit until it fails (source_thread).
TypeOK ==
    /\ where \in [Buffers -> {"driver", "filled", "held", "lost"}]
    /\ device \in {"ok", "silent", "gone"}
    /\ worker \in [pc: {"capture", "publish", "exited"}, errors: 0..FatalErrors,
                   failed: BOOLEAN]
=============================================================================
