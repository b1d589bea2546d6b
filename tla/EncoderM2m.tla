------------------------------ MODULE EncoderM2m ------------------------------
(***************************************************************************)
(* The V4L2 memory-to-memory H.264 encoder (src/media/encoder_v4l2m2m.c):  *)
(* m2m_encode queues one raw picture and collects at most one access unit, *)
(* while the driver works on what it has been given.  A call is cut into   *)
(* steps at its ioctls and polls, so the driver may move in between.       *)
(*                                                                         *)
(* Pictures are abstracted to buffers in flight.  The driver returns them  *)
(* in order, each as one coded buffer ("pic", or "big" when it exceeds the *)
(* access unit buffer); ahead of a keyframe it may send a buffer with only *)
(* the parameter sets ("hdr").                                             *)
(***************************************************************************)
EXTENDS Naturals, Sequences, FiniteSets, SequencesExt

CONSTANTS Inputs,        \* the output-queue buffers, M2M_OUTPUT_BUFFERS
          Captures,      \* the number of capture buffers
          MaxErrors,     \* M2M_MAX_CONSECUTIVE_ERRORS
          HaveForceKey,  \* the driver has the FORCE_KEY_FRAME control
          MaxFaults,     \* bound: ioctls that fail
          MaxSlow        \* bound: times the driver takes longer than a frame

VARIABLES
    enc,     \* struct M2mBackend: out_free, pending_idr, errors
    call,    \* the call of m2m_encode in progress
    queued,  \* input buffers the driver has, oldest first
    done,    \* input buffers it has read, to be taken back
    ready,   \* coded buffers to be collected, oldest first
    drv,     \* free capture buffers; the key control; stuck
    spent,   \* faults and slow pictures so far
    wish     \* history: a keyframe is owed; setting the control failed

vars == <<enc, call, queued, done, ready, drv, spent, wish>>

Idle == [pc |-> "idle", force |-> FALSE, queued |-> FALSE, hand |-> {},
         out |-> <<>>, buffers |-> 0, last |-> "none"]

Init ==
    /\ enc = [free |-> Inputs, pending |-> FALSE, errors |-> 0]
    /\ call = Idle
    /\ queued = <<>> /\ done = {} /\ ready = <<>>
    /\ drv = [free |-> Captures, key |-> TRUE, header |-> FALSE, stuck |-> FALSE]
    /\ spent = [faults |-> 0, slow |-> 0]
    /\ wish = [owed |-> FALSE, refused |-> FALSE]

Fault == spent.faults < MaxFaults /\ spent' = [spent EXCEPT !.faults = @ + 1]

\* errors++; beyond the limit its value makes no difference.
Error(n) == IF n < MaxErrors THEN n + 1 ELSE n

-----------------------------------------------------------------------------
(* The driver *)

DriverHeader ==
    /\ ~drv.stuck /\ queued # <<>> /\ drv.free > 0
    /\ drv.key /\ ~drv.header
    /\ ready' = Append(ready, "hdr")
    /\ drv' = [drv EXCEPT !.free = @ - 1, !.header = TRUE]
    /\ UNCHANGED <<enc, call, queued, done, spent, wish>>

DriverEncode ==
    /\ ~drv.stuck /\ queued # <<>> /\ drv.free > 0
    /\ \E pic \in {"pic", "big"} : ready' = Append(ready, pic)
    /\ drv' = [drv EXCEPT !.free = @ - 1, !.key = FALSE, !.header = FALSE]
    /\ queued' = Tail(queued)
    /\ done' = done \cup {Head(queued)}
    /\ UNCHANGED <<enc, call, spent, wish>>

DriverSticks ==
    /\ ~drv.stuck
    /\ drv' = [drv EXCEPT !.stuck = TRUE]
    /\ UNCHANGED <<enc, call, queued, done, ready, spent, wish>>

\* A poll may time out: at once, on a driver with nothing to do, or when a
\* picture takes longer than a frame period.
Busy == ~drv.stuck /\ queued # <<>> /\ drv.free > 0
TimesOut ==
    \/ ~Busy /\ UNCHANGED spent
    \/ Busy /\ spent.slow < MaxSlow /\ spent' = [spent EXCEPT !.slow = @ + 1]

-----------------------------------------------------------------------------
(* m2m_encode *)

\* m2m_reclaim_inputs takes back what the driver has read, and stops at the first
\* error; what it took before that is taken.
Begin(force) ==
    /\ call.pc = "idle"
    /\ enc.errors < MaxErrors
    /\ \/ /\ enc' = [enc EXCEPT !.free = @ \cup done]
          /\ done' = {}
          /\ UNCHANGED spent
       \/ /\ Fault
          /\ done' \in SUBSET done
          /\ enc' = [enc EXCEPT !.free = @ \cup (done \ done'), !.errors = Error(@)]
    /\ call' = [Idle EXCEPT !.force = force,
                            !.pc = IF enc'.free = {} THEN "waitout" ELSE "submit"]
    /\ wish' = [wish EXCEPT !.owed = @ \/ force]
    /\ UNCHANGED <<queued, ready, drv>>

\* m2m_wait for POLLOUT, up to one frame period.  An error of the second
\* m2m_reclaim_inputs is not counted.
WaitOut ==
    /\ call.pc = "waitout"
    /\ call' = [call EXCEPT !.pc = "submit"]
    /\ \/ /\ done # {}
          /\ enc' = [enc EXCEPT !.free = @ \cup done]
          /\ done' = {}
          /\ UNCHANGED spent
       \/ /\ done # {} /\ Fault
          /\ done' \in SUBSET done
          /\ enc' = [enc EXCEPT !.free = @ \cup (done \ done')]
       \/ /\ done = {} /\ TimesOut
          /\ UNCHANGED <<enc, done>>
    /\ UNCHANGED <<queued, ready, drv, wish>>

\* Slip: the frame is dropped and with it the request for a keyframe.
MutPendingAfterDrop == enc.pending
PendingAfterDrop == enc.pending \/ call.force

ErrorsAfterDrop == Error(enc.errors)

\* The encoder holds every input buffer: drop this frame.
Drop ==
    /\ call.pc = "submit" /\ enc.free = {}
    /\ enc' = [enc EXCEPT !.pending = PendingAfterDrop, !.errors = ErrorsAfterDrop]
    /\ call' = [call EXCEPT !.pc = "collect"]
    /\ UNCHANGED <<queued, done, ready, drv, spent, wish>>

WantsKey == (call.force \/ enc.pending) /\ HaveForceKey

\* Take a buffer, fill it, and ask for a keyframe.
Fill ==
    /\ call.pc = "submit"
    /\ \E b \in enc.free :
        /\ \/ /\ WantsKey
              /\ enc' = [enc EXCEPT !.free = @ \ {b}, !.pending = FALSE]
              /\ drv' = [drv EXCEPT !.key = TRUE]
              /\ wish' = [owed |-> FALSE, refused |-> FALSE]
              /\ UNCHANGED spent
           \/ /\ WantsKey /\ Fault
              /\ enc' = [enc EXCEPT !.free = @ \ {b}]
              /\ wish' = [wish EXCEPT !.refused = TRUE]
              /\ UNCHANGED drv
           \/ /\ ~WantsKey
              /\ enc' = [enc EXCEPT !.free = @ \ {b}]
              /\ UNCHANGED <<drv, wish, spent>>
        /\ call' = [call EXCEPT !.pc = "queue", !.hand = {b}]
    /\ UNCHANGED <<queued, done, ready>>

FreeAfterRefusal == enc.free \cup call.hand

\* VIDIOC_QBUF on the output queue.
Queue ==
    /\ call.pc = "queue"
    /\ \/ /\ \E b \in call.hand : queued' = Append(queued, b)
          /\ call' = [call EXCEPT !.pc = "collect", !.queued = TRUE, !.hand = {}]
          /\ UNCHANGED <<enc, spent>>
       \/ /\ Fault
          /\ enc' = [enc EXCEPT !.free = FreeAfterRefusal, !.errors = Error(@)]
          /\ call' = [call EXCEPT !.pc = "collect", !.hand = {}]
          /\ UNCHANGED queued
    /\ UNCHANGED <<done, ready, drv, wish>>

\* Collecting stops after two buffers, after a picture, or with nothing to show.
More(out, n) == n < 2 /\ out # <<>> /\ "pic" \notin ToSet(out)

PendingAfterTake(item) == enc.pending \/ item = "big"

CapturesAfterTake == drv.free + 1

\* m2m_take_capture, when VIDIOC_DQBUF fails: the buffer stays where it is.
TakeFails ==
    /\ call.pc = "collect" /\ ready # <<>>
    /\ Fault
    /\ enc' = [enc EXCEPT !.errors = Error(@)]
    /\ call' = [call EXCEPT !.pc = "return"]
    /\ UNCHANGED <<queued, done, ready, drv, wish>>

\* m2m_take_capture, the buffer given back to the driver or not.
Take ==
    /\ call.pc = "collect" /\ ready # <<>>
    /\ LET item == Head(ready)
           out == IF item = "big" THEN <<>> ELSE Append(call.out, item)
           n == call.buffers + 1
       IN /\ ready' = Tail(ready)
          /\ wish' = [wish EXCEPT !.owed = @ \/ item = "big"]
          /\ \/ /\ drv' = [drv EXCEPT !.free = CapturesAfterTake]
                /\ enc' = [enc EXCEPT !.pending = PendingAfterTake(item)]
                /\ call' = [call EXCEPT !.out = out, !.buffers = n,
                                        !.pc = IF More(out, n) THEN "collect" ELSE "return"]
                /\ UNCHANGED spent
             \/ /\ Fault
                /\ enc' = [enc EXCEPT !.pending = PendingAfterTake(item),
                                      !.errors = Error(@)]
                /\ call' = [call EXCEPT !.out = out, !.pc = "return"]
                /\ UNCHANGED drv
    /\ UNCHANGED <<queued, done>>

\* m2m_wait for POLLIN times out; without a queued picture it does not wait.
NothingReady ==
    /\ call.pc = "collect" /\ ready = <<>>
    /\ IF call.queued THEN TimesOut ELSE UNCHANGED spent
    /\ call' = [call EXCEPT !.pc = "return"]
    /\ UNCHANGED <<enc, queued, done, ready, drv, wish>>

Return ==
    /\ call.pc = "return"
    /\ LET got == call.out # <<>> IN
       /\ enc' = [enc EXCEPT !.errors = IF got THEN 0 ELSE @]
       /\ call' = [Idle EXCEPT
                     !.last = IF "pic" \in ToSet(call.out) THEN "picture"
                              ELSE IF got THEN "header"
                              ELSE IF enc.errors >= MaxErrors THEN "failed"
                              ELSE "nothing"]
    /\ UNCHANGED <<queued, done, ready, drv, spent, wish>>

Encode == (\E force \in BOOLEAN : Begin(force)) \/ WaitOut \/ Drop \/ Fill \/ Queue
            \/ TakeFails \/ Take \/ NothingReady \/ Return
Driver == DriverHeader \/ DriverEncode

Next == Encode \/ Driver \/ DriverSticks

-----------------------------------------------------------------------------
\* The types of the encoder's bookkeeping (struct M2mBackend) and of the driver's
\* queues.
TypeOK ==
    /\ enc \in [free: SUBSET Inputs, pending: BOOLEAN, errors: 0..MaxErrors]
    /\ call.hand \subseteq Inputs /\ call.buffers \in 0..2
    /\ ToSet(queued) \subseteq Inputs /\ done \subseteq Inputs
    /\ drv.free \in 0..Captures
    /\ Len(ready) + drv.free <= Captures

\* Every input buffer is in exactly one place: free, being filled, with the
\* driver or read by it.  None is lost on an error path or queued twice.  The
\* types hold throughout.
InputsConserved ==
    /\ TypeOK
    /\ enc.free \cup call.hand \cup ToSet(queued) \cup done = Inputs
    /\ Cardinality(enc.free) + Cardinality(call.hand) + Len(queued) + Cardinality(done)
         = Cardinality(Inputs)

\* A keyframe that is owed has been asked of the driver, or is remembered.
Remembered ==
    call.pc = "idle" /\ wish.owed /\ HaveForceKey => enc.pending \/ wish.refused
=============================================================================
