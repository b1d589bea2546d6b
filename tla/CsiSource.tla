------------------------------ MODULE CsiSource ------------------------------
(***************************************************************************)
(* The CSI camera source (src/media/csi_source.c): rpicam-vid runs as a    *)
(* child and writes raw frames into a pipe, the capture thread reads them, *)
(* and the main thread stops the thread, closes the source and gets rid of *)
(* the child.  The child may write, hang, die or ignore SIGTERM.           *)
(*                                                                         *)
(* Time is counted in the reader's poll slices (POLL_SLICE_MS) and the     *)
(* closer's 20 ms waits; a frame is FrameSize chunks.                      *)
(***************************************************************************)
EXTENDS Naturals

CONSTANTS FrameSize,          \* chunks of one frame
          PipeSize,           \* chunks the pipe holds
          FirstTimeout,       \* FIRST_FRAME_TIMEOUT_MS in slices
          FrameTimeout,       \* FRAME_TIMEOUT_MS in slices
          TermTries,          \* TERMINATE_WAIT_MS in waits
          ReapTries           \* waits for a dying child after EOF

VARIABLES child,   \* the process: its state and the signal it was sent
          pipe,    \* chunks in the pipe
          src,     \* struct CsiSource and VideoSource.ended
          worker,  \* the capture thread
          main     \* the main thread: its step and its wait counter

vars == <<child, pipe, src, worker, main>>

Init ==
    /\ child = [state |-> "none", signal |-> "none"]
    /\ pipe = 0
    /\ src = [fd |-> FALSE, pid |-> FALSE, running |-> FALSE, ended |-> FALSE,
              have_frame |-> FALSE]
    /\ worker = [pc |-> "none", running |-> TRUE, bytes |-> 0, quiet |-> 0]
    /\ main = [pc |-> "start", waited |-> 0]

-----------------------------------------------------------------------------
(* rpicam-vid and the kernel *)

Writes ==
    /\ child.state = "alive" /\ src.fd
    /\ pipe < PipeSize
    /\ pipe' = pipe + 1
    /\ UNCHANGED <<child, src, worker, main>>

\* It exits by itself, on EPIPE or on a signal: first its descriptors close.
Dies ==
    /\ child.state = "alive"
    /\ child' = [child EXCEPT !.state = "dying"]
    /\ UNCHANGED <<pipe, src, worker, main>>

Exits ==
    /\ child.state = "dying"
    /\ child' = [child EXCEPT !.state = "zombie"]
    /\ UNCHANGED <<pipe, src, worker, main>>

\* waitpid with WNOHANG would return it.
Reapable == src.pid /\ child.state = "zombie"

\* Slip: reap_child leaves child_pid as it is.
MutPidAfterReap == TRUE
PidAfterReap == FALSE

Reap ==
    /\ child' = [child EXCEPT !.state = "reaped"]
    /\ src' = [src EXCEPT !.pid = PidAfterReap]

-----------------------------------------------------------------------------
(* csi_start in source_worker_start *)

Start ==
    /\ main.pc = "start"
    /\ \E spawned, thread \in BOOLEAN :
        /\ thread => spawned
        /\ child' = IF spawned THEN [child EXCEPT !.state = "alive"] ELSE child
        /\ src' = [src EXCEPT !.fd = spawned, !.pid = spawned, !.running = spawned]
        /\ worker' = [worker EXCEPT !.pc = IF thread THEN "loop" ELSE "none"]
        /\ main' = [main EXCEPT !.pc = IF thread THEN "run" ELSE "close"]
    /\ UNCHANGED pipe

-----------------------------------------------------------------------------
(* The capture thread: source_worker_thread, csi_capture, read_full_frame *)

\* The head of source_worker_thread's loop.
Capture ==
    /\ worker.pc = "loop"
    /\ worker' = IF worker.running
                 THEN [worker EXCEPT !.pc = "read", !.bytes = 0, !.quiet = 0]
                 ELSE [worker EXCEPT !.pc = "exited"]
    /\ UNCHANGED <<child, pipe, src, main>>

Wanted == FrameSize - worker.bytes

\* poll says readable and read returns what is there.
Read ==
    /\ worker.pc = "read" /\ pipe > 0
    /\ LET n == IF pipe < Wanted THEN pipe ELSE Wanted
           all == worker.bytes + n
       IN /\ pipe' = pipe - n
          /\ worker' = [worker EXCEPT !.bytes = all, !.quiet = 0,
                                      !.pc = IF all >= FrameSize THEN "publish" ELSE @]
          /\ src' = [src EXCEPT !.have_frame = @ \/ all >= FrameSize]
    /\ UNCHANGED <<child, main>>

Publish ==
    /\ worker.pc = "publish"
    /\ worker' = [worker EXCEPT !.pc = "loop"]
    /\ UNCHANGED <<child, pipe, src, main>>

\* read returns 0: the write end is closed.
EndOfFile ==
    /\ worker.pc = "read" /\ pipe = 0
    /\ child.state \in {"dying", "zombie", "reaped"}
    /\ worker' = [worker EXCEPT !.pc = "reap", !.quiet = 0]
    /\ UNCHANGED <<child, pipe, src, main>>

\* The source is finished and the worker gives up.
Ended(s) == [s EXCEPT !.running = FALSE, !.ended = TRUE]
GiveUp == worker' = [worker EXCEPT !.pc = "exited"]

\* "Give a dying child a moment so its exit status is logged."
ReapAfterEof ==
    /\ worker.pc = "reap"
    /\ \/ /\ Reapable
          /\ child' = [child EXCEPT !.state = "reaped"]
          /\ src' = [Ended(src) EXCEPT !.pid = PidAfterReap]
          /\ GiveUp
       \/ /\ src.pid /\ ~Reapable /\ worker.quiet < ReapTries
          /\ worker' = [worker EXCEPT !.quiet = @ + 1]
          /\ UNCHANGED <<child, src>>
       \/ /\ ~Reapable /\ (worker.quiet = ReapTries \/ ~src.pid)
          /\ src' = Ended(src)
          /\ GiveUp
          /\ UNCHANGED child
    /\ UNCHANGED <<pipe, main>>

\* poll times out after a slice without data.
PollTimeout ==
    /\ worker.pc = "read" /\ pipe = 0 /\ child.state = "alive"
    /\ worker' = [worker EXCEPT !.pc = "slept"]
    /\ UNCHANGED <<child, pipe, src, main>>

\* Slip: only the wait for the first frame is limited.
MutTimeout == IF src.have_frame THEN FirstTimeout + 2 ELSE FirstTimeout
Timeout == IF src.have_frame THEN FrameTimeout ELSE FirstTimeout

\* After the slice: reap a child that has died since, or a stall, or go on.
AfterSlice ==
    /\ worker.pc = "slept"
    /\ \/ /\ Reapable
          /\ child' = [child EXCEPT !.state = "reaped"]
          /\ src' = [Ended(src) EXCEPT !.pid = PidAfterReap]
          /\ GiveUp
       \/ /\ ~Reapable
          /\ LET stalled == worker.quiet + 1 >= Timeout
             IN /\ src' = IF stalled THEN Ended(src) ELSE src
                /\ worker' = [worker EXCEPT
                                !.pc = IF stalled THEN "exited" ELSE "read",
                                !.quiet = IF @ < FirstTimeout THEN @ + 1 ELSE @]
          /\ UNCHANGED child
    /\ UNCHANGED <<pipe, main>>

-----------------------------------------------------------------------------
(* The main thread: media_pipeline_stop, csi_close *)

Stop ==
    /\ main.pc = "run"
    /\ worker' = [worker EXCEPT !.running = FALSE]
    /\ main' = [main EXCEPT !.pc = "join"]
    /\ UNCHANGED <<child, pipe, src>>

Join ==
    /\ main.pc = "join" /\ worker.pc = "exited"
    /\ main' = [main EXCEPT !.pc = "close"]
    /\ UNCHANGED <<child, pipe, src, worker>>

\* running and our end of the pipe go first, then the child is asked to stop.
Close ==
    /\ main.pc = "close"
    /\ \/ /\ Reapable
          /\ child' = [child EXCEPT !.state = "reaped"]
          /\ src' = [src EXCEPT !.running = FALSE, !.fd = FALSE, !.pid = PidAfterReap]
          /\ main' = [main EXCEPT !.pc = "closed"]
       \/ /\ ~Reapable
          /\ src' = [src EXCEPT !.running = FALSE, !.fd = FALSE]
          /\ child' = IF src.pid THEN [child EXCEPT !.signal = "TERM"] ELSE child
          /\ main' = [main EXCEPT !.pc = IF src.pid THEN "term" ELSE "closed"]
    /\ pipe' = 0
    /\ UNCHANGED worker

AfterTries == "kill"

WaitForTerm ==
    /\ main.pc = "term"
    /\ \/ /\ main.waited < TermTries /\ Reapable
          /\ Reap
          /\ main' = [main EXCEPT !.pc = "closed"]
       \/ /\ main.waited < TermTries /\ ~Reapable
          /\ main' = [main EXCEPT !.waited = @ + 1]
          /\ UNCHANGED <<child, src>>
       \/ /\ main.waited = TermTries
          /\ main' = [main EXCEPT !.pc = AfterTries]
          /\ UNCHANGED <<child, src>>
    /\ UNCHANGED <<pipe, worker>>

\* SIGKILL and a blocking waitpid.
Kill ==
    /\ main.pc = "kill"
    /\ child' = [child EXCEPT !.signal = "KILL"]
    /\ main' = [main EXCEPT !.pc = "wait"]
    /\ UNCHANGED <<pipe, src, worker>>

Wait ==
    /\ main.pc = "wait" /\ Reapable
    /\ Reap
    /\ main' = [main EXCEPT !.pc = "closed"]
    /\ UNCHANGED <<pipe, worker>>

Thread == Capture \/ Read \/ Publish \/ EndOfFile \/ ReapAfterEof \/ PollTimeout \/ AfterSlice
Main == Start \/ Join \/ Close \/ WaitForTerm \/ Kill \/ Wait
Child == Writes \/ Dies \/ Exits

Next == Thread \/ Main \/ Stop \/ Child

-----------------------------------------------------------------------------
\* A read never runs past the frame buffer.
TypeOK ==
    /\ child \in [state: {"none", "alive", "dying", "zombie", "reaped"},
                  signal: {"none", "TERM", "KILL"}]
    /\ pipe \in 0..PipeSize
    /\ src \in [fd: BOOLEAN, pid: BOOLEAN, running: BOOLEAN, ended: BOOLEAN,
                have_frame: BOOLEAN]
    /\ worker \in [pc: {"none", "loop", "read", "slept", "reap", "publish", "exited"},
                   running: BOOLEAN, bytes: 0..FrameSize, quiet: 0..FirstTimeout]
    /\ main \in [pc: {"start", "run", "join", "close", "term", "kill", "wait", "closed"},
                 waited: 0..TermTries]
=============================================================================
