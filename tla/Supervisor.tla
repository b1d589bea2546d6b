------------------------------ MODULE Supervisor ------------------------------
(***************************************************************************)
(* The life of the media pipeline as the main thread drives it             *)
(* (src/app/app_server.c): media_pipeline_start builds six objects in      *)
(* order and unwinds what it built when one of them fails;                 *)
(* media_pipeline_stop tears them down; media_supervise notices a thread   *)
(* that failed, tears down, and rebuilds when the retry timer is due; POST *)
(* /api/camera/restart does both at once.  The libpeer server              *)
(* (src/lpstream/lp_server.c) has its own copies of these functions, with  *)
(* one more thread and a fixed delay between attempts, and no restart; the *)
(* variable "server" says which program runs.                              *)
(*                                                                         *)
(* The capture and the encode thread run beside the main thread and may    *)
(* fail between any two of its steps, so building and tearing down are one *)
(* step per object.  Time is counted in units of PIPELINE_RETRY_MS /       *)
(* RetryDelay; a start or a stop takes less than a unit.                   *)
(***************************************************************************)
EXTENDS Naturals, Sequences, FiniteSetsExt

CONSTANTS Preference,   \* config.encoder: "auto", "hw" or "sw"
          HaveX264,     \* whether libx264 is compiled in
          RetryDelay,   \* PIPELINE_RETRY_MS
          RetryMax,     \* PIPELINE_RETRY_MAX_MS
          FailCap       \* pipeline_failures is counted up to here

\* The delay after n doublings.
Doubled[n \in Nat] == IF n = 0 THEN RetryDelay ELSE 2 * Doubled[n - 1]

ASSUME SupervisorConstants ==
    /\ Preference \in {"auto", "hw", "sw"}
    /\ HaveX264 \in BOOLEAN
    /\ RetryDelay \in Nat \ {0} /\ RetryMax \in Nat /\ RetryDelay <= RetryMax
    /\ FailCap \in Nat \ {0}
    /\ Doubled[FailCap - 1] >= RetryMax   \* the cap hides no delay

VARIABLES
    server,      \* "camstream" or "libpeer"
    built,       \* the members of Server that are not NULL
    threads,     \* the threads that are running
    failed,      \* the threads whose worker's "failed" flag is set
    hardware,    \* h264_encoder_kind(server->encoder) == H264_ENCODER_HW
    override,    \* encoder_override is "sw"
    running,     \* pipeline_running
    retry,       \* pipeline_retry_ms - now, NoRetry for 0
    failures,    \* pipeline_failures
    pc,          \* where the main thread is
    job,         \* on whose behalf it starts or stops the pipeline
    healthy,     \* camera, encoders and memory work
    misses,      \* history: failures in a row since the pipeline last ran
    wait         \* history: time since the last of them

vars == <<server, built, threads, failed, hardware, override, running, retry,
          failures, pc, job, healthy, misses, wait>>
pipe == <<server, built, threads, failed, hardware>>
plan == <<override, running, retry, failures, misses, wait>>

Libpeer == server = "libpeer"

\* pipeline_start starts the fan-out thread between the two workers' threads.
LpBuildOrder == <<"source", "hub", "ring", "encoder",
                  "encoder_worker", "media_thread", "source_worker">>
LpStopOrder == <<"media_thread", "source_worker", "encoder_worker", "encoder",
                 "ring", "hub", "source">>

BuildOrder ==
    IF Libpeer THEN LpBuildOrder
    ELSE <<"source", "hub", "ring", "encoder", "encoder_worker", "source_worker">>
StopOrder ==
    IF Libpeer THEN LpStopOrder
    ELSE <<"source_worker", "encoder_worker", "encoder", "ring", "hub", "source">>
Objects == {BuildOrder[i] : i \in DOMAIN BuildOrder}

ThreadOf == [encoder_worker |-> "encode", source_worker |-> "capture",
             media_thread |-> "fanout"]
IsWorker(o) == o \in DOMAIN ThreadOf

\* The first object of the order that is in the set.
First(order, S) == order[Min({i \in DOMAIN order : order[i] \in S})]

NoRetry == RetryMax + 1

Init ==
    /\ server \in {"camstream", "libpeer"}
    /\ built = {} /\ threads = {} /\ failed = {}
    /\ hardware = FALSE /\ override = FALSE
    /\ running = FALSE
    /\ retry = NoRetry
    /\ failures = 0
    /\ pc = "start" /\ job = "boot"
    /\ healthy \in BOOLEAN
    /\ misses = 0 /\ wait = 0

-----------------------------------------------------------------------------
(* media_pipeline_start *)

\* What h264_encoder_open_flags may return: TRUE is a hardware encoder.
Kinds ==
    LET preference == IF override THEN "sw" ELSE Preference
    IN (IF preference \in {"auto", "hw"} THEN {TRUE} ELSE {})
         \cup (IF preference \in {"auto", "sw"} /\ HaveX264 THEN {FALSE} ELSE {})

NextToBuild == First(BuildOrder, Objects \ built)

Build ==
    /\ pc = "start"
    /\ built # Objects
    /\ LET o == NextToBuild
       IN /\ built' = built \cup {o}
          /\ IF o = "encoder" THEN hardware' \in Kinds ELSE UNCHANGED hardware
          /\ IF IsWorker(o)
             THEN /\ threads' = threads \cup {ThreadOf[o]}
                  /\ failed' = failed \ {ThreadOf[o]}
             ELSE UNCHANGED <<threads, failed>>
    /\ UNCHANGED <<server, plan, pc, job, healthy>>

\* Objects that exist although their thread did not start.
Startable == {"encoder_worker", "source_worker"}

\* A member cannot be made, or a worker is made but its thread not started.
BuildFails ==
    /\ pc = "start"
    /\ built # Objects
    /\ ~healthy \/ (NextToBuild = "encoder" /\ Kinds = {})
    /\ built' \in {built} \cup
                  {built \cup {o} : o \in {NextToBuild} \cap Startable}
    /\ pc' = "unwind"
    /\ UNCHANGED <<server, threads, failed, hardware, plan, job, healthy>>

\* The caller's part of a start that went well: app_server_run does nothing,
\* media_supervise and handle_camera_restart forget the failures; the libpeer
\* server leaves its timer, which has run out.
StartDone ==
    /\ pc = "start"
    /\ built = Objects
    /\ running' = TRUE
    /\ retry' = IF Libpeer THEN 0 ELSE NoRetry
    /\ failures' = 0
    /\ misses' = 0 /\ wait' = 0
    /\ pc' = "loop" /\ job' = "none"
    /\ UNCHANGED <<pipe, override, healthy>>

-----------------------------------------------------------------------------
(* media_pipeline_stop *)

\* Slip: the encoder is closed before its thread is joined.
MutTeardownOrder == <<"media_thread", "source_worker", "encoder", "encoder_worker",
                      "ring", "hub", "source">>
TeardownOrder == StopOrder

\* Destroying a worker joins its thread first.
TearDown ==
    /\ pc \in {"unwind", "stop"}
    /\ built # {}
    /\ LET o == First(TeardownOrder, built)
       IN /\ built' = built \ {o}
          /\ IF IsWorker(o)
             THEN /\ threads' = threads \ {ThreadOf[o]}
                  /\ failed' = failed \ {ThreadOf[o]}
             ELSE UNCHANGED <<threads, failed>>
    /\ UNCHANGED <<server, hardware, plan, pc, job, healthy>>

-----------------------------------------------------------------------------
(* pipeline_schedule_retry, and what the callers do after a failure *)

Capped(n) == IF n > FailCap THEN FailCap ELSE n

MutDelay(n) == RetryDelay
Delay(n) == Min({RetryMax, Doubled[IF n = 0 THEN 0 ELSE n - 1]})

\* Boot and restart begin a new row of failures, the supervisor extends it.
FailuresAfterStart == IF job = "retry" THEN Capped(failures + 1) ELSE 1

\* pipeline_supervise and lp_server_run: the same delay after every failure.
LpRetryAfterStart == RetryDelay

RetryAfterStart == IF Libpeer THEN LpRetryAfterStart ELSE Delay(FailuresAfterStart)

StartFailed ==
    /\ pc = "unwind"
    /\ built = {}
    /\ failures' = IF Libpeer THEN 0 ELSE FailuresAfterStart
    /\ retry' = RetryAfterStart
    /\ running' = FALSE
    /\ misses' = IF job = "retry" THEN Capped(misses + 1) ELSE 1
    /\ wait' = 0
    /\ pc' = "loop" /\ job' = "none"
    /\ UNCHANGED <<pipe, override, healthy>>

-----------------------------------------------------------------------------
(* media_supervise *)

\* The condition for the switch from the hardware encoder to libx264.
Switch == "encode" \in failed /\ hardware /\ Preference = "auto"

\* A thread failed: note it, switch to libx264 when a hardware encoder died
\* under "auto", and tear the pipeline down.  The next attempt is at once when
\* the encoder failed; in the libpeer server only when it was switched.
SuperviseFailure ==
    /\ pc = "loop"
    /\ running
    /\ failed # {}
    /\ job' = IF "encode" \in failed /\ (Libpeer => Switch) THEN "encode" ELSE "capture"
    /\ override' = (override \/ Switch)
    /\ pc' = "stop"
    /\ UNCHANGED <<pipe, running, retry, failures, misses, wait, healthy>>

\* Slip: the time of the next attempt is not set after a teardown.
MutRetryAfterStop == IF job = "encode" THEN 0 ELSE retry
RetryAfterStop == IF job = "encode" THEN 0 ELSE RetryDelay

SuperviseStopped ==
    /\ pc = "stop"
    /\ job \in {"encode", "capture"}
    /\ built = {}
    /\ running' = FALSE
    /\ failures' = IF job = "encode" \/ Libpeer THEN 0 ELSE 1
    /\ retry' = RetryAfterStop
    /\ misses' = IF job = "encode" THEN 0 ELSE 1
    /\ wait' = 0
    /\ pc' = "loop" /\ job' = "none"
    /\ UNCHANGED <<pipe, override, healthy>>

Due == retry = 0

SuperviseRetry ==
    /\ pc = "loop"
    /\ ~running
    /\ Due
    /\ pc' = "start" /\ job' = "retry"
    /\ UNCHANGED <<pipe, plan, healthy>>

-----------------------------------------------------------------------------
(* handle_camera_restart, and the end of app_server_run *)

CameraRestart ==
    /\ pc = "loop" /\ ~Libpeer
    /\ pc' = "stop" /\ job' = "restart"
    /\ UNCHANGED <<pipe, plan, healthy>>

RestartStopped ==
    /\ pc = "stop" /\ job = "restart"
    /\ built = {}
    /\ override' = FALSE
    /\ running' = FALSE
    /\ pc' = "start"
    /\ UNCHANGED <<pipe, retry, failures, misses, wait, job, healthy>>

Quit ==
    /\ pc = "loop"
    /\ pc' = "stop" /\ job' = "quit"
    /\ UNCHANGED <<pipe, plan, healthy>>

QuitStopped ==
    /\ pc = "stop" /\ job = "quit"
    /\ built = {}
    /\ running' = FALSE
    /\ pc' = "end"
    /\ UNCHANGED <<pipe, override, retry, failures, misses, wait, job, healthy>>

-----------------------------------------------------------------------------
(* The threads, the devices and the clock *)

\* source_worker_thread and encoder_worker_thread set "failed" and return.
ThreadFails(t) ==
    /\ t \in threads
    /\ ~healthy
    /\ threads' = threads \ {t}
    /\ failed' = failed \cup {t}
    /\ UNCHANGED <<server, built, hardware, plan, pc, job, healthy>>

\* media_thread returns without its buffer, or on an error of poll; nobody is told.
FanoutReturns ==
    /\ "fanout" \in threads
    /\ ~healthy
    /\ threads' = threads \ {"fanout"}
    /\ UNCHANGED <<server, built, failed, hardware, plan, pc, job, healthy>>

HealthChanges ==
    /\ healthy' = ~healthy
    /\ UNCHANGED <<pipe, plan, pc, job>>

Tick ==
    /\ pc = "loop"
    /\ retry \notin {0, NoRetry}
    /\ retry' = retry - 1
    /\ wait' = IF wait < RetryMax THEN wait + 1 ELSE wait
    /\ UNCHANGED <<pipe, override, running, failures, misses, pc, job, healthy>>

Main ==
    \/ Build \/ BuildFails \/ StartDone \/ StartFailed
    \/ TearDown
    \/ SuperviseFailure \/ SuperviseStopped \/ SuperviseRetry
    \/ RestartStopped \/ QuitStopped

Done == pc = "end" /\ UNCHANGED vars

Next ==
    \/ Main
    \/ CameraRestart
    \/ Quit
    \/ \E t \in {"encode", "capture"} : ThreadFails(t)
    \/ FanoutReturns
    \/ HealthChanges
    \/ Tick
    \/ Done

Spec == Init /\ [][Next]_vars

\* The main loop wakes at least every IDLE_WAKE_MS and the clock advances.
FairSpec == Spec /\ WF_vars(Main) /\ WF_vars(Tick)

-----------------------------------------------------------------------------
\* The types of the main thread's record of the pipeline (struct Server)
\* and of the retry timer.
TypeOK ==
    /\ server \in {"camstream", "libpeer"}
    /\ built \subseteq Objects
    /\ threads \subseteq {"encode", "capture", "fanout"}
    /\ failed \subseteq {"encode", "capture"}
    /\ hardware \in BOOLEAN /\ override \in BOOLEAN /\ running \in BOOLEAN
    /\ healthy \in BOOLEAN
    /\ retry \in 0..NoRetry
    /\ failures \in 0..FailCap /\ misses \in 0..FailCap
    /\ wait \in 0..RetryMax
    /\ pc \in {"start", "unwind", "stop", "loop", "end"}
    /\ job \in {"boot", "retry", "restart", "encode", "capture", "quit", "none"}

\* A running thread never sees a member it uses go away: the capture thread
\* uses the source and the hub, the encode thread the hub, the encoder and the
\* ring, the fan-out thread the ring, whatever was built, failed or torn down around them
\* (media_pipeline_stop, "stop the threads first").
ThreadsHaveTheirObjects ==
    /\ "capture" \in threads => {"source", "hub", "source_worker"} \subseteq built
    /\ "encode" \in threads => {"hub", "ring", "encoder", "encoder_worker"} \subseteq built
    /\ "fanout" \in threads => {"ring", "media_thread"} \subseteq built

\* Whenever the main loop runs, the pipeline is whole and no retry is pending,
\* or nothing of it is left and a retry is scheduled: no sequence of failures,
\* retries and restarts leaves a half-built pipeline or one nobody will rebuild.
\* Throughout, no thread runs on an object that is gone, and the types hold.
WholeOrRetrying ==
    /\ TypeOK
    /\ ThreadsHaveTheirObjects
    /\ pc = "loop" => \/ running /\ built = Objects /\ (~Libpeer => retry = NoRetry)
                      \/ ~running /\ built = {} /\ retry # NoRetry

\* The supervisor's attempts back off: after n failures in a row the next
\* attempt of media_supervise comes no sooner than 5 s doubled n - 1 times,
\* capped at a minute (pipeline_schedule_retry), and one of pipeline_supervise
\* no sooner than 5 s.
BackoffHonoured ==
    [][SuperviseRetry /\ misses > 0
         => wait >= IF Libpeer THEN RetryDelay
                    ELSE Min({RetryMax, Doubled[misses - 1]})]_vars

\* Once the devices work again the pipeline comes back without anybody's help
\* ("now it is torn down and rebuilt").
Recovers == <>[]healthy => []<>(running \/ pc = "end")
=============================================================================
