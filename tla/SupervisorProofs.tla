--------------------------- MODULE SupervisorProofs ---------------------------
(***************************************************************************)
(* The pipeline is never left half built and the attempts to rebuild it    *)
(* back off, for every preference of encoder and all delays, in both       *)
(* programs (src/app/app_server.c, src/lpstream/lp_server.c); and the      *)
(* encoder keeps to the configured bitrate across reloads.                 *)
(***************************************************************************)
EXTENDS Runtime, WellFoundedInduction, TLAPS

-----------------------------------------------------------------------------
(* The configuration *)

\* The encoder is opened by media_pipeline_start only.
LEMMA OpensOnStart ==
  ASSUME Next, "encoder" \in built', "encoder" \notin built
  PROVE  pc = "start"
BY Zenon DEF Next, Main, Build, BuildFails, StartDone, StartFailed, TearDown,
       SuperviseFailure, SuperviseStopped, SuperviseRetry, RestartStopped, QuitStopped,
       CameraRestart, Quit, ThreadFails, FanoutReturns, HealthChanges, Tick, Done, pipe, vars

\* An open encoder works at the configured bitrate, across rebuilds and
\* reloads, accepted or refused, with and without a worker to tell
\* (media_pipeline_start, apply_runtime_config).
THEOREM EncoderAtRate == RuntimeSpec => []EncoderKeepsRate
<1>1. RuntimeInit => EncoderKeepsRate
  BY DEF RuntimeInit, Init, EncoderKeepsRate
<1>2. EncoderKeepsRate /\ [RuntimeNext]_all => EncoderKeepsRate'
  <2> SUFFICES ASSUME EncoderKeepsRate, [RuntimeNext]_all, "encoder" \in built'
               PROVE  rate' = config'.bitrate_kbps
    BY DEF EncoderKeepsRate
  <2>1. CASE Pipeline(Next)
    BY <2>1, OpensOnStart DEF Pipeline, RateOfEncoder, settings, EncoderKeepsRate
  <2>2. CASE ConfigReload
    <3>1. built' = built /\ rate = config.bitrate_kbps
      BY <2>2 DEF ConfigReload, vars, EncoderKeepsRate
    <3>2. "bitrate_kbps" \in Keys
      BY DEF Keys, app_config_defaults
    <3>3. config' = [k \in Keys |-> IF k \in ReloadReply(HaveWorker).applied
                                    THEN Candidate.cfg[k] ELSE config[k]]
      BY <2>2 DEF ConfigReload, Reload
    <3> QED BY <2>2, <3>1, <3>2, <3>3 DEF ConfigReload
  <2>3. CASE Edit
    BY <2>3 DEF Edit, EditFile, vars, EncoderKeepsRate
  <2>4. CASE UNCHANGED all
    BY <2>4 DEF all, settings, vars, EncoderKeepsRate
  <2> QED BY <2>1, <2>2, <2>3, <2>4 DEF RuntimeNext
<1> QED BY <1>1, <1>2, PTL DEF RuntimeSpec

\* The answer to a reload is exact: the running configuration differs from what
\* was read exactly in the keys listed as needing a restart, and from what it was
\* exactly in the keys listed as applied (handle_config_reload,
\* apply_runtime_config).
THEOREM ReplyIsExact ==
  RuntimeSpec =>
    [][ConfigReload /\ ReloadReply(HaveWorker).status = 200
         => /\ {k \in Keys : config'[k] # Candidate.cfg[k]}
                 = ReloadReply(HaveWorker).restart_required
            /\ {k \in Keys : config'[k] # config[k]}
                 = ReloadReply(HaveWorker).applied]_all
<1> DEFINE cand == Candidate.cfg
           applied == Applied(cand, HaveWorker)
           Exact == /\ {k \in Keys : config'[k] # cand[k]}
                         = ReloadReply(HaveWorker).restart_required
                    /\ {k \in Keys : config'[k] # config[k]}
                         = ReloadReply(HaveWorker).applied
<1>1. ASSUME ConfigReload, ReloadReply(HaveWorker).status = 200
      PROVE  Exact
  <2>1. /\ ReloadReply(HaveWorker).applied = applied
        /\ ReloadReply(HaveWorker).restart_required = RestartRequired(cand, HaveWorker)
    BY <1>1 DEF ReloadReply
  <2>2. config' = [k \in Keys |-> IF k \in applied THEN cand[k] ELSE config[k]]
    BY <1>1, <2>1 DEF ConfigReload, Reload
  <2>3. \A k \in applied : k \in Keys /\ cand[k] # config[k]
    BY DEF Applied, Keys, app_config_defaults
  <2> HIDE DEF cand, applied
  <2>4. {k \in Keys : config'[k] # cand[k]} = {k \in Keys : cand[k] # config[k]} \ applied
    BY <2>2
  <2>5. {k \in Keys : config'[k] # config[k]} = applied
    BY <2>2, <2>3
  <2> QED BY <2>1, <2>4, <2>5 DEF RestartRequired, applied
<1> HIDE DEF Exact
<1>2. [RuntimeNext]_all
        => [ConfigReload /\ ReloadReply(HaveWorker).status = 200 => Exact]_all
  BY <1>1
<1> QED BY <1>2, PTL DEF RuntimeSpec, Exact

-----------------------------------------------------------------------------
(* Least elements *)

\* A nonempty set of naturals has a least element: the induction the proofs
\* below use, for a set instead of a predicate.
LEMMA LeastNumber ==
  ASSUME NEW T, T \subseteq Nat, T # {}
  PROVE  \E x \in T : \A y \in T : x <= y
<1>1. PICK x \in T : \A y \in T : ~(<<y, x>> \in OpToRel(<, Nat))
  BY WFMin, NatLessThanWellFounded, Zenon
<1>2. ASSUME NEW y \in T PROVE x <= y
  <2>1. x \in Nat /\ y \in Nat
    OBVIOUS
  <2>2. ~(y < x)
    BY <1>1, <2>1, Zenon DEF OpToRel
  <2> QED BY <2>1, <2>2
<1> QED BY <1>2

\* Min is that element.
LEMMA MinIsLeast ==
  ASSUME NEW T, T \subseteq Nat, T # {}
  PROVE  Min(T) \in T /\ \A y \in T : Min(T) <= y
BY LeastNumber, Zenon DEF Min

\* First finds the first object of an order that is in the set: the walk of
\* media_pipeline_start and media_pipeline_stop through the members of Server.
LEMMA FirstIsFirst ==
  ASSUME NEW n \in Nat, NEW order, DOMAIN order = 1..n,
         NEW S, NEW k \in 1..n, order[k] \in S
  PROVE  \E i \in 1..n : /\ First(order, S) = order[i]
                         /\ order[i] \in S
                         /\ \A j \in 1..n : j < i => order[j] \notin S
<1> DEFINE T == {i \in DOMAIN order : order[i] \in S}
<1>1. T \subseteq Nat /\ k \in T
  OBVIOUS
<1>2. Min(T) \in T /\ \A y \in T : Min(T) <= y
  BY <1>1, MinIsLeast
<1>3. First(order, S) = order[Min(T)]
  BY DEF First
<1> HIDE DEF T
<1>4. Min(T) \in 1..n
  BY <1>1, <1>2 DEF T
<1>5. ASSUME NEW j \in 1..n, j < Min(T), order[j] \in S PROVE FALSE
  <2>1. j \in T
    BY <1>5 DEF T
  <2> QED BY <1>4, <1>5, <2>1, <1>2
<1>6. order[Min(T)] \in S
  BY <1>2 DEF T
<1> QED BY <1>3, <1>4, <1>5, <1>6

-----------------------------------------------------------------------------
(* The delays *)

\* The sequences of delays that begin at RetryDelay and double n times.
Doublings(n) ==
    {f \in [0..n -> Nat] : f[0] = RetryDelay /\ \A i \in 1..n : f[i] = 2 * f[i - 1]}

\* There is one of every length: extend the one before it.
LEMMA DoublingsExist == \A n \in Nat : Doublings(n) # {}
<1> DEFINE T == {n \in Nat : Doublings(n) = {}}
<1>1. SUFFICES ASSUME T # {} PROVE FALSE
  OBVIOUS
<1>2. PICK n \in T : \A y \in T : n <= y
  BY <1>1, LeastNumber, Zenon
<1>3. CASE n = 0
  <2>1. [i \in 0..0 |-> RetryDelay] \in Doublings(0)
    BY SupervisorConstants DEF Doublings
  <2> QED BY <1>2, <1>3, <2>1
<1>4. CASE n # 0
  <2>1. n \in Nat /\ n - 1 \in Nat /\ n - 1 \notin T
    BY <1>2, <1>4
  <2>2. PICK f : f \in Doublings(n - 1)
    BY <2>1
  <2> DEFINE g == [i \in 0..n |-> IF i = n THEN 2 * f[n - 1] ELSE f[i]]
  <2>3. f \in [0..(n - 1) -> Nat] /\ f[0] = RetryDelay
        /\ \A i \in 1..(n - 1) : f[i] = 2 * f[i - 1]
    BY <2>2 DEF Doublings
  <2>4. g \in [0..n -> Nat]
    BY <2>1, <2>3
  <2>5. g[0] = RetryDelay /\ \A i \in 1..n : g[i] = 2 * g[i - 1]
    BY <2>1, <2>3, <1>4
  <2>6. g \in Doublings(n)
    BY <2>4, <2>5, Zenon DEF Doublings
  <2> QED BY <1>2, <2>6
<1> QED BY <1>3, <1>4

\* Two of them agree where both are defined.
LEMMA DoublingsAgree ==
  ASSUME NEW n \in Nat, NEW f \in Doublings(n), NEW g \in Doublings(n + 1)
  PROVE  \A i \in 0..n : f[i] = g[i]
<1> DEFINE T == {i \in 0..n : f[i] # g[i]}
<1>1. SUFFICES ASSUME T # {} PROVE FALSE
  OBVIOUS
<1> T \subseteq Nat
  OBVIOUS
<1>2. PICK i \in T : \A y \in T : i <= y
  BY <1>1, LeastNumber, Zenon
<1>3. i # 0
  BY <1>2 DEF Doublings
<1>4. i - 1 \in 0..n /\ i - 1 \notin T
  BY <1>2, <1>3
<1>5. i \in 1..n /\ i \in 1..(n + 1)
  BY <1>2, <1>3
<1>6. f[i - 1] = g[i - 1]
  BY <1>4
<1>7. f[i] = 2 * f[i - 1] /\ g[i] = 2 * g[i - 1]
  BY <1>5 DEF Doublings
<1> QED BY <1>2, <1>7, <1>6

\* So the recursion of Doubled defines a function, and it doubles from
\* RetryDelay on (the loop of pipeline_schedule_retry).
LEMMA DoubledIsDoubling ==
  /\ Doubled[0] = RetryDelay
  /\ \A n \in Nat : Doubled[n] \in Nat /\ Doubled[n + 1] = 2 * Doubled[n]
<1> DEFINE D(n) == CHOOSE f : f \in Doublings(n)
           F == [n \in Nat |-> D(n)[n]]
<1>1. \A n \in Nat : D(n) \in Doublings(n)
  BY DoublingsExist
<1> HIDE DEF D
<1>2. F[0] = RetryDelay
  BY <1>1 DEF Doublings
<1>3. ASSUME NEW n \in Nat
      PROVE  F[n] \in Nat /\ F[n + 1] = 2 * F[n]
  <2>1. D(n) \in Doublings(n) /\ D(n + 1) \in Doublings(n + 1)
    BY <1>1
  <2>2. D(n)[n] = D(n + 1)[n]
    BY <2>1, DoublingsAgree
  <2>3. D(n + 1)[n + 1] = 2 * D(n + 1)[n]
    BY <2>1 DEF Doublings
  <2>4. D(n)[n] \in Nat
    BY <2>1 DEF Doublings
  <2> QED BY <2>2, <2>3, <2>4
<1>4. F = [n \in Nat |-> IF n = 0 THEN RetryDelay ELSE 2 * F[n - 1]]
  <2>1. ASSUME NEW n \in Nat
        PROVE  F[n] = IF n = 0 THEN RetryDelay ELSE 2 * F[n - 1]
    <3>1. CASE n = 0
      BY <3>1, <1>2
    <3>2. CASE n # 0
      <4>1. n - 1 \in Nat /\ (n - 1) + 1 = n
        BY <3>2
      <4> HIDE DEF F
      <4> QED BY <4>1, <1>3, <3>2
    <3> QED BY <3>1, <3>2
  <2> QED BY <2>1
<1> HIDE DEF F
<1>5. Doubled = [n \in Nat |-> IF n = 0 THEN RetryDelay ELSE 2 * Doubled[n - 1]]
  BY <1>4 DEF Doubled
<1>6. Doubled[0] = RetryDelay
  BY <1>5
<1>7. \A n \in Nat : Doubled[n + 1] = 2 * Doubled[n]
  <2> TAKE n \in Nat
  <2>1. n + 1 \in Nat /\ n + 1 # 0 /\ (n + 1) - 1 = n
    OBVIOUS
  <2> QED BY <1>5, <2>1
<1>8. \A n \in Nat : Doubled[n] \in Nat
  <2> DEFINE T == {n \in Nat : Doubled[n] \notin Nat}
  <2>1. SUFFICES ASSUME T # {} PROVE FALSE
    OBVIOUS
  <2>2. PICK n \in T : \A y \in T : n <= y
    BY <2>1, LeastNumber, Zenon
  <2>3. n # 0
    BY <2>2, <1>6, SupervisorConstants
  <2>4. n - 1 \in Nat /\ n - 1 \notin T /\ (n - 1) + 1 = n
    BY <2>2, <2>3
  <2> QED BY <1>7, <2>2, <2>4
<1> QED BY <1>6, <1>7, <1>8

-----------------------------------------------------------------------------
(* The order of building and tearing down *)

\* What is built next is missing, and when it is a worker everything its thread
\* uses is there already (media_pipeline_start, pipeline_start).
LEMMA BuildsInOrder ==
  ASSUME TypeOK, built # Objects
  PROVE  /\ NextToBuild \in Objects \ built
         /\ NextToBuild = "source_worker" => {"source", "hub"} \subseteq built
         /\ NextToBuild = "encoder_worker" => {"hub", "ring", "encoder"} \subseteq built
         /\ NextToBuild = "media_thread" => "ring" \in built
<1>1. CASE Libpeer
  <2>1. DOMAIN BuildOrder = 1..7
    BY <1>1 DEF BuildOrder, LpBuildOrder
  <2> 7 \in Nat
    OBVIOUS
  <2>2. PICK k \in 1..7 : BuildOrder[k] \in Objects \ built
    BY <2>1 DEF Objects, TypeOK
  <2>3. PICK i \in 1..7 : /\ NextToBuild = BuildOrder[i]
                          /\ BuildOrder[i] \in Objects \ built
                          /\ \A j \in 1..7 : j < i => BuildOrder[j] \notin Objects \ built
    BY <2>1, <2>2, FirstIsFirst, Zenon DEF NextToBuild
  <2>4. \A j \in 1..7 : BuildOrder[j] \in Objects
    BY <2>1 DEF Objects
  <2>5. \A j \in 1..7 : j < i => BuildOrder[j] \in built
    BY <2>3, <2>4
  <2> QED BY <1>1, <2>3, <2>5 DEF BuildOrder, LpBuildOrder
<1>2. CASE ~Libpeer
  <2>1. DOMAIN BuildOrder = 1..6
    BY <1>2 DEF BuildOrder
  <2> 6 \in Nat
    OBVIOUS
  <2>2. PICK k \in 1..6 : BuildOrder[k] \in Objects \ built
    BY <2>1 DEF Objects, TypeOK
  <2>3. PICK i \in 1..6 : /\ NextToBuild = BuildOrder[i]
                          /\ BuildOrder[i] \in Objects \ built
                          /\ \A j \in 1..6 : j < i => BuildOrder[j] \notin Objects \ built
    BY <2>1, <2>2, FirstIsFirst, Zenon DEF NextToBuild
  <2>4. \A j \in 1..6 : BuildOrder[j] \in Objects
    BY <2>1 DEF Objects
  <2>5. \A j \in 1..6 : j < i => BuildOrder[j] \in built
    BY <2>3, <2>4
  <2> QED BY <1>2, <2>3, <2>5 DEF BuildOrder
<1> QED BY <1>1, <1>2

\* What is torn down next is there, and it is a worker as long as one is left,
\* the fan-out thread and the capture worker before the encode worker
\* (media_pipeline_stop, "stop the threads first").
LEMMA StopsThreadsFirst ==
  ASSUME TypeOK, built # {}
  PROVE  LET o == First(TeardownOrder, built)
         IN /\ o \in built
            /\ "media_thread" \in built => o = "media_thread"
            /\ "source_worker" \in built => o \in {"media_thread", "source_worker"}
            /\ "encoder_worker" \in built
                 => o \in {"media_thread", "source_worker", "encoder_worker"}
<1> DEFINE o == First(TeardownOrder, built)
<1>1. CASE Libpeer
  <2>1. TeardownOrder = LpStopOrder
    BY <1>1 DEF TeardownOrder, StopOrder
  <2>2. DOMAIN LpStopOrder = 1..7
    BY DEF LpStopOrder
  <2>3. DOMAIN BuildOrder = 1..7 /\ BuildOrder = LpBuildOrder
    BY <1>1 DEF BuildOrder, LpBuildOrder
  <2>4. \A x \in built : \E k \in 1..7 : LpStopOrder[k] = x
    BY <2>3 DEF TypeOK, Objects, LpBuildOrder, LpStopOrder
  <2> 7 \in Nat
    OBVIOUS
  <2>5. PICK k \in 1..7 : LpStopOrder[k] \in built
    BY <2>4
  <2>6. PICK i \in 1..7 : /\ o = LpStopOrder[i]
                          /\ LpStopOrder[i] \in built
                          /\ \A j \in 1..7 : j < i => LpStopOrder[j] \notin built
    BY <2>1, <2>2, <2>5, FirstIsFirst, Zenon
  <2> QED BY <2>6 DEF LpStopOrder
<1>2. CASE ~Libpeer
  <2> DEFINE order == <<"source_worker", "encoder_worker", "encoder", "ring", "hub", "source">>
  <2>1. TeardownOrder = order
    BY <1>2 DEF TeardownOrder, StopOrder
  <2>2. DOMAIN order = 1..6
    OBVIOUS
  <2>3. DOMAIN BuildOrder = 1..6
    BY <1>2 DEF BuildOrder
  <2>4. \A x \in built : \E k \in 1..6 : order[k] = x
    BY <1>2, <2>3 DEF TypeOK, Objects, BuildOrder
  <2> 6 \in Nat
    OBVIOUS
  <2>5. PICK k \in 1..6 : order[k] \in built
    BY <2>4
  <2>6. PICK i \in 1..6 : /\ o = order[i]
                          /\ order[i] \in built
                          /\ \A j \in 1..6 : j < i => order[j] \notin built
    <3> HIDE DEF order
    <3> QED BY <2>1, <2>2, <2>5, FirstIsFirst, Zenon
  <2>7. "media_thread" \notin built
    BY <1>2, <2>3 DEF TypeOK, Objects, BuildOrder
  <2> QED BY <2>6, <2>7
<1> QED BY <1>1, <1>2

-----------------------------------------------------------------------------
(* The inductive invariant *)

\* The third part of WholeOrRetrying.
Settled ==
    pc = "loop" => \/ running /\ built = Objects /\ (~Libpeer => retry = NoRetry)
                   \/ ~running /\ built = {} /\ retry # NoRetry

\* pipeline_failures is the number of failures in a row; the libpeer server has
\* no such counter.
Counted == ~Libpeer => failures = misses

\* The time that must pass between the last failure and the next attempt.
Owed == IF Libpeer THEN RetryDelay ELSE Delay(misses)

\* While the pipeline is down, the time since the failure and what is left on
\* the timer add up to the time owed, or the history has reached its cap.
BackingOff ==
    pc = "loop" /\ ~running /\ misses > 0 => wait + retry >= Owed \/ wait = RetryMax

\* WholeOrRetrying is inductive as it stands; BackoffHonoured needs the last
\* two.
Inv == TypeOK /\ ThreadsHaveTheirObjects /\ Settled /\ Counted /\ BackingOff

\* pipeline_schedule_retry never waits longer than RetryMax, and waits
\* RetryDelay after the first failure.
LEMMA DelayBounds ==
  /\ \A n \in Nat : Delay(n) \in 0..RetryMax
  /\ Delay(1) = RetryDelay
  /\ \A n \in Nat \ {0} : Delay(n) = Min({RetryMax, Doubled[n - 1]})
<1>1. ASSUME NEW a \in Nat, NEW b \in Nat
      PROVE  Min({a, b}) = IF a <= b THEN a ELSE b
  BY DEF Min
<1>2. \A n \in Nat : Delay(n) \in 0..RetryMax
  <2> TAKE n \in Nat
  <2>1. Doubled[IF n = 0 THEN 0 ELSE n - 1] \in Nat
    BY DoubledIsDoubling
  <2> QED BY <1>1, <2>1, SupervisorConstants DEF Delay
<1>3. Delay(1) = RetryDelay
  <2>1. (IF 1 = 0 THEN 0 ELSE 1 - 1) = 0
    OBVIOUS
  <2>2. Delay(1) = Min({RetryMax, RetryDelay})
    BY <2>1, DoubledIsDoubling, Zenon DEF Delay
  <2> QED BY <1>1, <2>2, SupervisorConstants
<1>4. \A n \in Nat \ {0} : Delay(n) = Min({RetryMax, Doubled[n - 1]})
  BY DEF Delay
<1> QED BY <1>2, <1>3, <1>4

\* Which objects there are depends on the program only.
LEMMA SameServer ==
  ASSUME server' = server
  PROVE  Objects' = Objects /\ Libpeer' = Libpeer
BY DEF Objects, BuildOrder, LpBuildOrder, Libpeer

\* A server that has not built anything yet (app_server_run, lp_server_run).
LEMMA InitInv == Init => Inv
<1> SUFFICES ASSUME Init PROVE Inv
  OBVIOUS
<1>1. TypeOK
  <2>1. retry \in 0..NoRetry /\ failures \in 0..FailCap /\ misses \in 0..FailCap
        /\ wait \in 0..RetryMax
    BY SupervisorConstants DEF Init, NoRetry
  <2> QED BY <2>1, Zenon DEF Init, TypeOK
<1> QED BY <1>1 DEF Init, Inv, ThreadsHaveTheirObjects, Settled, Counted, BackingOff

\* Build starts a thread only when its objects are there
\* (media_pipeline_start).
LEMMA BuildKeeps ==
  ASSUME Inv, Build
  PROVE  Inv'
<1> USE DEF Inv
<1> Objects' = Objects /\ Libpeer' = Libpeer
  BY SameServer DEF Build, pipe
<1>1. hardware' \in BOOLEAN
  BY Zenon DEF Build, Kinds, TypeOK
<1>2. /\ built' \subseteq Objects
      /\ threads' \subseteq {"encode", "capture", "fanout"}
      /\ failed' \subseteq {"encode", "capture"}
  <2>1. \A o : IsWorker(o) => ThreadOf[o] \in {"encode", "capture", "fanout"}
    BY DEF IsWorker, ThreadOf
  <2>2. built' \subseteq Objects
    BY BuildsInOrder DEF Build, TypeOK
  <2>3. threads' \subseteq {"encode", "capture", "fanout"}
    BY <2>1, Zenon DEF Build, TypeOK
  <2>4. failed' \subseteq {"encode", "capture"}
    BY Zenon DEF Build, TypeOK
  <2> QED BY <2>2, <2>3, <2>4
<1>3. TypeOK'
  BY <1>1, <1>2 DEF Build, TypeOK, plan
<1>4. ThreadsHaveTheirObjects'
  BY BuildsInOrder DEF Build, ThreadsHaveTheirObjects, TypeOK, IsWorker, ThreadOf
<1>5. Settled' /\ Counted' /\ BackingOff'
  BY DEF Build, plan, Settled, Counted, BackingOff
<1> QED BY <1>3, <1>4, <1>5

\* A failed step leaves what is built to the unwinding.
LEMMA BuildFailsKeeps ==
  ASSUME Inv, BuildFails
  PROVE  Inv'
<1> USE DEF Inv
<1> Objects' = Objects /\ Libpeer' = Libpeer
  BY SameServer DEF BuildFails, pipe
<1>1. TypeOK'
  BY BuildsInOrder DEF BuildFails, TypeOK, plan
<1>2. ThreadsHaveTheirObjects' /\ Settled' /\ Counted' /\ BackingOff'
  BY DEF BuildFails, plan, ThreadsHaveTheirObjects, Settled, Counted, BackingOff
<1> QED BY <1>1, <1>2

\* The pipeline is whole and the failures are forgotten.
LEMMA StartDoneKeeps ==
  ASSUME Inv, StartDone
  PROVE  Inv'
<1> USE DEF Inv
<1> Objects' = Objects /\ Libpeer' = Libpeer
  BY SameServer DEF StartDone, pipe
<1>1. TypeOK'
  BY SupervisorConstants DEF StartDone, TypeOK, pipe, NoRetry
<1>2. ThreadsHaveTheirObjects' /\ Settled' /\ Counted' /\ BackingOff'
  BY DEF StartDone, pipe, NoRetry, ThreadsHaveTheirObjects, Settled, Counted, BackingOff
<1> QED BY <1>1, <1>2

\* No object goes before the threads that use it (media_pipeline_stop).
LEMMA TearDownKeeps ==
  ASSUME Inv, TearDown
  PROVE  Inv'
<1> USE DEF Inv
<1> Objects' = Objects /\ Libpeer' = Libpeer
  BY SameServer DEF TearDown, pipe
<1>1. TypeOK'
  BY StopsThreadsFirst, Zenon DEF TearDown, TypeOK, plan
<1>2. ThreadsHaveTheirObjects'
  BY StopsThreadsFirst DEF TearDown, ThreadsHaveTheirObjects, TypeOK, IsWorker, ThreadOf
<1>3. Settled' /\ Counted' /\ BackingOff'
  BY DEF TearDown, plan, Settled, Counted, BackingOff
<1> QED BY <1>1, <1>2, <1>3

\* Everything is unwound and the timer holds the time owed
\* (pipeline_schedule_retry).
LEMMA StartFailedKeeps ==
  ASSUME Inv, StartFailed
  PROVE  Inv'
<1> USE DEF Inv
<1> Objects' = Objects /\ Libpeer' = Libpeer
  BY SameServer DEF StartFailed, pipe
<1>1. /\ RetryAfterStart \in 0..RetryMax
      /\ failures' \in 0..FailCap /\ misses' \in 0..FailCap
      /\ retry' \in 0..NoRetry /\ wait' \in 0..RetryMax
  <2>1. FailuresAfterStart \in 0..FailCap
    BY SupervisorConstants DEF TypeOK, FailuresAfterStart, Capped
  <2>2. FailuresAfterStart \in Nat
    BY <2>1, SupervisorConstants
  <2>3. Delay(FailuresAfterStart) \in 0..RetryMax
    BY <2>2, DelayBounds
  <2>4. RetryAfterStart \in 0..RetryMax
    BY <2>3, SupervisorConstants DEF RetryAfterStart, LpRetryAfterStart
  <2>5. failures' \in 0..FailCap /\ misses' \in 0..FailCap
    BY <2>1, SupervisorConstants DEF TypeOK, StartFailed, Capped
  <2>6. retry' \in 0..NoRetry /\ wait' \in 0..RetryMax
    BY <2>4, SupervisorConstants DEF StartFailed, NoRetry
  <2> QED BY <2>4, <2>5, <2>6
<1>2. Owed' = RetryAfterStart
  BY DEF Counted, StartFailed, FailuresAfterStart, Owed, RetryAfterStart,
         LpRetryAfterStart, Delay
<1>3. TypeOK'
  BY <1>1, Zenon DEF StartFailed, TypeOK, pipe
<1>4. ThreadsHaveTheirObjects' /\ Counted'
  BY DEF StartFailed, ThreadsHaveTheirObjects, pipe, Counted, FailuresAfterStart
<1>5. Settled'
  BY <1>1, SupervisorConstants DEF StartFailed, Settled, pipe, NoRetry
<1>6. BackingOff'
  BY <1>1, <1>2 DEF StartFailed, BackingOff
<1> QED BY <1>3, <1>4, <1>5, <1>6

\* The failed pipeline is gone; the next attempt is at once or RetryDelay later
\* (media_supervise, pipeline_supervise).
LEMMA SuperviseStoppedKeeps ==
  ASSUME Inv, SuperviseStopped
  PROVE  Inv'
<1> USE DEF Inv
<1> Objects' = Objects /\ Libpeer' = Libpeer
  BY SameServer DEF SuperviseStopped, pipe
<1>1. /\ retry' \in 0..NoRetry /\ wait' \in 0..RetryMax
      /\ failures' \in 0..FailCap /\ misses' \in 0..FailCap
  BY SupervisorConstants DEF SuperviseStopped, NoRetry, RetryAfterStop
<1>2. TypeOK'
  BY <1>1, Zenon DEF SuperviseStopped, TypeOK, pipe
<1>3. ThreadsHaveTheirObjects' /\ Counted'
  BY DEF SuperviseStopped, ThreadsHaveTheirObjects, pipe, Counted
<1>4. Settled'
  BY SupervisorConstants DEF SuperviseStopped, Settled, pipe, NoRetry, RetryAfterStop
<1>5. BackingOff'
  BY DelayBounds, SupervisorConstants
  DEF SuperviseStopped, BackingOff, Owed, RetryAfterStop, Delay
<1> QED BY <1>2, <1>3, <1>4, <1>5

\* The main thread leaves its loop to tear down.
LEMMA SuperviseFailureKeeps ==
  ASSUME Inv, SuperviseFailure
  PROVE  Inv'
<1> USE DEF Inv
<1> Objects' = Objects /\ Libpeer' = Libpeer
  BY SameServer DEF SuperviseFailure, pipe
<1>1. TypeOK'
  BY DEF SuperviseFailure, TypeOK, pipe, Switch
<1>2. ThreadsHaveTheirObjects' /\ Settled' /\ Counted' /\ BackingOff'
  BY DEF SuperviseFailure, pipe, plan, ThreadsHaveTheirObjects, Settled, Counted, BackingOff
<1> QED BY <1>1, <1>2

\* It leaves its loop to build.
LEMMA SuperviseRetryKeeps ==
  ASSUME Inv, SuperviseRetry
  PROVE  Inv'
<1> USE DEF Inv
<1> Objects' = Objects /\ Libpeer' = Libpeer
  BY SameServer DEF SuperviseRetry, pipe
<1>1. TypeOK'
  BY DEF SuperviseRetry, TypeOK, pipe, plan
<1>2. ThreadsHaveTheirObjects' /\ Settled' /\ Counted' /\ BackingOff'
  BY DEF SuperviseRetry, pipe, plan, ThreadsHaveTheirObjects, Settled, Counted, BackingOff
<1> QED BY <1>1, <1>2

\* handle_camera_restart begins with a stop,
LEMMA CameraRestartKeeps ==
  ASSUME Inv, CameraRestart
  PROVE  Inv'
<1> USE DEF Inv
<1> Objects' = Objects /\ Libpeer' = Libpeer
  BY SameServer DEF CameraRestart, pipe
<1>1. TypeOK'
  BY DEF CameraRestart, TypeOK, pipe, plan
<1>2. ThreadsHaveTheirObjects' /\ Settled' /\ Counted' /\ BackingOff'
  BY DEF CameraRestart, pipe, plan, ThreadsHaveTheirObjects, Settled, Counted, BackingOff
<1> QED BY <1>1, <1>2

\* and so does the end of app_server_run.
LEMMA QuitKeeps ==
  ASSUME Inv, Quit
  PROVE  Inv'
<1> USE DEF Inv
<1> Objects' = Objects /\ Libpeer' = Libpeer
  BY SameServer DEF Quit, pipe
<1>1. TypeOK'
  BY DEF Quit, TypeOK, pipe, plan
<1>2. ThreadsHaveTheirObjects' /\ Settled' /\ Counted' /\ BackingOff'
  BY DEF Quit, pipe, plan, ThreadsHaveTheirObjects, Settled, Counted, BackingOff
<1> QED BY <1>1, <1>2

\* A restart goes on with a start,
LEMMA RestartStoppedKeeps ==
  ASSUME Inv, RestartStopped
  PROVE  Inv'
<1> USE DEF Inv
<1> Objects' = Objects /\ Libpeer' = Libpeer
  BY SameServer DEF RestartStopped, pipe
<1>1. TypeOK'
  BY Zenon DEF RestartStopped, TypeOK, pipe
<1>2. ThreadsHaveTheirObjects' /\ Settled' /\ Counted' /\ BackingOff'
  BY DEF RestartStopped, pipe, plan, ThreadsHaveTheirObjects, Settled, Counted, BackingOff
<1> QED BY <1>1, <1>2

\* the end of the program with nothing.
LEMMA QuitStoppedKeeps ==
  ASSUME Inv, QuitStopped
  PROVE  Inv'
<1> USE DEF Inv
<1> Objects' = Objects /\ Libpeer' = Libpeer
  BY SameServer DEF QuitStopped, pipe
<1>1. TypeOK'
  BY Zenon DEF QuitStopped, TypeOK, pipe
<1>2. ThreadsHaveTheirObjects' /\ Settled' /\ Counted' /\ BackingOff'
  BY DEF QuitStopped, pipe, plan, ThreadsHaveTheirObjects, Settled, Counted, BackingOff
<1> QED BY <1>1, <1>2

\* A worker's thread that returns leaves its objects in place.
LEMMA ThreadFailsKeeps ==
  ASSUME Inv, NEW t \in {"encode", "capture"}, ThreadFails(t)
  PROVE  Inv'
<1> USE DEF Inv
<1> Objects' = Objects /\ Libpeer' = Libpeer
  BY SameServer DEF ThreadFails, pipe
<1>1. TypeOK' /\ ThreadsHaveTheirObjects'
  BY DEF ThreadFails, plan, TypeOK, ThreadsHaveTheirObjects
<1>2. Settled' /\ Counted' /\ BackingOff'
  BY DEF ThreadFails, plan, Settled, Counted, BackingOff, Owed, Delay
<1> QED BY <1>1, <1>2

\* So does the fan-out thread.
LEMMA FanoutReturnsKeeps ==
  ASSUME Inv, FanoutReturns
  PROVE  Inv'
<1> USE DEF Inv
<1> Objects' = Objects /\ Libpeer' = Libpeer
  BY SameServer DEF FanoutReturns, pipe
<1>1. TypeOK' /\ ThreadsHaveTheirObjects'
  BY DEF FanoutReturns, plan, TypeOK, ThreadsHaveTheirObjects
<1>2. Settled' /\ Counted' /\ BackingOff'
  BY DEF FanoutReturns, plan, Settled, Counted, BackingOff, Owed, Delay
<1> QED BY <1>1, <1>2

\* The devices touch nothing of the server.
LEMMA HealthChangesKeeps ==
  ASSUME Inv, HealthChanges
  PROVE  Inv'
<1> USE DEF Inv
<1> Objects' = Objects /\ Libpeer' = Libpeer
  BY SameServer DEF HealthChanges, pipe
<1>1. TypeOK' /\ ThreadsHaveTheirObjects'
  BY DEF HealthChanges, pipe, plan, TypeOK, ThreadsHaveTheirObjects
<1>2. Settled' /\ Counted' /\ BackingOff'
  BY DEF HealthChanges, pipe, plan, Settled, Counted, BackingOff, Owed, Delay
<1> QED BY <1>1, <1>2

\* The clock moves time from the timer to the history.
LEMMA TickKeeps ==
  ASSUME Inv, Tick
  PROVE  Inv'
<1> USE DEF Inv
<1> Objects' = Objects /\ Libpeer' = Libpeer
  BY SameServer DEF Tick, pipe
<1>1. Owed \in 0..RetryMax /\ Owed' = Owed
  <2>1. misses \in Nat
    BY SupervisorConstants DEF TypeOK
  <2>2. Delay(misses) \in 0..RetryMax
    BY <2>1, DelayBounds
  <2> QED BY <2>2, SupervisorConstants DEF Tick, Owed, Delay
<1>2. TypeOK'
  BY SupervisorConstants DEF Tick, TypeOK, pipe, NoRetry
<1>3. ThreadsHaveTheirObjects' /\ Counted'
  BY DEF Tick, ThreadsHaveTheirObjects, pipe, Counted
<1>4. Settled'
  BY SupervisorConstants DEF Tick, Settled, pipe, TypeOK, NoRetry
<1>5. BackingOff'
  BY <1>1, SupervisorConstants DEF Tick, BackingOff, TypeOK, NoRetry
<1> QED BY <1>2, <1>3, <1>4, <1>5

\* Every step keeps the invariant.
LEMMA NextInv == Inv /\ [Next]_vars => Inv'
<1> SUFFICES ASSUME Inv, [Next]_vars PROVE Inv'
  OBVIOUS
<1>1. CASE Build
  BY <1>1, BuildKeeps
<1>2. CASE BuildFails
  BY <1>2, BuildFailsKeeps
<1>3. CASE StartDone
  BY <1>3, StartDoneKeeps
<1>4. CASE StartFailed
  BY <1>4, StartFailedKeeps
<1>5. CASE TearDown
  BY <1>5, TearDownKeeps
<1>6. CASE SuperviseFailure
  BY <1>6, SuperviseFailureKeeps
<1>7. CASE SuperviseStopped
  BY <1>7, SuperviseStoppedKeeps
<1>8. CASE SuperviseRetry
  BY <1>8, SuperviseRetryKeeps
<1>9. CASE RestartStopped
  BY <1>9, RestartStoppedKeeps
<1>10. CASE QuitStopped
  BY <1>10, QuitStoppedKeeps
<1>11. CASE CameraRestart
  BY <1>11, CameraRestartKeeps
<1>12. CASE Quit
  BY <1>12, QuitKeeps
<1>13. CASE FanoutReturns
  BY <1>13, FanoutReturnsKeeps
<1>14. CASE HealthChanges
  BY <1>14, HealthChangesKeeps
<1>15. CASE Tick
  BY <1>15, TickKeeps
<1>16. CASE \E t \in {"encode", "capture"} : ThreadFails(t)
  BY <1>16, ThreadFailsKeeps
<1>17. CASE UNCHANGED vars
  <2> USE <1>17 DEF vars
  <2>1. Objects' = Objects /\ Libpeer' = Libpeer
    BY SameServer
  <2>2. TypeOK' /\ ThreadsHaveTheirObjects' /\ Settled'
    BY <2>1 DEF Inv, TypeOK, ThreadsHaveTheirObjects, Settled
  <2>3. Counted' /\ BackingOff'
    BY <2>1 DEF Inv, Counted, BackingOff, Owed, Delay
  <2> QED BY <2>2, <2>3 DEF Inv
<1> QED
  BY <1>1, <1>2, <1>3, <1>4, <1>5, <1>6, <1>7, <1>8, <1>9, <1>10, <1>11, <1>12,
     <1>13, <1>14, <1>15, <1>16, <1>17 DEF Next, Main, Done

\* For every encoder preference, with or without libx264, and for all delays:
\* whenever the main loop runs, the pipeline is whole or gone with a retry
\* scheduled, and no thread runs on an object that is gone
\* (media_pipeline_start, media_pipeline_stop, media_supervise and their copies
\* in lp_server.c).
THEOREM NeverHalfBuilt == Spec => []WholeOrRetrying
<1>1. Inv => WholeOrRetrying
  BY DEF Inv, WholeOrRetrying, Settled
<1> QED BY <1>1, InitInv, NextInv, PTL DEF Spec

\* After n failures in a row the supervisor waits for RetryDelay doubled n - 1
\* times, at most RetryMax, before it tries again (pipeline_schedule_retry);
\* the libpeer server waits for RetryDelay (pipeline_supervise).
THEOREM RetriesBackOff == Spec => BackoffHonoured
<1>1. ASSUME Inv, SuperviseRetry, misses > 0
      PROVE  wait >= IF Libpeer THEN RetryDelay ELSE Min({RetryMax, Doubled[misses - 1]})
  <2>1. misses \in Nat \ {0} /\ wait \in 0..RetryMax
    BY <1>1, SupervisorConstants DEF Inv, TypeOK
  <2>2. /\ Delay(misses) \in 0..RetryMax
        /\ Delay(misses) = Min({RetryMax, Doubled[misses - 1]})
    BY <2>1, DelayBounds
  <2>3. wait + 0 >= Owed \/ wait = RetryMax
    BY <1>1 DEF Inv, BackingOff, SuperviseRetry, Due
  <2> QED BY <2>1, <2>2, <2>3, SupervisorConstants DEF Owed
<1>2. Inv /\ [Next]_vars
        => [SuperviseRetry /\ misses > 0
              => wait >= IF Libpeer THEN RetryDelay
                         ELSE Min({RetryMax, Doubled[misses - 1]})]_vars
  BY <1>1
<1> QED BY <1>2, InitInv, NextInv, PTL DEF Spec, BackoffHonoured

-----------------------------------------------------------------------------
(* The main thread with its configuration *)

\* The main thread with its configuration does only what the supervisor does,
\* and reloading the file in between is a stutter of the pipeline
\* (handle_config_reload): the two theorems above hold of RuntimeSpec too.
THEOREM RuntimeSupervises == RuntimeSpec => Spec
<1>1. RuntimeInit => Init
  BY DEF RuntimeInit
<1>2. [RuntimeNext]_all => [Next]_vars
  BY DEF RuntimeNext, Pipeline, ConfigReload, Edit, all
<1> QED BY <1>1, <1>2, PTL DEF RuntimeSpec, Spec
=============================================================================
