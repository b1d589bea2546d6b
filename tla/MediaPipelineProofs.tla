-------------------------- MODULE MediaPipelineProofs --------------------------
(***************************************************************************)
(* That no request for a keyframe is lost between the encode thread, the   *)
(* queue of access units and the viewers, and that the encoder's bitrate   *)
(* follows the configuration: for any number of viewers, any capacity of   *)
(* the queue and any number of losses, rebuilds and reloads.               *)
(***************************************************************************)
EXTENDS MediaPipeline, TLAPS

\* A loss is announced: behind a gap in the queue, or right at it, there is a
\* unit with the discontinuity flag (a full ring flags the unit it accepts, and
\* the gap is at its other end).
GapsAreFlagged ==
  \A i \in 1..Len(queue) : gaps[i] => \E j \in i..Len(queue) : queue[j].discontinuity

\* A session that does not stream yet has asked for nothing, so that its
\* first request is not swallowed by the limit on requests.
FreshSessionsMayAsk ==
  \A v \in Viewers : session[v].state \in {"off", "connecting"}
                       => ~session[v].waiting /\ ~session[v].recent

\* What the main thread knows at the places where it relies on it.
MainKnows ==
  /\ main = "send" => out \in Entry
  /\ main \in {"start", "started"} => ~pipeline_running
  /\ main = "started" => ~refused /\ encRate = cfgRate

\* The mailbox holds the configured bitrate, and nothing without a pipeline.
MailIsCurrent ==
  /\ pending # 0 => pending = cfgRate
  /\ ~pipeline_running => pending = 0

\* The types of the history.
History ==
  /\ gaps \in Seq(BOOLEAN)
  /\ losses \in Nat /\ restarts \in Nat

\* The inductive invariant.
Inv ==
  /\ NoRequestLost /\ BitrateFollows
  /\ GapsAreFlagged /\ FreshSessionsMayAsk
  /\ MainKnows /\ MailIsCurrent /\ History

\* The second half of NoRequestLost.
Need == InNeed # {} /\ pipeline_running /\ ~failed /\ encRunning => HelpOnTheWay

\* A server that has just started its pipeline.
LEMMA InitInv == Init => Inv
<1> SUFFICES ASSUME Init PROVE Inv
  OBVIOUS
<1> USE PipelineAssumption DEF Init, QInit, NoSession
<1>1. FirstRate \in Rates
  BY DEF FirstRate
<1>2. /\ queue \in Seq(Entry) /\ gaps \in Seq(BOOLEAN) /\ Len(queue) = 0 /\ Len(gaps) = 0
  OBVIOUS
<1>3. TypeOK
  <2>1. session \in [Viewers -> [state : {"off", "connecting", "streaming", "closed"},
                                 waiting : BOOLEAN, recent : BOOLEAN]]
    OBVIOUS
  <2>2. losses + restarts \in 0..MaxFaults /\ Len(queue) <= Capacity
    BY <1>2
  <2> QED BY <1>1, <1>2, <2>1, <2>2, Zenon DEF TypeOK
<1>4. Need /\ GapsAreFlagged
  BY <1>2 DEF Need, HelpOnTheWay, GapsAreFlagged
<1> QED BY <1>2, <1>3, <1>4 DEF Inv, NoRequestLost, Need, BitrateFollows,
                               FreshSessionsMayAsk, MainKnows, MailIsCurrent, History

-----------------------------------------------------------------------------
(* The queue *)

\* A function on 1..m is a sequence.
LEMMA FunctionIsSeq ==
  ASSUME NEW S, NEW m \in Nat, NEW f \in [1..m -> S] PROVE f \in Seq(S) /\ Len(f) = m
OBVIOUS

\* What the new loss at the head of a full queue does to the history of gaps.
LEMMA ExceptSeq ==
  ASSUME NEW S, NEW g \in Seq(S), NEW x \in S, Len(g) > 0
  PROVE  [g EXCEPT ![1] = x] \in Seq(S) /\ Len([g EXCEPT ![1] = x]) = Len(g)
<1>1. [g EXCEPT ![1] = x] \in [1..Len(g) -> S]
  OBVIOUS
<1> QED BY <1>1, FunctionIsSeq

\* Taking the head (au_ring_pop, and au_ring_push on a full ring).
LEMMA TailSeq ==
  ASSUME NEW S, NEW q \in Seq(S), Len(q) > 0
  PROVE  Tail(q) \in Seq(S) /\ Len(Tail(q)) = Len(q) - 1
OBVIOUS

\* Adding at the end (au_ring_push).
LEMMA AppendSeq ==
  ASSUME NEW S, NEW q \in Seq(S), NEW x \in S
  PROVE  /\ Append(q, x) \in Seq(S) /\ Len(Append(q, x)) = Len(q) + 1
         /\ Append(q, x)[Len(q) + 1] = x
         /\ \A i \in 1..Len(q) : Append(q, x)[i] = q[i]
OBVIOUS

(* au_ring_push: the new unit is flagged when anything was lost before it, and  *)
(* nothing else than the oldest unit goes.                                      *)
LEMMA EncPushKeeps ==
  ASSUME Inv, EncPush PROVE Inv'
<1> DEFINE full == Len(queue) = Capacity
           last == [unit |-> enc, discontinuity |-> lost \/ full]
           keptQ == IF full THEN Tail(queue) ELSE queue
           keptG == IF full THEN Tail(gaps) ELSE gaps
           n == Len(keptQ)
<1> USE PipelineAssumption
<1>1. /\ queue' = Append(keptQ, last) /\ lost' = FALSE /\ out' = out
      /\ gaps' = IF full THEN [Append(keptG, lost) EXCEPT ![1] = TRUE]
                 ELSE Append(keptG, lost)
  BY DEF EncPush, Accept
<1>2. /\ last \in Entry /\ last.discontinuity = (lost \/ full) /\ last.unit = enc
      /\ lost \in BOOLEAN
  BY DEF Inv, NoRequestLost, TypeOK, EncPush, Entry
<1>3. /\ queue \in Seq(Entry) /\ gaps \in Seq(BOOLEAN) /\ Len(gaps) = Len(queue)
      /\ Len(queue) \in Nat /\ Len(queue) <= Capacity
  BY DEF Inv, NoRequestLost, TypeOK, History
<1>4. /\ keptQ \in Seq(Entry) /\ keptG \in Seq(BOOLEAN)
      /\ n \in Nat /\ n < Capacity /\ Len(keptG) = n
      /\ ~full => keptQ = queue /\ keptG = gaps
  <2>1. CASE full
    <3>1. /\ Tail(queue) \in Seq(Entry) /\ Len(Tail(queue)) = Len(queue) - 1
          /\ Tail(gaps) \in Seq(BOOLEAN) /\ Len(Tail(gaps)) = Len(queue) - 1
      BY <2>1, <1>3, TailSeq
    <3> QED BY <3>1, <2>1, <1>3
  <2>2. CASE ~full
    BY <2>2, <1>3
  <2> QED BY <2>1, <2>2
<1> HIDE DEF keptQ, keptG, last
<1>5. /\ queue' \in Seq(Entry) /\ Len(queue') = n + 1 /\ queue'[n + 1] = last
      /\ \A i \in 1..n : queue'[i] = keptQ[i]
  BY <1>1, <1>2, <1>4, AppendSeq
<1>6. /\ Append(keptG, lost) \in Seq(BOOLEAN) /\ Len(Append(keptG, lost)) = n + 1
      /\ Append(keptG, lost)[n + 1] = lost
      /\ \A i \in 1..n : Append(keptG, lost)[i] = keptG[i]
  BY <1>2, <1>4, AppendSeq
<1>7. gaps' \in Seq(BOOLEAN) /\ Len(gaps') = n + 1
  <2>1. CASE full
    BY <2>1, <1>1, <1>4, <1>6, ExceptSeq
  <2>2. CASE ~full
    BY <2>2, <1>1, <1>6
  <2> QED BY <2>1, <2>2
<1>8. ~full => gaps'[n + 1] = lost /\ \A i \in 1..n : gaps'[i] = gaps[i]
  BY <1>1, <1>4, <1>6
<1> HIDE DEF n
<1>9. TypeOK'
  <2>1. losses' + restarts' \in 0..MaxFaults
    BY DEF EncPush, MayFault, Inv, NoRequestLost, TypeOK, History
  <2>2. Len(queue') <= Capacity /\ Len(gaps') = Len(queue')
    BY <1>4, <1>5, <1>7
  <2> QED BY <2>1, <2>2, <1>1, <1>5, Zenon DEF EncPush, Inv, NoRequestLost, TypeOK, rateVars
<1>10. Need'
  <2> SUFFICES ASSUME InNeed # {}, pipeline_running, ~failed, encRunning
               PROVE  HelpOnTheWay'
    BY DEF EncPush, Need, InNeed
  <2>1. CASE lost \/ full \/ enc = "idr"
    <3>1. n + 1 \in DOMAIN queue'
      BY <1>4, <1>5
    <3> QED BY <3>1, <2>1, <1>2, <1>5, Zenon DEF HelpOnTheWay
  <2>2. CASE ~(lost \/ full \/ enc = "idr")
    <3>1. \/ force_idr = 1
          \/ \E i \in DOMAIN queue : queue[i].unit = "idr" \/ queue[i].discontinuity
          \/ main = "send" /\ (out.unit = "idr" \/ out.discontinuity)
      BY <2>2 DEF HelpOnTheWay, EncPush, Inv, NoRequestLost
    <3>2. \A i \in DOMAIN queue : i \in DOMAIN queue' /\ queue'[i] = queue[i]
      BY <2>2, <1>3, <1>4, <1>5 DEF n
    <3> QED BY <3>1, <3>2, <1>1 DEF HelpOnTheWay, EncPush
  <2> QED BY <2>1, <2>2
<1>11. GapsAreFlagged'
  <2> SUFFICES ASSUME NEW i \in 1..(n + 1), gaps'[i]
               PROVE  \E j \in i..(n + 1) : queue'[j].discontinuity
    BY <1>4, <1>5 DEF GapsAreFlagged
  <2>1. CASE lost \/ full
    <3>1. n + 1 \in i..(n + 1)
      BY <1>4
    <3> QED BY <3>1, <2>1, <1>2, <1>5, Zenon
  <2>2. CASE ~lost /\ ~full
    <3>1. i \in 1..n /\ gaps[i]
      BY <2>2, <1>2, <1>4, <1>8
    <3>2. PICK j \in i..n : queue[j].discontinuity
      BY <3>1, <2>2, <1>4 DEF Inv, GapsAreFlagged, n
    <3> QED BY <3>1, <3>2, <2>2, <1>4, <1>5
  <2> QED BY <2>1, <2>2
<1>12. BitrateFollows' /\ MailIsCurrent' /\ FreshSessionsMayAsk'
  BY DEF Inv, EncPush, BitrateFollows, MailIsCurrent, FreshSessionsMayAsk, rateVars
<1>13. MainKnows'
  BY <1>1 DEF Inv, EncPush, MainKnows, rateVars
<1>14. History'
  BY <1>7 DEF Inv, EncPush, History
<1> QED BY <1>9, <1>10, <1>11, <1>12, <1>13, <1>14 DEF Inv, NoRequestLost, Need

(* au_ring_pop: whoever gets a delta behind a gap is in need from here on, and  *)
(* the flag that will ask for a keyframe is on this unit or still in the queue. *)
LEMMA FanOutPopKeeps ==
  ASSUME Inv, FanOutPop PROVE Inv'
<1> DEFINE n == Len(queue)
<1> USE PipelineAssumption
<1>1. /\ queue \in Seq(Entry) /\ gaps \in Seq(BOOLEAN) /\ Len(gaps) = n
      /\ n \in Nat \ {0} /\ n <= Capacity /\ queue[1] \in Entry
  BY DEF Inv, NoRequestLost, TypeOK, History, FanOutPop
<1>2. /\ queue' \in Seq(Entry) /\ Len(queue') = n - 1
      /\ \A i \in 1..(n - 1) : queue'[i] = queue[i + 1]
  BY <1>1 DEF FanOutPop, Deliver
<1>3. /\ gaps' \in Seq(BOOLEAN) /\ Len(gaps') = n - 1
      /\ \A i \in 1..(n - 1) : gaps'[i] = gaps[i + 1]
  BY <1>1 DEF FanOutPop
<1>4. out' = queue[1] /\ out' \in Entry /\ lost' = lost /\ main' = "send"
  BY <1>1 DEF FanOutPop, Deliver, Entry
<1>5. ASSUME NEW i \in 1..n, queue[i].unit = "idr" \/ queue[i].discontinuity
      PROVE  HelpOnTheWay'
  <2>1. CASE i = 1
    BY <2>1, <1>4, <1>5 DEF HelpOnTheWay
  <2>2. CASE i # 1
    <3>1. i - 1 \in DOMAIN queue' /\ queue'[i - 1] = queue[i]
      BY <2>2, <1>1, <1>2
    <3> QED BY <3>1, <1>5 DEF HelpOnTheWay
  <2> QED BY <2>1, <2>2
<1> HIDE DEF n
<1>6. TypeOK'
  BY <1>1, <1>2, <1>3, <1>4 DEF FanOutPop, Inv, NoRequestLost, TypeOK, encVars, rateVars
<1>7. Need'
  <2> SUFFICES ASSUME InNeed' # {}, pipeline_running, ~failed, encRunning
               PROVE  HelpOnTheWay'
    BY DEF Need, FanOutPop, encVars
  <2>1. CASE gaps[1]
    <3>1. PICK j \in 1..n : queue[j].discontinuity
      BY <2>1, <1>1 DEF Inv, GapsAreFlagged, n
    <3> QED BY <3>1, <1>5
  <2>2. CASE ~gaps[1]
    <3>1. InNeed # {}
      BY <2>2 DEF InNeed, FanOutPop
    <3>2. HelpOnTheWay
      BY <3>1 DEF Inv, NoRequestLost
    <3>3. CASE \E i \in DOMAIN queue : queue[i].unit = "idr" \/ queue[i].discontinuity
      BY <3>3, <1>1, <1>5 DEF n
    <3> QED BY <3>2, <3>3, <1>4 DEF HelpOnTheWay, FanOutPop, encVars
  <2> QED BY <2>1, <2>2
<1>8. GapsAreFlagged'
  <2> SUFFICES ASSUME NEW i \in 1..(n - 1), gaps'[i]
               PROVE  \E j \in i..(n - 1) : queue'[j].discontinuity
    BY <1>2 DEF GapsAreFlagged
  <2>1. PICK j \in (i + 1)..n : queue[j].discontinuity
    BY <1>1, <1>3 DEF Inv, GapsAreFlagged, n
  <2>2. j - 1 \in i..(n - 1) /\ queue'[j - 1] = queue[j]
    BY <1>1, <1>2
  <2> QED BY <2>1, <2>2
<1>9. BitrateFollows' /\ MailIsCurrent' /\ FreshSessionsMayAsk' /\ MainKnows' /\ History'
  BY <1>3, <1>4 DEF Inv, FanOutPop, BitrateFollows, MailIsCurrent, FreshSessionsMayAsk,
                    MainKnows, History, encVars, rateVars
<1> QED BY <1>6, <1>7, <1>8, <1>9 DEF Inv, NoRequestLost, Need

-----------------------------------------------------------------------------
(* The encode thread *)

\* The encode thread ends: only after it was told to.
LEMMA EncExitKeeps ==
  ASSUME Inv, EncExit PROVE Inv'
<1> USE PipelineAssumption DEF Inv, NoRequestLost, EncExit, qvars, rateVars, histVars
<1>1. TypeOK'
  BY DEF TypeOK
<1>2. Need'
  BY DEF Need, InNeed, HelpOnTheWay, TypeOK
<1>3. BitrateFollows' /\ MailIsCurrent' /\ MainKnows'
  BY DEF BitrateFollows, MailIsCurrent, MainKnows, TypeOK
<1>4. GapsAreFlagged' /\ FreshSessionsMayAsk' /\ History'
  BY DEF GapsAreFlagged, FreshSessionsMayAsk, History, TypeOK
<1> QED BY <1>1, <1>2, <1>3, <1>4 DEF Need

\* The mailbox is emptied into the encoder, or refused.
LEMMA EncTakeKeeps ==
  ASSUME Inv, NEW accepted \in BOOLEAN, NEW usable \in BOOLEAN,
         EncTake(accepted, usable)
  PROVE  Inv'
<1> USE PipelineAssumption DEF Inv, NoRequestLost, EncTake, qvars, histVars,
        PendingAfterTake
<1>1. TypeOK'
  BY Zenon DEF TypeOK
<1>2. Need'
  BY DEF Need, InNeed, HelpOnTheWay
<1>3. BitrateFollows' /\ MailIsCurrent' /\ MainKnows'
  BY DEF BitrateFollows, MailIsCurrent, MainKnows, TypeOK
<1>4. GapsAreFlagged' /\ FreshSessionsMayAsk' /\ History'
  BY DEF GapsAreFlagged, FreshSessionsMayAsk, History, TypeOK
<1> QED BY <1>1, <1>2, <1>3, <1>4 DEF Need

\* force_idr is cleared; the request lives on in "forced".
LEMMA EncExchangeKeeps ==
  ASSUME Inv, EncExchange PROVE Inv'
<1> USE PipelineAssumption DEF Inv, NoRequestLost, EncExchange, qvars, rateVars,
        histVars
<1>1. TypeOK'
  BY DEF TypeOK
<1>2. Need'
  BY Zenon DEF Need, InNeed, HelpOnTheWay, TypeOK
<1>3. BitrateFollows' /\ MailIsCurrent' /\ MainKnows'
  BY DEF BitrateFollows, MailIsCurrent, MainKnows, TypeOK
<1>4. GapsAreFlagged' /\ FreshSessionsMayAsk' /\ History'
  BY DEF GapsAreFlagged, FreshSessionsMayAsk, History, TypeOK
<1> QED BY <1>1, <1>2, <1>3, <1>4 DEF Need

\* A fatal error is a failure, and a failed pipeline is rebuilt.
LEMMA EncFatalKeeps ==
  ASSUME Inv, EncFatal PROVE Inv'
<1> USE PipelineAssumption DEF Inv, NoRequestLost, EncFatal, qvars, rateVars, histVars
<1>1. TypeOK'
  BY DEF TypeOK
<1>2. Need'
  BY DEF Need, InNeed, HelpOnTheWay, TypeOK
<1>3. BitrateFollows' /\ MailIsCurrent' /\ MainKnows'
  BY DEF BitrateFollows, MailIsCurrent, MainKnows, TypeOK
<1>4. GapsAreFlagged' /\ FreshSessionsMayAsk' /\ History'
  BY DEF GapsAreFlagged, FreshSessionsMayAsk, History, TypeOK
<1> QED BY <1>1, <1>2, <1>3, <1>4 DEF Need

\* No unit for the frame: an unsatisfied request is put back.
LEMMA EncNoOutputKeeps ==
  ASSUME Inv, NEW stalled \in BOOLEAN, EncNoOutput(stalled) PROVE Inv'
<1> USE PipelineAssumption DEF Inv, NoRequestLost, EncNoOutput, qvars, rateVars,
        histVars, KeepAsking
<1>1. TypeOK'
  BY DEF TypeOK
<1>2. Need'
  BY DEF Need, InNeed, HelpOnTheWay, TypeOK
<1>3. BitrateFollows' /\ MailIsCurrent' /\ MainKnows'
  BY DEF BitrateFollows, MailIsCurrent, MainKnows, TypeOK
<1>4. GapsAreFlagged' /\ FreshSessionsMayAsk' /\ History'
  BY DEF GapsAreFlagged, FreshSessionsMayAsk, History, TypeOK
<1> QED BY <1>1, <1>2, <1>3, <1>4 DEF Need

\* A keyframe clears the request and is itself the help; a delta puts an
\* unsatisfied request back.
LEMMA EncOutputKeeps ==
  ASSUME Inv, NEW unit \in Units, EncOutput(unit) PROVE Inv'
<1> USE PipelineAssumption DEF Inv, NoRequestLost, EncOutput, qvars, rateVars,
        histVars, KeepAsking
<1>1. TypeOK'
  BY DEF TypeOK
<1>2. Need'
  BY DEF Need, InNeed, HelpOnTheWay, TypeOK
<1>3. BitrateFollows' /\ MailIsCurrent' /\ MainKnows'
  BY DEF BitrateFollows, MailIsCurrent, MainKnows, TypeOK
<1>4. GapsAreFlagged' /\ FreshSessionsMayAsk' /\ History'
  BY DEF GapsAreFlagged, FreshSessionsMayAsk, History, TypeOK
<1> QED BY <1>1, <1>2, <1>3, <1>4 DEF Need

\* A unit that does not fit sets the ring's mark,
LEMMA EncPushRefusedKeeps ==
  ASSUME Inv, EncPushRefused PROVE Inv'
<1> USE PipelineAssumption DEF Inv, NoRequestLost, EncPushRefused, rateVars, Refuse,
        MayFault
<1>1. TypeOK'
  <2>1. losses' + restarts' \in 0..MaxFaults
    BY DEF TypeOK, History
  <2> QED BY <2>1 DEF TypeOK
<1>2. Need'
  BY DEF Need, InNeed, HelpOnTheWay
<1>3. BitrateFollows' /\ MailIsCurrent' /\ MainKnows'
  BY DEF BitrateFollows, MailIsCurrent, MainKnows, TypeOK
<1>4. GapsAreFlagged' /\ FreshSessionsMayAsk' /\ History'
  BY DEF GapsAreFlagged, FreshSessionsMayAsk, History, TypeOK
<1> QED BY <1>1, <1>2, <1>3, <1>4 DEF Need

\* and the encode thread asks for a keyframe.
LEMMA EncRefusedKeeps ==
  ASSUME Inv, EncRefused PROVE Inv'
<1> USE PipelineAssumption DEF Inv, NoRequestLost, EncRefused, qvars, rateVars,
        histVars, AfterRefusal
<1>1. TypeOK'
  BY DEF TypeOK
<1>2. Need'
  BY DEF Need, InNeed, HelpOnTheWay, TypeOK
<1>3. BitrateFollows' /\ MailIsCurrent' /\ MainKnows'
  BY DEF BitrateFollows, MailIsCurrent, MainKnows, TypeOK
<1>4. GapsAreFlagged' /\ FreshSessionsMayAsk' /\ History'
  BY DEF GapsAreFlagged, FreshSessionsMayAsk, History, TypeOK
<1> QED BY <1>1, <1>2, <1>3, <1>4 DEF Need

-----------------------------------------------------------------------------
(* The sessions *)

\* A new session asks for a keyframe before it streams.
LEMMA OfferKeeps ==
  ASSUME Inv, NEW v \in Viewers, Offer(v) PROVE Inv'
<1> USE PipelineAssumption DEF Inv, NoRequestLost, Offer, qvars, rateVars, histVars,
        threadVars, encVars
<1>1. TypeOK'
  BY DEF TypeOK
<1>2. Need'
  BY DEF Need, InNeed, HelpOnTheWay, TypeOK
<1>3. BitrateFollows' /\ MailIsCurrent' /\ MainKnows'
  BY DEF BitrateFollows, MailIsCurrent, MainKnows, TypeOK
<1>4. GapsAreFlagged' /\ FreshSessionsMayAsk' /\ History'
  BY DEF GapsAreFlagged, FreshSessionsMayAsk, History, TypeOK
<1> QED BY <1>1, <1>2, <1>3, <1>4 DEF Need

\* It begins to wait, and its request is the first one, so that the limit on
\* requests does not swallow it.
LEMMA ConnectedKeeps ==
  ASSUME Inv, NEW v \in Viewers, Connected(v) PROVE Inv'
<1> USE PipelineAssumption DEF Inv, NoRequestLost, Connected, qvars, rateVars,
        histVars, threadVars, encVars, RequestIdr, ForceOnConnect, ForceAfter
<1>1. TypeOK'
  BY Zenon DEF TypeOK
<1>2. Need'
  BY DEF Need, InNeed, HelpOnTheWay, TypeOK, FreshSessionsMayAsk
<1>3. BitrateFollows' /\ MailIsCurrent' /\ MainKnows'
  BY DEF BitrateFollows, MailIsCurrent, MainKnows, TypeOK
<1>4. GapsAreFlagged' /\ FreshSessionsMayAsk' /\ History'
  BY DEF GapsAreFlagged, FreshSessionsMayAsk, History, TypeOK
<1> QED BY <1>1, <1>2, <1>3, <1>4 DEF Need

\* A viewer's request may be swallowed; the state was fine without it.
LEMMA PictureLossKeeps ==
  ASSUME Inv, NEW v \in Viewers, PictureLoss(v) PROVE Inv'
<1> USE PipelineAssumption DEF Inv, NoRequestLost, PictureLoss, qvars, rateVars,
        histVars, threadVars, encVars, RequestIdr, ForceAfter
<1>1. TypeOK'
  BY Zenon DEF TypeOK
<1>2. Need'
  BY DEF Need, InNeed, HelpOnTheWay, TypeOK
<1>3. BitrateFollows' /\ MailIsCurrent' /\ MainKnows'
  BY DEF BitrateFollows, MailIsCurrent, MainKnows, TypeOK
<1>4. GapsAreFlagged' /\ FreshSessionsMayAsk' /\ History'
  BY DEF GapsAreFlagged, FreshSessionsMayAsk, History, TypeOK
<1> QED BY <1>1, <1>2, <1>3, <1>4 DEF Need

\* The limit on requests is over.
LEMMA RateWindowOverKeeps ==
  ASSUME Inv, NEW v \in Viewers, RateWindowOver(v) PROVE Inv'
<1> USE PipelineAssumption DEF Inv, NoRequestLost, RateWindowOver, qvars, rateVars,
        histVars, threadVars, encVars
<1>1. TypeOK'
  <2>1. session' \in [Viewers -> [state : {"off", "connecting", "streaming", "closed"},
                                 waiting : BOOLEAN, recent : BOOLEAN]]
    BY Zenon DEF TypeOK
  <2> QED BY <2>1 DEF TypeOK
<1>2. Need'
  BY DEF Need, InNeed, HelpOnTheWay, TypeOK
<1>3. BitrateFollows' /\ MailIsCurrent' /\ MainKnows'
  BY DEF BitrateFollows, MailIsCurrent, MainKnows, TypeOK
<1>4. GapsAreFlagged' /\ FreshSessionsMayAsk' /\ History'
  BY DEF GapsAreFlagged, FreshSessionsMayAsk, History, TypeOK
<1> QED BY <1>1, <1>2, <1>3, <1>4 DEF Need

\* A closed session needs nothing.
LEMMA ClosedKeeps ==
  ASSUME Inv, NEW v \in Viewers, Closed(v) PROVE Inv'
<1> USE PipelineAssumption DEF Inv, NoRequestLost, Closed, qvars, rateVars, histVars,
        threadVars, encVars
<1>1. TypeOK'
  BY DEF TypeOK
<1>2. Need'
  BY DEF Need, InNeed, HelpOnTheWay, TypeOK
<1>3. BitrateFollows' /\ MailIsCurrent' /\ MainKnows'
  BY DEF BitrateFollows, MailIsCurrent, MainKnows, TypeOK
<1>4. GapsAreFlagged' /\ FreshSessionsMayAsk' /\ History'
  BY DEF GapsAreFlagged, FreshSessionsMayAsk, History, TypeOK
<1> QED BY <1>1, <1>2, <1>3, <1>4 DEF Need

\* The configured bitrate and the mailbox change together.
LEMMA ReloadBitrateKeeps ==
  ASSUME Inv, NEW r \in Rates, ReloadBitrate(r) PROVE Inv'
<1> USE PipelineAssumption DEF Inv, NoRequestLost, ReloadBitrate, qvars, histVars,
        threadVars, encVars
<1>1. TypeOK'
  BY DEF TypeOK
<1>2. Need'
  BY DEF Need, InNeed, HelpOnTheWay, TypeOK
<1>3. BitrateFollows' /\ MailIsCurrent' /\ MainKnows'
  BY DEF BitrateFollows, MailIsCurrent, MainKnows, TypeOK
<1>4. GapsAreFlagged' /\ FreshSessionsMayAsk' /\ History'
  BY DEF GapsAreFlagged, FreshSessionsMayAsk, History, TypeOK
<1> QED BY <1>1, <1>2, <1>3, <1>4 DEF Need

-----------------------------------------------------------------------------
(* The main loop *)

\* The main loop goes on to the queue.
LEMMA EndOfPollKeeps ==
  ASSUME Inv, EndOfPoll PROVE Inv'
<1> USE PipelineAssumption DEF Inv, NoRequestLost, EndOfPoll, qvars, rateVars,
        histVars, threadVars, encVars
<1>1. TypeOK'
  BY DEF TypeOK
<1>2. Need'
  BY DEF Need, InNeed, HelpOnTheWay, TypeOK
<1>3. BitrateFollows' /\ MailIsCurrent' /\ MainKnows'
  BY DEF BitrateFollows, MailIsCurrent, MainKnows, TypeOK
<1>4. GapsAreFlagged' /\ FreshSessionsMayAsk' /\ History'
  BY DEF GapsAreFlagged, FreshSessionsMayAsk, History, TypeOK
<1> QED BY <1>1, <1>2, <1>3, <1>4 DEF Need

\* A unit behind a gap asks for a keyframe, a keyframe mends every streaming
\* viewer, and a viewer that is held back asks.
LEMMA FanOutSendKeeps ==
  ASSUME Inv, FanOutSend PROVE Inv'
<1> USE PipelineAssumption DEF Inv, NoRequestLost, FanOutSend, qvars, rateVars,
        threadVars, encVars, RequestIdr, AfterGap
<1>1. TypeOK'
  BY Zenon DEF TypeOK
<1>2. Need'
  BY DEF Need, InNeed, HelpOnTheWay, TypeOK, MainKnows, Entry
<1>3. BitrateFollows' /\ MailIsCurrent' /\ MainKnows'
  BY DEF BitrateFollows, MailIsCurrent, MainKnows, TypeOK
<1>4. GapsAreFlagged' /\ FreshSessionsMayAsk' /\ History'
  BY DEF GapsAreFlagged, FreshSessionsMayAsk, History, TypeOK
<1> QED BY <1>1, <1>2, <1>3, <1>4 DEF Need

\* Closed sessions are forgotten.
LEMMA ReapKeeps ==
  ASSUME Inv, Reap PROVE Inv'
<1> USE PipelineAssumption DEF Inv, NoRequestLost, Reap, qvars, rateVars, encVars,
        NoSession
<1>1. TypeOK'
  BY DEF TypeOK
<1>2. Need'
  BY DEF Need, InNeed, HelpOnTheWay, TypeOK
<1>3. BitrateFollows' /\ MailIsCurrent' /\ MainKnows'
  BY DEF BitrateFollows, MailIsCurrent, MainKnows, TypeOK
<1>4. GapsAreFlagged' /\ FreshSessionsMayAsk' /\ History'
  BY DEF GapsAreFlagged, FreshSessionsMayAsk, History, TypeOK
<1> QED BY <1>1, <1>2, <1>3, <1>4 DEF Need

\* Nothing to do.
LEMMA SuperviseIdleKeeps ==
  ASSUME Inv, SuperviseIdle PROVE Inv'
<1> USE PipelineAssumption DEF Inv, NoRequestLost, SuperviseIdle, qvars, rateVars,
        histVars, threadVars, encVars
<1>1. TypeOK'
  BY DEF TypeOK
<1>2. Need'
  BY DEF Need, InNeed, HelpOnTheWay, TypeOK
<1>3. BitrateFollows' /\ MailIsCurrent' /\ MainKnows'
  BY DEF BitrateFollows, MailIsCurrent, MainKnows, TypeOK
<1>4. GapsAreFlagged' /\ FreshSessionsMayAsk' /\ History'
  BY DEF GapsAreFlagged, FreshSessionsMayAsk, History, TypeOK
<1> QED BY <1>1, <1>2, <1>3, <1>4 DEF Need

\* The encode thread is told to stop: until the rebuild there is no promise.
LEMMA StopPipelineKeeps ==
  ASSUME Inv, StopPipeline PROVE Inv'
<1> USE PipelineAssumption DEF Inv, NoRequestLost, StopPipeline, qvars, rateVars,
        histVars, MayFault
<1>1. TypeOK'
  <2>1. losses' + restarts' \in 0..MaxFaults
    BY DEF TypeOK, History
  <2> QED BY <2>1, Zenon DEF TypeOK
<1>2. Need'
  BY DEF Need, InNeed, HelpOnTheWay, TypeOK
<1>3. BitrateFollows' /\ MailIsCurrent' /\ MainKnows'
  BY DEF BitrateFollows, MailIsCurrent, MainKnows, TypeOK
<1>4. GapsAreFlagged' /\ FreshSessionsMayAsk' /\ History'
  BY DEF GapsAreFlagged, FreshSessionsMayAsk, History, TypeOK
<1> QED BY <1>1, <1>2, <1>3, <1>4 DEF Need

\* Queue, mailbox and pipeline go together.
LEMMA JoinedKeeps ==
  ASSUME Inv, Joined PROVE Inv'
<1> USE PipelineAssumption DEF Inv, NoRequestLost, Joined, encVars
<1>1. TypeOK'
  <2>1. queue' \in Seq(Entry) /\ Len(queue') <= Capacity /\ Len(gaps') = Len(queue')
    OBVIOUS
  <2> QED BY <2>1, Zenon DEF TypeOK
<1>2. Need'
  BY DEF Need, InNeed, HelpOnTheWay, TypeOK
<1>3. BitrateFollows' /\ MailIsCurrent' /\ MainKnows'
  BY DEF BitrateFollows, MailIsCurrent, MainKnows, TypeOK
<1>4. GapsAreFlagged' /\ FreshSessionsMayAsk' /\ History'
  BY DEF GapsAreFlagged, FreshSessionsMayAsk, History, TypeOK
<1> QED BY <1>1, <1>2, <1>3, <1>4 DEF Need

\* A new encoder at the configured bitrate,
LEMMA StartPipelineKeeps ==
  ASSUME Inv, StartPipeline PROVE Inv'
<1> USE PipelineAssumption DEF Inv, NoRequestLost, StartPipeline, qvars, rateVars,
        RateOfNewEncoder
<1>1. TypeOK'
  BY Zenon DEF TypeOK
<1>2. Need'
  BY DEF Need, InNeed, HelpOnTheWay, MainKnows
<1>3. BitrateFollows' /\ MailIsCurrent' /\ MainKnows'
  BY DEF BitrateFollows, MailIsCurrent, MainKnows, TypeOK
<1>4. GapsAreFlagged' /\ FreshSessionsMayAsk' /\ History'
  BY DEF GapsAreFlagged, FreshSessionsMayAsk, History, TypeOK
<1> QED BY <1>1, <1>2, <1>3, <1>4 DEF Need

\* whose first picture is asked to be a keyframe.
LEMMA PipelineStartedKeeps ==
  ASSUME Inv, PipelineStarted PROVE Inv'
<1> USE PipelineAssumption DEF Inv, NoRequestLost, PipelineStarted, qvars, rateVars,
        histVars, encVars, ForceAfterStart
<1>1. TypeOK'
  BY DEF TypeOK
<1>2. Need'
  BY DEF Need, InNeed, HelpOnTheWay, TypeOK
<1>3. BitrateFollows' /\ MailIsCurrent' /\ MainKnows'
  BY DEF BitrateFollows, MailIsCurrent, MainKnows, TypeOK
<1>4. GapsAreFlagged' /\ FreshSessionsMayAsk' /\ History'
  BY DEF GapsAreFlagged, FreshSessionsMayAsk, History, TypeOK
<1> QED BY <1>1, <1>2, <1>3, <1>4 DEF Need

\* Without a pipeline there is no promise.
LEMMA StartFailsKeeps ==
  ASSUME Inv, StartFails PROVE Inv'
<1> USE PipelineAssumption DEF Inv, NoRequestLost, StartFails, qvars, rateVars,
        histVars, threadVars, encVars
<1>1. TypeOK'
  BY DEF TypeOK
<1>2. Need'
  BY DEF Need, InNeed, HelpOnTheWay, TypeOK
<1>3. BitrateFollows' /\ MailIsCurrent' /\ MainKnows'
  BY DEF BitrateFollows, MailIsCurrent, MainKnows, TypeOK
<1>4. GapsAreFlagged' /\ FreshSessionsMayAsk' /\ History'
  BY DEF GapsAreFlagged, FreshSessionsMayAsk, History, TypeOK
<1> QED BY <1>1, <1>2, <1>3, <1>4 DEF Need

-----------------------------------------------------------------------------
(* The theorems *)

\* Every step of the encode thread, the main loop and the viewers keeps it.
LEMMA NextInv == Inv /\ [Next]_vars => Inv'
<1> SUFFICES ASSUME Inv, [Next]_vars PROVE Inv'
  OBVIOUS
<1>1. CASE Encoder
  BY <1>1, EncExitKeeps, EncTakeKeeps, EncExchangeKeeps, EncFatalKeeps, EncNoOutputKeeps,
     EncOutputKeeps, EncPushKeeps, EncPushRefusedKeeps, EncRefusedKeeps DEF Encoder
<1>2. CASE MainLoop
  BY <1>2, EndOfPollKeeps, FanOutPopKeeps, FanOutSendKeeps, ReapKeeps, SuperviseIdleKeeps,
     JoinedKeeps, StartPipelineKeeps, PipelineStartedKeeps, StartFailsKeeps,
     StopPipelineKeeps DEF MainLoop
<1>3. CASE Environment
  BY <1>3, StopPipelineKeeps, OfferKeeps, ConnectedKeeps, PictureLossKeeps,
     RateWindowOverKeeps, ClosedKeeps, ReloadBitrateKeeps DEF Environment
<1>4. CASE UNCHANGED vars
  BY <1>4 DEF Inv, NoRequestLost, TypeOK, InNeed, HelpOnTheWay, BitrateFollows,
              GapsAreFlagged, FreshSessionsMayAsk, MainKnows, MailIsCurrent, History,
              vars, qvars, encVars, rateVars, histVars
<1> QED BY <1>1, <1>2, <1>3, <1>4 DEF Next

(* Whatever the encode thread clears, the ring overwrites or refuses, and      *)
(* whoever asks when: a viewer in need of a keyframe has one, or a request for *)
(* one, on its way (encoder_thread, au_ring_push, fan_out_access_units,        *)
(* rtc_session_request_idr), for any number of viewers and any capacity.       *)
THEOREM RequestsSurvive == Spec => []NoRequestLost
<1>1. Inv => NoRequestLost
  BY DEF Inv
<1> QED BY <1>1, InitInv, NextInv, PTL DEF Spec

(* However reloads, refusals by the encoder and rebuilds fall together, the    *)
(* encoder works at the configured bitrate once the mailbox is empty           *)
(* (apply_runtime_config, encoder_thread, media_pipeline_start).               *)
THEOREM BitrateIsFollowed == Spec => []BitrateFollows
<1>1. Inv => BitrateFollows
  BY DEF Inv
<1> QED BY <1>1, InitInv, NextInv, PTL DEF Spec
=============================================================================
