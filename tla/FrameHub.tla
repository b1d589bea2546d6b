------------------------------ MODULE FrameHub ------------------------------
(***************************************************************************)
(* src/media/frame_pool.c, src/media/frame_hub.c and the thread of           *)
(* src/media/source_worker.c: raw frames travel from the capture thread       *)
(* through a pool of reference-counted buffers and one keep-newest mailbox    *)
(* per consumer; the main thread tears the pipeline down                      *)
(* (media_pipeline_stop, pipeline_stop) and builds it again.                  *)
(*                                                                         *)
(* Grain: a critical section that touches only what its lock protects is one  *)
(* step.  frame->refcount is different: frame_unref changes it under the pool  *)
(* lock, frame_ref changes it under the hub lock and a consumer lock, which    *)
(* do not exclude frame_unref.  Both are therefore a load step and a store     *)
(* step.  The hub lock is left out: only the capture thread takes it while     *)
(* threads run, and the main thread before and after.                         *)
(***************************************************************************)
EXTENDS Integers, Sequences, FiniteSets

CONSTANTS Buffers,      \* what pool->frames may hold (6 buffers in both servers)
          PoolCounts,   \* the sizes a pool is created with
          Consumers,    \* the subscribers: the encode thread, one in both servers
          ConsumerList, \* hub->consumers, as a sequence
          NoFrame,      \* NULL
          FatalErrors,  \* SOURCE_FATAL_ERRORS
          MaxFrames     \* bound: frames captured per lifetime of the pipeline

ASSUME HubAssumption ==
  /\ IsFiniteSet(Buffers) /\ IsFiniteSet(Consumers)
  /\ NoFrame \notin Buffers
  /\ "source" \notin Consumers /\ "none" \notin Consumers
  /\ PoolCounts \subseteq 1..Cardinality(Buffers)
  /\ FatalErrors \in Nat \ {0}
  /\ MaxFrames \in Nat

VARIABLES freeList,   \* pool->free_list, the last element is popped next
          refcount,   \* frame->refcount, for each buffer of the pool
          pooled,     \* frame->pool_index >= 0
          content,    \* frame->sequence, standing for the pixels too
          poolLock,   \* the thread inside frame_unref, or "none"
          tmp,        \* the reference count a thread has loaded
          slot,       \* consumer->slot
          subscribed, \* the consumers on the hub's list
          src,        \* where the capture thread is
          srcFrame,   \* the frame it publishes
          srcTodo,    \* the consumers it has yet to deliver to
          sequence,   \* its local frame counter
          consecutive,\* its consecutive_errors
          failed,     \* worker->failed
          con,        \* where each consumer thread is
          conFrame,   \* the frame each consumer holds
          conSeen,    \* history: content of the frame taken last
          running,    \* the two running flags: [source, consumer]
          main        \* where the main thread is in the teardown

poolVars == <<freeList, refcount, pooled, content, poolLock, tmp>>
srcVars  == <<src, srcFrame, srcTodo, sequence, consecutive, failed>>
conVars  == <<con, conFrame, conSeen>>
vars     == <<poolVars, slot, subscribed, srcVars, conVars, running, main>>

Threads == {"source"} \cup Consumers
Frames  == Buffers \cup {NoFrame}

\* Which order the buffers start in does not matter: any will do.
SomeOrder == CHOOSE s \in [1..Cardinality(Buffers) -> Buffers] :
               \A b \in Buffers : \E i \in DOMAIN s : s[i] = b

Pool == DOMAIN refcount

\* frame_hub_create, frame_pool_create with n buffers, frame_hub_subscribe and the
\* creation of the two workers.
FreshPipeline(n) ==
  LET pool == {SomeOrder[i] : i \in 1..n}
  IN  [freeList |-> SubSeq(SomeOrder, 1, n),
       refcount |-> [b \in pool |-> 0],
       pooled   |-> [b \in pool |-> TRUE],
       content  |-> [b \in pool |-> 0],
       tmp      |-> [t \in Threads |-> 0],
       slot     |-> [c \in Consumers |-> NoFrame],
       con      |-> [c \in Consumers |-> "loop"],
       conSeen  |-> [c \in Consumers |-> -1],
       running  |-> [source |-> TRUE, consumer |-> TRUE]]

Init == \E fresh \in {FreshPipeline(n) : n \in PoolCounts} :
  /\ freeList = fresh.freeList
  /\ refcount = fresh.refcount
  /\ pooled = fresh.pooled
  /\ content = fresh.content
  /\ poolLock = "none"
  /\ tmp = fresh.tmp
  /\ slot = fresh.slot
  /\ subscribed = Consumers
  /\ src = "loop" /\ srcFrame = NoFrame /\ srcTodo = <<>>
  /\ sequence = 0 /\ consecutive = 0 /\ failed = FALSE
  /\ con = fresh.con
  /\ conFrame = fresh.slot
  /\ conSeen = fresh.conSeen
  /\ running = fresh.running
  /\ main = "run"

-----------------------------------------------------------------------------
(* frame_unref: lock and load, then store, put back, unlock *)

\* Slip: the last reference but one sends the buffer home.
MutGoesHome(b, n) == n <= 1 /\ pooled[b]

\* The count n that is stored is zero: the buffer returns to the pool.
GoesHome(b, n) == n <= 0 /\ pooled[b]

PutBack(b, n) ==
  IF GoesHome(b, n) /\ Len(freeList) < Cardinality(Pool)
  THEN Append(freeList, b) ELSE freeList

UnrefLoad(t, b) ==
  /\ poolLock = "none"
  /\ poolLock' = t
  /\ tmp' = [tmp EXCEPT ![t] = refcount[b]]
  /\ UNCHANGED <<freeList, refcount, pooled, content>>

\* A count that is already zero is a double unref: reported, nothing changes.
UnrefStore(t, b) ==
  LET n == tmp[t] - 1
      double == tmp[t] <= 0
  IN  /\ poolLock = t
      /\ poolLock' = "none"
      /\ refcount' = IF double THEN refcount ELSE [refcount EXCEPT ![b] = n]
      /\ freeList' = IF double THEN freeList ELSE PutBack(b, n)
      /\ pooled' = IF ~double /\ GoesHome(b, n) THEN [pooled EXCEPT ![b] = FALSE]
                                                ELSE pooled
      /\ UNCHANGED <<content, tmp>>

-----------------------------------------------------------------------------
(* source_worker_thread *)

SrcExit ==
  /\ src = "loop" /\ ~running.source
  /\ src' = "exited"
  /\ UNCHANGED <<poolVars, slot, subscribed, srcFrame, srcTodo, sequence,
                 consecutive, failed, conVars, running, main>>

SrcLoop ==
  /\ src = "loop" /\ running.source
  /\ src' = "capture"
  /\ UNCHANGED <<poolVars, slot, subscribed, srcFrame, srcTodo, sequence,
                 consecutive, failed, conVars, running, main>>

TooMany(n) == n >= FatalErrors

\* capture() < 0; `ended' is set when the source is gone for good.
SrcError(ended) ==
  LET fatal == ended \/ TooMany(consecutive + 1)
  IN  /\ src = "capture"
      /\ consecutive' = consecutive + 1
      /\ failed' = (failed \/ fatal)
      /\ src' = IF fatal THEN "exited" ELSE "loop"
      /\ UNCHANGED <<poolVars, slot, subscribed, srcFrame, srcTodo, sequence,
                     conVars, running, main>>

\* capture() = 0: no frame this time.
SrcNone ==
  /\ src = "capture"
  /\ consecutive' = 0
  /\ src' = "loop"
  /\ UNCHANGED <<poolVars, slot, subscribed, srcFrame, srcTodo, sequence, failed,
                 conVars, running, main>>

SrcFrame ==
  /\ src = "capture" /\ sequence < MaxFrames
  /\ consecutive' = 0
  /\ src' = "acquire"
  /\ UNCHANGED <<poolVars, slot, subscribed, srcFrame, srcTodo, sequence, failed,
                 conVars, running, main>>

\* After the publish, whatever its result: release(), sequence++.
EndOfPublish ==
  /\ src' = "loop"
  /\ sequence' = sequence + 1
  /\ srcFrame' = NoFrame

-----------------------------------------------------------------------------
(* frame_hub_publish *)

\* frame_pool_acquire finds every buffer referenced: the frame is dropped.
PubExhausted ==
  /\ src = "acquire"
  /\ freeList = <<>> /\ poolLock = "none"
  /\ EndOfPublish
  /\ UNCHANGED <<poolVars, slot, subscribed, srcTodo, consecutive, failed,
                 conVars, running, main>>

PubAcquire ==
  /\ src = "acquire"
  /\ freeList # <<>> /\ poolLock = "none"
  /\ srcFrame' = freeList[Len(freeList)]
  /\ freeList' = SubSeq(freeList, 1, Len(freeList) - 1)
  /\ src' = "fill"
  /\ UNCHANGED <<refcount, pooled, content, poolLock, tmp, slot, subscribed,
                 srcTodo, sequence, consecutive, failed, conVars, running, main>>

\* The rest of frame_pool_acquire, without the lock, and the copy.
PubFill ==
  /\ src = "fill"
  /\ refcount' = [refcount EXCEPT ![srcFrame] = 1]
  /\ pooled' = [pooled EXCEPT ![srcFrame] = TRUE]
  /\ content' = [content EXCEPT ![srcFrame] = sequence]
  /\ srcTodo' = ConsumerList
  /\ src' = "deliver"
  /\ UNCHANGED <<freeList, poolLock, tmp, slot, subscribed, srcFrame, sequence,
                 consecutive, failed, conVars, running, main>>

\* frame_ref on behalf of the next consumer, under that consumer's lock.
PubRefLoad ==
  /\ src = "deliver" /\ srcTodo # <<>>
  /\ tmp' = [tmp EXCEPT !["source"] = refcount[srcFrame]]
  /\ src' = "ref"
  /\ UNCHANGED <<freeList, refcount, pooled, content, poolLock, slot, subscribed,
                 srcFrame, srcTodo, sequence, consecutive, failed, conVars,
                 running, main>>

FillSlot ==
  /\ slot' = [slot EXCEPT ![Head(srcTodo)] = srcFrame]
  /\ srcTodo' = Tail(srcTodo)
  /\ src' = "deliver"

PubRefStore ==
  /\ src = "ref"
  /\ refcount' = [refcount EXCEPT ![srcFrame] = tmp["source"] + 1]
  /\ IF slot[Head(srcTodo)] = NoFrame
     THEN FillSlot
     ELSE src' = "replace" /\ UNCHANGED <<slot, srcTodo>>
  /\ UNCHANGED <<freeList, pooled, content, poolLock, tmp, subscribed, srcFrame,
                 sequence, consecutive, failed, conVars, running, main>>

\* The previous frame was never taken: it gives way to the new one.
PubReplace ==
  \/ /\ src = "replace"
     /\ UnrefLoad("source", slot[Head(srcTodo)])
     /\ src' = "replacing"
     /\ UNCHANGED <<slot, subscribed, srcFrame, srcTodo, sequence, consecutive,
                    failed, conVars, running, main>>
  \/ /\ src = "replacing"
     /\ UnrefStore("source", slot[Head(srcTodo)])
     /\ FillSlot
     /\ UNCHANGED <<subscribed, srcFrame, sequence, consecutive, failed, conVars,
                    running, main>>

\* The publisher drops its own reference.
PubDrop ==
  \/ /\ src = "deliver" /\ srcTodo = <<>>
     /\ UnrefLoad("source", srcFrame)
     /\ src' = "dropping"
     /\ UNCHANGED <<slot, subscribed, srcFrame, srcTodo, sequence, consecutive,
                    failed, conVars, running, main>>
  \/ /\ src = "dropping"
     /\ UnrefStore("source", srcFrame)
     /\ EndOfPublish
     /\ UNCHANGED <<slot, subscribed, srcTodo, consecutive, failed, conVars,
                    running, main>>

Source == \/ SrcExit \/ SrcLoop \/ SrcNone \/ SrcFrame
          \/ \E ended \in BOOLEAN : SrcError(ended)
          \/ PubExhausted \/ PubAcquire \/ PubFill \/ PubRefLoad \/ PubRefStore
          \/ PubReplace \/ PubDrop

-----------------------------------------------------------------------------
(* A consumer: frame_hub_take_wait in a loop, frame_unref when done with it *)

\* The publisher holds the lock of consumer c.
Locked(c) == src \in {"ref", "replace", "replacing"} /\ Head(srcTodo) = c

\* Slips: the running flag is not looked at again; a frame stays in the mailbox
\* when it is taken.
MutWhileRunning == "wait"
MutSlotAfterTake(c) == slot[c]

WhileRunning == IF running.consumer THEN "wait" ELSE "exited"

SlotAfterTake(c) == NoFrame

ConLoop(c) ==
  /\ con[c] = "loop"
  /\ con' = [con EXCEPT ![c] = WhileRunning]
  /\ UNCHANGED <<poolVars, slot, subscribed, srcVars, conFrame, conSeen, running,
                 main>>

ConTake(c) ==
  /\ con[c] = "wait" /\ ~Locked(c)
  /\ slot[c] # NoFrame
  /\ conFrame' = [conFrame EXCEPT ![c] = slot[c]]
  /\ conSeen' = [conSeen EXCEPT ![c] = content[slot[c]]]
  /\ slot' = [slot EXCEPT ![c] = SlotAfterTake(c)]
  /\ con' = [con EXCEPT ![c] = "use"]
  /\ UNCHANGED <<poolVars, subscribed, srcVars, running, main>>

\* 100 ms without a frame.
ConTimeout(c) ==
  /\ con[c] = "wait" /\ ~Locked(c)
  /\ slot[c] = NoFrame
  /\ con' = [con EXCEPT ![c] = "loop"]
  /\ UNCHANGED <<poolVars, slot, subscribed, srcVars, conFrame, conSeen, running,
                 main>>

ConRelease(c) ==
  \/ /\ con[c] = "use"
     /\ UnrefLoad(c, conFrame[c])
     /\ con' = [con EXCEPT ![c] = "releasing"]
     /\ UNCHANGED <<slot, subscribed, srcVars, conFrame, conSeen, running, main>>
  \/ /\ con[c] = "releasing"
     /\ UnrefStore(c, conFrame[c])
     /\ con' = [con EXCEPT ![c] = "loop"]
     /\ conFrame' = [conFrame EXCEPT ![c] = NoFrame]
     /\ UNCHANGED <<slot, subscribed, srcVars, conSeen, running, main>>

Consumer(c) == ConLoop(c) \/ ConTake(c) \/ ConTimeout(c) \/ ConRelease(c)

-----------------------------------------------------------------------------
(* The main thread: media_pipeline_stop, then a new media_pipeline_start *)

StopSource ==
  /\ main = "run"
  /\ running' = [running EXCEPT !.source = FALSE]
  /\ main' = "joinSource"
  /\ UNCHANGED <<poolVars, slot, subscribed, srcVars, conVars>>

SourceJoined == src = "exited"

StopConsumers ==
  /\ main = "joinSource" /\ SourceJoined
  /\ running' = [running EXCEPT !.consumer = FALSE]
  /\ main' = "joinConsumers"
  /\ UNCHANGED <<poolVars, slot, subscribed, srcVars, conVars>>

\* frame_hub_unsubscribe: the frame left in the mailbox is dropped.
Unsubscribe(c) ==
  /\ main = "joinConsumers" /\ c \in subscribed
  /\ \A d \in Consumers : con[d] = "exited"
  /\ subscribed' = subscribed \ {c}
  /\ IF slot[c] = NoFrame
     THEN UNCHANGED <<refcount, freeList, pooled>>
     ELSE LET n == refcount[slot[c]] - 1
          IN  /\ refcount' = [refcount EXCEPT ![slot[c]] = n]
              /\ freeList' = PutBack(slot[c], n)
              /\ pooled' = [pooled EXCEPT ![slot[c]] = ~GoesHome(slot[c], n)]
  /\ slot' = [slot EXCEPT ![c] = NoFrame]
  /\ UNCHANGED <<content, poolLock, tmp, srcVars, conVars, running, main>>

\* frame_hub_destroy.
Destroy ==
  /\ main = "joinConsumers" /\ subscribed = {}
  /\ main' = "destroyed"
  /\ UNCHANGED <<poolVars, slot, subscribed, srcVars, conVars, running>>

\* media_pipeline_start after a teardown: everything is new.
Rebuild ==
  /\ main = "destroyed"
  /\ LET fresh == FreshPipeline(Cardinality(Pool)) IN
      /\ freeList' = fresh.freeList
      /\ refcount' = fresh.refcount
      /\ pooled' = fresh.pooled
      /\ content' = fresh.content
      /\ poolLock' = "none"
      /\ tmp' = fresh.tmp
      /\ slot' = fresh.slot
      /\ subscribed' = Consumers
      /\ src' = "loop" /\ srcFrame' = NoFrame /\ srcTodo' = <<>>
      /\ sequence' = 0 /\ consecutive' = 0 /\ failed' = FALSE
      /\ con' = fresh.con
      /\ conFrame' = fresh.slot
      /\ conSeen' = fresh.conSeen
      /\ running' = fresh.running
      /\ main' = "run"

Main == StopSource \/ StopConsumers \/ Destroy \/ Rebuild
        \/ \E c \in Consumers : Unsubscribe(c)

Next == Source \/ (\E c \in Consumers : Consumer(c)) \/ Main

Spec == Init /\ [][Next]_vars

(* Threads are scheduled, capture() and the encoder return, and the main thread   *)
(* carries a teardown through once it has begun one.  It need not begin one.     *)
Fairness ==
  /\ WF_vars(Source)
  /\ \A c \in Consumers : WF_vars(Consumer(c))
  /\ WF_vars(Main /\ main # "run" /\ main # "destroyed")

FairSpec == Spec /\ Fairness

-----------------------------------------------------------------------------
(* Properties *)

\* The types of the pool's, the hub's and the threads' state.
TypeOK ==
  /\ freeList \in Seq(Buffers)
  /\ Cardinality(Pool) \in PoolCounts /\ Pool \subseteq Buffers
  /\ refcount \in [Pool -> Int]
  /\ pooled \in [Pool -> BOOLEAN]
  /\ content \in [Pool -> Nat]
  /\ poolLock \in Threads \cup {"none"}
  /\ tmp \in [Threads -> Int]
  /\ slot \in [Consumers -> Frames]
  /\ subscribed \subseteq Consumers
  /\ src \in {"loop", "capture", "acquire", "fill", "deliver", "ref", "replace",
              "replacing", "dropping", "exited"}
  /\ srcFrame \in Frames
  /\ sequence \in Nat /\ consecutive \in 0..FatalErrors /\ failed \in BOOLEAN
  /\ con \in [Consumers -> {"loop", "wait", "use", "releasing", "exited"}]
  /\ conFrame \in [Consumers -> Frames]
  /\ conSeen \in [Consumers -> Nat \cup {-1}]
  /\ main \in {"run", "joinSource", "joinConsumers", "destroyed"}

(* The references to buffer b that exist: mailboxes, consumers at work, and the   *)
(* publisher's own, plus the one it has just taken for a mailbox it has not       *)
(* filled yet.                                                                  *)
Owners(b) ==
  {<<"slot", c>> : c \in {d \in Consumers : slot[d] = b}}
    \cup {<<"use", c>> : c \in {d \in Consumers : conFrame[d] = b}}
    \cup {<<"publisher", i>> :
            i \in {j \in {1, 2} : /\ srcFrame = b /\ src # "fill"
                                  /\ j = 2 => src \in {"replace", "replacing"}}}

\* No thread is between the load and the store of a reference count.
CountsSettled == poolLock = "none" /\ src # "ref"

(* The types hold.  The reference count of a buffer is the number of references, and *)
(* the free list holds exactly the buffers nobody refers to, each once: no buffer *)
(* leaks and none is handed out twice, whatever the interleaving of frame_ref,     *)
(* frame_unref and frame_pool_acquire.  So a pool with a buffer for the publisher *)
(* and two for each consumer is never found empty by frame_hub_publish.  And a    *)
(* consumer at work reads the frame it took: the capture thread never refills a   *)
(* buffer that the encoder still reads (the zero-copy path of encoder_worker.c    *)
(* depends on it).                                                              *)
RefcountExact ==
  /\ TypeOK
  /\ \A c \in Consumers : conFrame[c] # NoFrame => content[conFrame[c]] = conSeen[c]
  /\ CountsSettled =>
       \A b \in Pool :
         /\ ~(src = "fill" /\ srcFrame = b) => refcount[b] = Cardinality(Owners(b))
         /\ Cardinality({i \in DOMAIN freeList : freeList[i] = b}) =
              IF Owners(b) = {} /\ ~(src = "fill" /\ srcFrame = b) THEN 1 ELSE 0
  /\ src = "acquire" /\ Cardinality(Pool) > 2 * Cardinality(Consumers)
       => freeList # <<>>

(* When the hub is destroyed no thread is left in it and every buffer is home.     *)
AllHome ==
  /\ src = "exited" /\ \A c \in Consumers : con[c] = "exited"
  /\ Len(freeList) = Cardinality(Pool)
  /\ \A b \in Pool : refcount[b] = 0

(* A teardown that has begun ends: both joins return, and the hub is destroyed      *)
(* when no thread is left in it and every buffer is home.                         *)
TeardownEnds == main = "joinSource" ~> (main = "destroyed" /\ AllHome)

(* The mailbox never holds back the newest frame: a frame published to a consumer  *)
(* that keeps running is taken by it, or replaced by a newer one, or the pipeline   *)
(* is torn down.                                                                *)
NewestIsTaken ==
  \A c \in Consumers : \A n \in 0..MaxFrames :
    (slot[c] # NoFrame /\ content[slot[c]] = n)
      ~> (slot[c] = NoFrame \/ content[slot[c]] # n)
=============================================================================
