--------------------------- MODULE FrameHubProofs ---------------------------
(***************************************************************************)
(* With one consumer, as in both servers, the reference counts of the      *)
(* frame pool are exact for every number of buffers and frames, although   *)
(* frame_ref and frame_unref change them under different locks.            *)
(***************************************************************************)
EXTENDS FrameHub, Functions, TLAPS

\* The encode thread, the only consumer.
Encode == CHOOSE c \in Consumers : TRUE
OneConsumer == Consumers = {Encode} /\ ConsumerList = <<Encode>>

(* A sequence over a set is one over every larger set.                         *)
LEMMA SeqGrows ==
    ASSUME NEW S, NEW T, S \subseteq T, NEW s \in Seq(S) PROVE s \in Seq(T)
<1>1. \A i \in 1..Len(s) : s[i] \in T
  OBVIOUS
<1> QED BY <1>1

-----------------------------------------------------------------------------
(* The inductive invariant *)

Quiet == {"loop", "capture", "acquire", "exited"}
Taking == {"ref", "replace", "replacing"}    \* inside the consumer's lock

\* Which frame is where.
Placed ==
    /\ src \in Quiet <=> srcFrame = NoFrame
    /\ srcFrame \in Pool \cup {NoFrame}
    /\ slot[Encode] \in Pool \cup {NoFrame} /\ conFrame[Encode] \in Pool \cup {NoFrame}
    /\ srcTodo \in {<<>>, <<Encode>>}
    /\ src \in Taking => srcTodo # <<>>
    /\ srcTodo # <<>> => src \in Taking \cup {"deliver"}
    /\ con[Encode] \in {"use", "releasing"} <=> conFrame[Encode] # NoFrame
    /\ src \in {"replace", "replacing"} => slot[Encode] # NoFrame
    /\ main \in {"joinConsumers", "destroyed"} => src = "exited"
    /\ src # "exited" => consecutive < FatalErrors

\* Frames that two of the threads' variables hold are told apart.
Apart ==
    /\ slot[Encode] # NoFrame => slot[Encode] # conFrame[Encode]
    /\ src = "fill" \/ srcTodo # <<>> => srcFrame \notin {slot[Encode], conFrame[Encode]}

\* What a thread has loaded is still the count when it stores.
Loaded ==
    /\ poolLock = "source" <=> src \in {"replacing", "dropping"}
    /\ poolLock = Encode <=> con[Encode] = "releasing"
    /\ src = "ref" => tmp["source"] = refcount[srcFrame]
    /\ src = "replacing" => tmp["source"] = refcount[slot[Encode]]
    /\ src = "dropping" => tmp["source"] = refcount[srcFrame]
    /\ con[Encode] = "releasing" => tmp[Encode] = refcount[conFrame[Encode]]

One(p) == IF p THEN 1 ELSE 0

References(b) ==
    One(slot[Encode] = b) + One(conFrame[Encode] = b) + One(srcFrame = b /\ src # "fill")
      + One(srcFrame = b /\ src \in {"replace", "replacing"})

Filled(b) == src = "fill" /\ srcFrame = b
Free(b) == slot[Encode] # b /\ conFrame[Encode] # b /\ srcFrame # b

Counted ==
    \A b \in Pool : ~Filled(b) => /\ refcount[b] = References(b)
                                  /\ ~Free(b) => pooled[b]

\* The free list holds each free buffer once.
Homes ==
    /\ freeList \in Seq(Pool) /\ IsInjective(freeList)
    /\ \A b \in Pool : Free(b) <=> \E i \in DOMAIN freeList : freeList[i] = b

Stable == conFrame[Encode] # NoFrame => content[conFrame[Encode]] = conSeen[Encode]

\* TypeOK, by the part of the system that changes it.
PoolTypes ==
    /\ freeList \in Seq(Buffers)
    /\ Cardinality(Pool) \in PoolCounts /\ Pool \subseteq Buffers
    /\ refcount \in [Pool -> Int]
    /\ pooled \in [Pool -> BOOLEAN]
    /\ content \in [Pool -> Nat]
    /\ poolLock \in Threads \cup {"none"}
    /\ tmp \in [Threads -> Int]

SrcTypes ==
    /\ src \in {"loop", "capture", "acquire", "fill", "deliver", "ref", "replace",
                "replacing", "dropping", "exited"}
    /\ srcFrame \in Frames
    /\ sequence \in Nat /\ consecutive \in 0..FatalErrors /\ failed \in BOOLEAN

ConTypes ==
    /\ slot \in [Consumers -> Frames]
    /\ subscribed \subseteq Consumers
    /\ con \in [Consumers -> {"loop", "wait", "use", "releasing", "exited"}]
    /\ conFrame \in [Consumers -> Frames]
    /\ conSeen \in [Consumers -> Nat \cup {-1}]
    /\ main \in {"run", "joinSource", "joinConsumers", "destroyed"}

Inv == PoolTypes /\ SrcTypes /\ ConTypes /\ Placed /\ Apart /\ Loaded /\ Counted /\ Homes /\ Stable

(* A step that changes nothing.                                                *)
LEMMA StutterKeeps ==
    ASSUME Inv, UNCHANGED vars PROVE Inv'
<1> USE DEF Inv, vars
<1>1. PoolTypes' /\ SrcTypes' /\ ConTypes'
  BY Zenon DEF PoolTypes, SrcTypes, ConTypes, Pool, poolVars, srcVars, conVars
<1>2. Placed'
  BY Zenon DEF Placed, Quiet, Taking, Pool, poolVars, srcVars, conVars
<1>3. Apart' /\ Stable' /\ Loaded'
  BY Zenon DEF Apart, Stable, Loaded, poolVars, srcVars, conVars
<1>4. Counted'
  BY Zenon DEF Counted, References, One, Filled, Free, Pool, poolVars, srcVars, conVars
<1>5. Homes'
  BY Zenon DEF Homes, Free, Pool, poolVars, srcVars, conVars
<1> QED BY <1>1, <1>2, <1>3, <1>4, <1>5, Zenon

-----------------------------------------------------------------------------
(* The capture thread *)

(* Steps that only move the capture thread among the places where it holds no  *)
(* frame.                                                                      *)
LEMMA WalksKeep ==
    ASSUME Inv, OneConsumer,
           \/ SrcExit \/ SrcLoop \/ SrcNone \/ SrcFrame \/ PubExhausted
           \/ \E ended \in BOOLEAN : SrcError(ended)
    PROVE  Inv'
<1> USE DEF Inv
<1>1. /\ UNCHANGED <<poolVars, slot, subscribed, srcTodo, conVars, running, main>>
      /\ srcFrame = NoFrame /\ srcFrame' = NoFrame
      /\ src \in Quiet \ {"exited"} /\ src' \in Quiet
  BY Zenon DEF Placed, Quiet, SrcExit, SrcLoop, SrcNone, SrcFrame, PubExhausted, SrcError,
         EndOfPublish
<1>2. /\ consecutive' \in 0..FatalErrors
      /\ src' # "exited" => consecutive' < FatalErrors
  <2>1. /\ FatalErrors \in Nat \ {0} /\ consecutive \in 0..FatalErrors
        /\ src # "exited" => consecutive < FatalErrors
    BY HubAssumption, Zenon DEF SrcTypes, Placed
  <2> QED BY <2>1 DEF SrcExit, SrcLoop, SrcNone, SrcFrame, PubExhausted, SrcError,
               EndOfPublish, TooMany
<1>3. SrcTypes'
  <2>1. sequence' \in Nat
    BY DEF SrcTypes, SrcExit, SrcLoop, SrcNone, SrcFrame, PubExhausted, SrcError,
           EndOfPublish
  <2>2. failed' \in BOOLEAN
    BY ZenonT(30) DEF SrcTypes, SrcExit, SrcLoop, SrcNone, SrcFrame, PubExhausted, SrcError
  <2> QED BY <1>1, <1>2, <2>1, <2>2, Zenon DEF SrcTypes, Quiet, Frames
<1>9. PoolTypes' /\ ConTypes'
  BY <1>1, Zenon DEF PoolTypes, ConTypes, Pool, poolVars, conVars
<1>4. Placed'
  BY <1>1, <1>2, Zenon DEF Inv, Placed, Quiet, Taking, Pool, poolVars, conVars
<1>5. Apart' /\ Stable'
  BY <1>1, Zenon DEF Inv, Placed, Apart, Stable, Quiet, Taking, poolVars, conVars
<1>6. Loaded'
  BY <1>1, Zenon DEF Inv, Loaded, Quiet, poolVars, conVars
<1>7. Counted'
  BY <1>1, Zenon DEF Inv, Counted, References, One, Filled, Free, Pool, Quiet, poolVars, conVars
<1>8. Homes'
  BY <1>1, Zenon DEF Inv, Homes, IsInjective, Free, Pool, poolVars, conVars
<1> QED BY <1>3, <1>4, <1>5, <1>6, <1>7, <1>8, <1>9, Zenon

(* The copy into the buffer disturbs no consumer: the buffer is nobody's.      *)
LEMMA FillKeeps ==
    ASSUME Inv, OneConsumer, PubFill PROVE Inv'
<1> USE DEF Inv
<1>1. /\ src = "fill" /\ src' = "deliver" /\ srcTodo' = <<Encode>>
      /\ refcount' = [refcount EXCEPT ![srcFrame] = 1]
      /\ pooled' = [pooled EXCEPT ![srcFrame] = TRUE]
      /\ content' = [content EXCEPT ![srcFrame] = sequence]
      /\ UNCHANGED <<freeList, poolLock, tmp, slot, subscribed, srcFrame, sequence,
                     consecutive, failed, conVars, running, main>>
      /\ srcFrame \in Pool /\ srcFrame # NoFrame
  BY Zenon DEF PubFill, OneConsumer, Placed, Quiet
<1>2. Pool' = Pool /\ srcFrame \notin {slot[Encode], conFrame[Encode]}
  BY <1>1, Zenon DEF Pool, Apart
<1>3. PoolTypes'
  BY <1>1, <1>2 DEF PoolTypes, SrcTypes
<1>4. SrcTypes' /\ ConTypes'
  BY <1>1, <1>2, Zenon DEF SrcTypes, ConTypes, conVars
<1>5. Placed'
  BY <1>1, <1>2, Zenon DEF Placed, Quiet, Taking, conVars
<1>6. Apart' /\ Loaded'
  BY <1>1, <1>2, Zenon DEF Apart, Loaded, Placed, PoolTypes, Taking, conVars
<1>7. Stable'
  BY <1>1, <1>2, Zenon DEF Stable, PoolTypes, Placed, conVars
<1>8. Counted'
  <2>1. ASSUME NEW b \in Pool PROVE refcount'[b] = References(b)'
    BY <1>1, <1>2, <2>1 DEF Counted, References, One, Filled, PoolTypes, conVars
  <2>2. ASSUME NEW b \in Pool, ~Free(b)' PROVE pooled'[b]
    BY <1>1, <1>2, <2>2, Zenon DEF Counted, Filled, Free, PoolTypes, conVars
  <2> QED BY <2>1, <2>2, <1>2, Zenon DEF Counted
<1>9. Homes'
  BY <1>1, <1>2, Zenon DEF Homes, Free, conVars
<1> QED BY <1>3, <1>4, <1>5, <1>6, <1>7, <1>8, <1>9, Zenon

(* frame_ref: load.                                                            *)
LEMMA RefLoadKeeps ==
    ASSUME Inv, OneConsumer, PubRefLoad PROVE Inv'
<1> USE DEF Inv
<1>1. /\ src = "deliver" /\ src' = "ref" /\ srcTodo # <<>>
      /\ tmp' = [tmp EXCEPT !["source"] = refcount[srcFrame]]
      /\ UNCHANGED <<freeList, refcount, pooled, content, poolLock, slot, subscribed,
                     srcFrame, srcTodo, sequence, consecutive, failed, conVars,
                     running, main>>
      /\ srcFrame \in Pool /\ srcFrame # NoFrame
  BY Zenon DEF PubRefLoad, Placed, Quiet
<1>2. Encode # "source" /\ "source" \in Threads /\ Encode \in Threads
  BY HubAssumption, Zenon DEF OneConsumer, Threads
<1>3. PoolTypes'
  BY <1>1, Zenon DEF PoolTypes, Pool
<1>4. SrcTypes' /\ ConTypes'
  BY <1>1, Zenon DEF SrcTypes, ConTypes, conVars
<1>5. Placed'
  BY <1>1, Zenon DEF Placed, Quiet, Taking, Pool, conVars
<1>6. Apart' /\ Stable'
  BY <1>1, Zenon DEF Apart, Stable, conVars
<1>7. Loaded'
  BY <1>1, <1>2, Zenon DEF Loaded, PoolTypes, conVars
<1>8. Counted'
  BY <1>1, Zenon DEF Counted, References, One, Filled, Free, Pool, conVars
<1>9. Homes'
  BY <1>1, Zenon DEF Homes, Free, Pool, conVars
<1> QED BY <1>3, <1>4, <1>5, <1>6, <1>7, <1>8, <1>9, Zenon

(* frame_ref: store.  The count is the loaded one plus one, since nobody else  *)
(* refers to the frame yet.                                                    *)
LEMMA RefStoreKeeps ==
    ASSUME Inv, OneConsumer, PubRefStore PROVE Inv'
<1> USE DEF Inv
<1>0. /\ src = "ref" /\ srcTodo = <<Encode>> /\ srcFrame \in Pool /\ srcFrame # NoFrame
      /\ tmp["source"] = refcount[srcFrame]
  BY Zenon DEF PubRefStore, Placed, Quiet, Taking, Loaded
<1>1. /\ src = "ref" /\ srcTodo = <<Encode>> /\ srcFrame \in Pool /\ srcFrame # NoFrame
      /\ Head(srcTodo) = Encode /\ Tail(srcTodo) = <<>> /\ <<Encode>> # <<>>
      /\ refcount' = [refcount EXCEPT ![srcFrame] = refcount[srcFrame] + 1]
      /\ UNCHANGED <<freeList, pooled, content, poolLock, tmp, subscribed, srcFrame,
                     sequence, consecutive, failed, conVars, running, main>>
  BY <1>0 DEF PubRefStore
<1>2. /\ Pool' = Pool /\ srcFrame \notin {slot[Encode], conFrame[Encode]}
      /\ refcount[srcFrame] = 1 /\ pooled[srcFrame] /\ NoFrame \notin Pool
      /\ refcount'[srcFrame] = 2
      /\ \A b \in Pool : b # srcFrame => refcount'[b] = refcount[b]
  BY <1>1, HubAssumption
     DEF Pool, Apart, Counted, References, One, Filled, Free, PoolTypes
<1>3. PoolTypes'
  BY <1>1, <1>2 DEF PoolTypes
<1>4. CASE slot[Encode] = NoFrame
  <2>1. /\ slot' = [slot EXCEPT ![Encode] = srcFrame] /\ srcTodo' = <<>>
        /\ src' = "deliver" /\ slot'[Encode] = srcFrame
    BY <1>1, <1>4, Zenon DEF PubRefStore, FillSlot, ConTypes, OneConsumer
  <2>2. SrcTypes' /\ ConTypes'
    BY <1>1, <2>1, Zenon DEF SrcTypes, ConTypes, conVars
  <2>3. Placed'
    BY <1>1, <1>2, <2>1, Zenon DEF Placed, Quiet, Taking, conVars
  <2>4. Apart' /\ Stable'
    BY <1>1, <1>2, <2>1, Zenon DEF Apart, Stable, conVars
  <2>5. Loaded'
    BY <1>1, <1>2, <2>1, Zenon DEF Loaded, Placed, conVars
  <2>6. Counted'
    BY <1>1, <1>2, <1>4, <2>1 DEF Counted, References, One, Filled, Free, conVars
  <2>7. Homes'
    BY <1>1, <1>2, <1>4, <2>1 DEF Homes, Free, conVars
  <2> QED BY <1>3, <2>2, <2>3, <2>4, <2>5, <2>6, <2>7, Zenon
<1>5. CASE slot[Encode] # NoFrame
  <2>1. slot' = slot /\ srcTodo' = srcTodo /\ src' = "replace"
    BY <1>1, <1>5, Zenon DEF PubRefStore
  <2>2. SrcTypes' /\ ConTypes'
    BY <1>1, <2>1, Zenon DEF SrcTypes, ConTypes, conVars
  <2>3. Placed'
    BY <1>1, <1>2, <1>5, <2>1, Zenon DEF Placed, Quiet, Taking, conVars
  <2>4. Apart' /\ Stable'
    BY <1>1, <1>2, <2>1, Zenon DEF Apart, Stable, conVars
  <2>5. Loaded'
    BY <1>1, <1>2, <2>1, Zenon DEF Loaded, Placed, conVars
  <2>6. Counted'
    BY <1>1, <1>2, <2>1 DEF Counted, References, One, Filled, Free, conVars
  <2>7. Homes'
    BY <1>1, <1>2, <2>1, Zenon DEF Homes, Free, conVars
  <2> QED BY <1>3, <2>2, <2>3, <2>4, <2>5, <2>6, <2>7, Zenon
<1> QED BY <1>4, <1>5, Zenon

(* frame_unref of the frame that gives way: lock and load.                     *)
LEMMA ReplaceLoadKeeps ==
    ASSUME Inv, OneConsumer,
           src = "replace", UnrefLoad("source", slot[Head(srcTodo)]), src' = "replacing",
           UNCHANGED <<slot, subscribed, srcFrame, srcTodo, sequence, consecutive,
                       failed, conVars, running, main>>
    PROVE  Inv'
<1> USE DEF Inv
<1>1. Head(srcTodo) = Encode
  BY DEF Placed, Taking
<1>2. /\ Encode # "source" /\ "source" \in Threads /\ Encode \in Threads
      /\ Encode # "none" /\ slot[Encode] \in Pool
  BY HubAssumption, Zenon DEF OneConsumer, Threads, Placed
<1>3. /\ poolLock = "none" /\ poolLock' = "source"
      /\ tmp' = [tmp EXCEPT !["source"] = refcount[slot[Encode]]]
      /\ UNCHANGED <<freeList, refcount, pooled, content>>
  BY <1>1, Zenon DEF UnrefLoad
<1>4. PoolTypes'
  BY <1>2, <1>3, Zenon DEF PoolTypes, Pool
<1>5. SrcTypes' /\ ConTypes'
  BY Zenon DEF SrcTypes, ConTypes, conVars
<1>6. Placed'
  BY <1>3, Zenon DEF Placed, Quiet, Taking, Pool, conVars
<1>7. Apart' /\ Stable'
  BY <1>3, Zenon DEF Apart, Stable, conVars
<1>8. Loaded'
  BY <1>2, <1>3, Zenon DEF Loaded, PoolTypes, conVars
<1>9. Counted'
  BY <1>3, Zenon DEF Counted, References, One, Filled, Free, Pool, conVars
<1>10. Homes'
  BY <1>3, Zenon DEF Homes, Free, Pool, conVars
<1> QED BY <1>4, <1>5, <1>6, <1>7, <1>8, <1>9, <1>10, Zenon

(* The publisher's own reference: lock and load.                               *)
LEMMA DropLoadKeeps ==
    ASSUME Inv, OneConsumer,
           src = "deliver", srcTodo = <<>>, UnrefLoad("source", srcFrame),
           src' = "dropping",
           UNCHANGED <<slot, subscribed, srcFrame, srcTodo, sequence, consecutive,
                       failed, conVars, running, main>>
    PROVE  Inv'
<1> USE DEF Inv
<1>2. /\ Encode # "source" /\ "source" \in Threads /\ Encode \in Threads
      /\ Encode # "none" /\ srcFrame \in Pool
  BY HubAssumption, Zenon DEF OneConsumer, Threads, Placed, Quiet
<1>3. /\ poolLock = "none" /\ poolLock' = "source"
      /\ tmp' = [tmp EXCEPT !["source"] = refcount[srcFrame]]
      /\ UNCHANGED <<freeList, refcount, pooled, content>>
  BY Zenon DEF UnrefLoad
<1>4. PoolTypes'
  BY <1>2, <1>3, Zenon DEF PoolTypes, Pool
<1>5. SrcTypes' /\ ConTypes'
  BY Zenon DEF SrcTypes, ConTypes, conVars
<1>6. Placed'
  BY <1>3, Zenon DEF Placed, Quiet, Taking, Pool, conVars
<1>7. Apart' /\ Stable'
  BY <1>3, Zenon DEF Apart, Stable, conVars
<1>8. Loaded'
  BY <1>2, <1>3, Zenon DEF Loaded, PoolTypes, conVars
<1>9. Counted'
  <2>1. \A x \in Pool : References(x)' = References(x)
    BY Zenon DEF References, One, conVars
  <2>2. \A x \in Pool : ~Filled(x) /\ Free(x)' = Free(x)
    BY Zenon DEF Filled, Free, conVars
  <2> QED BY <1>3, <2>1, <2>2, Zenon DEF Counted, Pool
<1>10. Homes'
  BY <1>3, Zenon DEF Homes, Free, Pool, conVars
<1> QED BY <1>4, <1>5, <1>6, <1>7, <1>8, <1>9, <1>10, Zenon

-----------------------------------------------------------------------------
(* The encode thread and the main thread *)

(* It goes around its loop without a frame.                                    *)
LEMMA ConsumerWalksKeep ==
    ASSUME Inv, OneConsumer, ConLoop(Encode) \/ ConTimeout(Encode) PROVE Inv'
<1> USE DEF Inv
<1>1. /\ UNCHANGED <<poolVars, slot, subscribed, srcVars, conFrame, conSeen, running, main>>
      /\ con[Encode] \in {"loop", "wait"}
      /\ con' \in [Consumers -> {"loop", "wait", "use", "releasing", "exited"}]
      /\ con'[Encode] \in {"loop", "wait", "exited"}
  BY Zenon DEF ConLoop, ConTimeout, WhileRunning, ConTypes, OneConsumer
<1>2. PoolTypes' /\ SrcTypes' /\ ConTypes'
  BY <1>1, Zenon DEF PoolTypes, SrcTypes, ConTypes, Pool, poolVars, srcVars
<1>3. Placed'
  BY <1>1, Zenon DEF Placed, Quiet, Taking, Pool, poolVars, srcVars
<1>4. Apart' /\ Stable' /\ Loaded'
  BY <1>1, Zenon DEF Apart, Stable, Loaded, poolVars, srcVars
<1>5. Counted' /\ Homes'
  BY <1>1, Zenon DEF Counted, Homes, References, One, Filled, Free, Pool, poolVars, srcVars
<1> QED BY <1>2, <1>3, <1>4, <1>5, Zenon

(* frame_hub_take_wait: the reference moves from the mailbox to the thread.    *)
LEMMA TakeKeeps ==
    ASSUME Inv, OneConsumer, ConTake(Encode) PROVE Inv'
<1> USE DEF Inv
<1>1. /\ UNCHANGED <<poolVars, subscribed, srcVars, running, main>>
      /\ con[Encode] = "wait" /\ slot[Encode] # NoFrame /\ ~Locked(Encode)
      /\ slot' = [slot EXCEPT ![Encode] = NoFrame]
      /\ conFrame' = [conFrame EXCEPT ![Encode] = slot[Encode]]
      /\ conSeen' = [conSeen EXCEPT ![Encode] = content[slot[Encode]]]
      /\ con' = [con EXCEPT ![Encode] = "use"]
      /\ Encode \in Consumers
  BY Zenon DEF ConTake, SlotAfterTake, OneConsumer
<1>2. /\ slot'[Encode] = NoFrame /\ conFrame'[Encode] = slot[Encode]
      /\ conSeen'[Encode] = content[slot[Encode]] /\ con'[Encode] = "use"
      /\ conFrame[Encode] = NoFrame /\ slot[Encode] \in Pool /\ NoFrame \notin Pool
  BY <1>1, HubAssumption, Zenon DEF ConTypes, PoolTypes, Placed
<1>3. src \notin Taking
  <2>1. SUFFICES ASSUME src \in Taking PROVE FALSE BY Zenon
  <2>2. srcTodo = <<Encode>> BY <2>1, Zenon DEF Placed
  <2> QED BY <1>1, <2>1, <2>2 DEF Locked, Taking
<1>4. PoolTypes' /\ SrcTypes'
  BY <1>1, Zenon DEF PoolTypes, SrcTypes, Pool, poolVars, srcVars
<1>5. ConTypes'
  BY <1>1, <1>2, Zenon DEF ConTypes, PoolTypes, Frames
<1>6. Placed'
  BY <1>1, <1>2, <1>3, Zenon DEF Placed, Quiet, Taking, Pool, poolVars, srcVars
<1>7. Apart'
  BY <1>1, <1>2, <1>3, Zenon DEF Apart, Placed, Quiet, poolVars, srcVars
<1>8. Stable' /\ Loaded'
  BY <1>1, <1>2, <1>3, Zenon DEF Stable, Loaded, Taking, poolVars, srcVars
<1>9. Counted' /\ Homes'
  BY <1>1, <1>2 DEF Counted, Homes, References, One, Filled, Free, Pool, poolVars, srcVars
<1> QED BY <1>4, <1>5, <1>6, <1>7, <1>8, <1>9, Zenon

(* frame_unref after the encoder: lock and load.                               *)
LEMMA ReleaseLoadKeeps ==
    ASSUME Inv, OneConsumer,
           con[Encode] = "use", UnrefLoad(Encode, conFrame[Encode]),
           con' = [con EXCEPT ![Encode] = "releasing"],
           UNCHANGED <<slot, subscribed, srcVars, conFrame, conSeen, running, main>>
    PROVE  Inv'
<1> USE DEF Inv
<1>1. /\ Encode # "source" /\ "source" \in Threads /\ Encode \in Threads
      /\ Encode # "none" /\ conFrame[Encode] \in Pool /\ Encode \in Consumers
  BY HubAssumption, Zenon DEF OneConsumer, Threads, Placed
<1>2. /\ poolLock = "none" /\ poolLock' = Encode
      /\ tmp' = [tmp EXCEPT ![Encode] = refcount[conFrame[Encode]]]
      /\ UNCHANGED <<freeList, refcount, pooled, content>>
      /\ con'[Encode] = "releasing"
  BY <1>1, Zenon DEF UnrefLoad, ConTypes
<1>3. PoolTypes'
  BY <1>1, <1>2, Zenon DEF PoolTypes, Pool
<1>4. SrcTypes' /\ ConTypes'
  BY <1>2, Zenon DEF SrcTypes, ConTypes, srcVars
<1>5. Placed'
  BY <1>2, Zenon DEF Placed, Quiet, Taking, Pool, srcVars
<1>6. Apart' /\ Stable'
  BY <1>2, Zenon DEF Apart, Stable, srcVars
<1>7. Loaded'
  BY <1>1, <1>2, Zenon DEF Loaded, PoolTypes, srcVars
<1>8. Counted' /\ Homes'
  BY <1>2, Zenon DEF Counted, Homes, References, One, Filled, Free, Pool, srcVars
<1> QED BY <1>3, <1>4, <1>5, <1>6, <1>7, <1>8, Zenon

(* Stopping and joining the threads moves no frame.                            *)
LEMMA StopsKeep ==
    ASSUME Inv, OneConsumer, StopSource \/ StopConsumers \/ Destroy PROVE Inv'
<1> USE DEF Inv
<1>1. /\ UNCHANGED <<poolVars, slot, srcVars, conVars>>
      /\ subscribed' = subscribed
      /\ main' \in {"joinSource", "joinConsumers", "destroyed"}
      /\ main' \in {"joinConsumers", "destroyed"} => src = "exited"
  BY Zenon DEF StopSource, StopConsumers, Destroy, SourceJoined, Placed
<1>2. PoolTypes' /\ SrcTypes' /\ ConTypes'
  BY <1>1, Zenon DEF PoolTypes, SrcTypes, ConTypes, Pool, poolVars, srcVars, conVars
<1>3. Placed'
  BY <1>1, Zenon DEF Placed, Quiet, Taking, Pool, poolVars, srcVars, conVars
<1>4. Apart' /\ Stable' /\ Loaded'
  BY <1>1, Zenon DEF Apart, Stable, Loaded, poolVars, srcVars, conVars
<1>5. Counted' /\ Homes'
  BY <1>1, Zenon DEF Counted, Homes, References, One, Filled, Free, Pool, poolVars, srcVars, conVars
<1> QED BY <1>2, <1>3, <1>4, <1>5, Zenon

-----------------------------------------------------------------------------
(* frame_unref *)

\* The free list after its last part: the buffer is home if its count fell to 0.
ComesHome(b) ==
    /\ freeList' \in Seq(Pool) /\ freeList' \in Seq(Buffers) /\ IsInjective(freeList')
    /\ \A x \in Pool : (\E i \in DOMAIN freeList' : freeList'[i] = x)
                         <=> (Free(x) \/ (x = b /\ refcount[b] = 1))

\* All the steps below need of the list; FrameHubProofs proves it of every step.
PutBackLaw ==
    \A b \in Pool : ~Free(b) /\ refcount[b] > 0 /\ pooled[b] =>
                       (freeList' = PutBack(b, refcount[b] - 1) => ComesHome(b))

(* What a thread inside frame_unref stores, when its loaded count is still the *)
(* count.                                                                      *)
LEMMA StoreKeeps ==
    ASSUME PoolTypes, PutBackLaw, NEW t, NEW b \in Pool, UnrefStore(t, b),
           tmp[t] = refcount[b], refcount[b] > 0, ~Free(b), pooled[b]
    PROVE  /\ refcount' = [refcount EXCEPT ![b] = refcount[b] - 1]
           /\ pooled' \in [Pool -> BOOLEAN]
           /\ \A x \in Pool : pooled[x] /\ (x # b \/ refcount[b] # 1) => pooled'[x]
           /\ ComesHome(b)
<1>1. refcount[b] \in Int /\ pooled \in [Pool -> BOOLEAN]
  BY Zenon DEF PoolTypes
<1>2. ~(tmp[t] <= 0)
  BY <1>1
<1>3. /\ refcount' = [refcount EXCEPT ![b] = refcount[b] - 1]
      /\ freeList' = PutBack(b, refcount[b] - 1)
      /\ pooled' = IF GoesHome(b, refcount[b] - 1) THEN [pooled EXCEPT ![b] = FALSE]
                                                   ELSE pooled
  BY <1>2, Zenon DEF UnrefStore
<1>4. pooled' \in [Pool -> BOOLEAN]
  BY <1>1, <1>3, Zenon
<1>5. \A x \in Pool : pooled[x] /\ (x # b \/ refcount[b] # 1) => pooled'[x]
  BY <1>1, <1>3 DEF GoesHome
<1> QED BY <1>3, <1>4, <1>5, Zenon DEF PutBackLaw

\* One reference to the buffer fewer, in the count ...
CountFalls(b) ==
    /\ Pool' = Pool
    /\ \A x \in Pool : /\ x = b => refcount'[x] = refcount[x] - 1
                       /\ x # b => refcount'[x] = refcount[x]
                       /\ pooled[x] /\ (x # b \/ refcount[b] # 1) => pooled'[x]

\* ... and in the threads' variables, ...
ReferenceGoes(b) ==
    \A x \in Pool : /\ x = b => References(x)' = References(x) - 1
                    /\ x # b => References(x)' = References(x)

\* ... which frees no other buffer.
FreesOnly(b) ==
    \A x \in Pool : /\ Filled(x) => Filled(x)' /\ x # b
                    /\ Free(x)' <=> (Free(x) \/ (x = b /\ refcount[b] = 1))

(* Then the counts stay exact ...                                              *)
LEMMA CountedAgain ==
    ASSUME Counted, NEW b \in Pool, CountFalls(b), ReferenceGoes(b), FreesOnly(b)
    PROVE  Counted'
BY Zenon DEF Counted, CountFalls, ReferenceGoes, FreesOnly

(* ... and the free list holds the free buffers.                               *)
LEMMA HomesAgain ==
    ASSUME NEW b \in Pool, CountFalls(b), ComesHome(b), FreesOnly(b)
    PROVE  Homes'
BY Zenon DEF Homes, CountFalls, ComesHome, FreesOnly

-----------------------------------------------------------------------------
(* frame_hub_publish *)

(* frame_unref of the frame that gives way: store.  The mailbox changes hands  *)
(* from the old frame to the new one.                                          *)
LEMMA ReplaceStoreKeeps ==
    ASSUME Inv, OneConsumer, PutBackLaw,
           src = "replacing", UnrefStore("source", slot[Head(srcTodo)]), FillSlot,
           UNCHANGED <<subscribed, srcFrame, sequence, consecutive, failed, conVars,
                       running, main>>
    PROVE  Inv'
<1> USE DEF Inv
<1> DEFINE old == slot[Encode]
<1>0. srcTodo = <<Encode>> /\ srcFrame \in Pool /\ old \in Pool /\ old # NoFrame
  BY Zenon DEF Placed, Taking, Quiet
<1>1. /\ Head(srcTodo) = Encode /\ Tail(srcTodo) = <<>>
      /\ UnrefStore("source", old)
      /\ slot' = [slot EXCEPT ![Encode] = srcFrame] /\ srcTodo' = <<>> /\ src' = "deliver"
  BY <1>0 DEF FillSlot
<1>2. /\ slot'[Encode] = srcFrame /\ srcFrame # old /\ srcFrame # conFrame[Encode]
      /\ old # conFrame[Encode] /\ tmp["source"] = refcount[old]
  BY <1>0, <1>1, Zenon DEF ConTypes, OneConsumer, Apart, Loaded
<1>3. refcount[old] = 1 /\ pooled[old] /\ ~Free(old)
  BY <1>0, <1>2 DEF Counted, References, One, Filled, Free
<1>4. /\ refcount' = [refcount EXCEPT ![old] = refcount[old] - 1]
      /\ pooled' \in [Pool -> BOOLEAN]
      /\ \A x \in Pool : pooled[x] /\ (x # old \/ refcount[old] # 1) => pooled'[x]
      /\ ComesHome(old)
  <2>1. old \in Pool /\ refcount[old] > 0
    BY <1>0, <1>3
  <2> HIDE DEF old
  <2> QED BY <1>1, <1>2, <1>3, <2>1, StoreKeeps, Zenon
<1>5. /\ poolLock' = "none" /\ poolLock = "source" /\ UNCHANGED <<content, tmp>>
      /\ Pool' = Pool /\ NoFrame \notin Pool
      /\ \A x \in Pool : /\ x = old => refcount'[x] = refcount[x] - 1
                         /\ x # old => refcount'[x] = refcount[x]
  BY <1>0, <1>1, <1>3, <1>4, HubAssumption, SMTT(30) DEF UnrefStore, Pool, PoolTypes
<1> HIDE DEF old
<1>6. PoolTypes'
  <2>1. freeList' \in Seq(Buffers)
    BY <1>4, Zenon DEF ComesHome
  <2> QED BY <1>0, <1>3, <1>4, <1>5, <2>1, SMTT(30) DEF PoolTypes
<1>7. SrcTypes' /\ ConTypes'
  <2>1. SrcTypes'
    BY <1>1, Zenon DEF SrcTypes
  <2>2. ConTypes'
    BY <1>1, Zenon DEF SrcTypes, ConTypes, conVars
  <2> QED BY <2>1, <2>2, Zenon
<1>8. Placed'
  BY <1>0, <1>1, <1>2, <1>5, Zenon DEF Placed, Quiet, Taking, conVars
<1>9. Apart' /\ Stable'
  BY <1>1, <1>2, <1>5, Zenon DEF Apart, Stable, conVars
<1>10. Loaded'
  BY <1>1, <1>5, HubAssumption, Zenon DEF Loaded, OneConsumer, conVars
<1>11. ReferenceGoes(old)
  BY <1>0, <1>1, <1>2 DEF ReferenceGoes, References, One, conVars, old
<1>12. FreesOnly(old)
  BY <1>0, <1>1, <1>2, <1>3, Zenon DEF FreesOnly, Filled, Free, conVars, old
<1>13. CountFalls(old)
  BY <1>4, <1>5, Zenon DEF CountFalls
<1> HIDE DEF Inv
<1>14. Counted' /\ Homes'
  BY <1>0, <1>4, <1>11, <1>12, <1>13, CountedAgain, HomesAgain, Zenon DEF Inv
<1> QED BY <1>6, <1>7, <1>8, <1>9, <1>10, <1>14, Zenon DEF Inv

(* The publisher's own reference: store.  The buffer goes home unless the      *)
(* mailbox or the encoder has it.                                              *)
LEMMA DropStoreKeeps ==
    ASSUME Inv, OneConsumer, PutBackLaw,
           src = "dropping", UnrefStore("source", srcFrame), EndOfPublish,
           UNCHANGED <<slot, subscribed, srcTodo, consecutive, failed, conVars,
                       running, main>>
    PROVE  Inv'
<1> USE DEF Inv
<1> DEFINE old == srcFrame
<1>0. srcTodo = <<>> /\ old \in Pool /\ old # NoFrame
  BY Zenon DEF Placed, Taking, Quiet
<1>1. src' = "loop" /\ srcFrame' = NoFrame /\ sequence' = sequence + 1
  BY Zenon DEF EndOfPublish
<1>2. tmp["source"] = refcount[old]
  BY Zenon DEF Loaded
<1>3. /\ refcount[old] = 1 + One(slot[Encode] = old) + One(conFrame[Encode] = old)
      /\ pooled[old] /\ ~Free(old)
  BY <1>0 DEF Counted, References, One, Filled, Free
<1>4. /\ refcount' = [refcount EXCEPT ![old] = refcount[old] - 1]
      /\ pooled' \in [Pool -> BOOLEAN]
      /\ \A x \in Pool : pooled[x] /\ (x # old \/ refcount[old] # 1) => pooled'[x]
      /\ ComesHome(old)
  <2>1. old \in Pool /\ refcount[old] > 0
    BY <1>0, <1>3 DEF One
  <2> QED BY <1>2, <1>3, <2>1, StoreKeeps, Zenon
<1>5. /\ poolLock' = "none" /\ poolLock = "source" /\ UNCHANGED <<content, tmp>>
      /\ Pool' = Pool /\ NoFrame \notin Pool
      /\ \A x \in Pool : /\ x = old => refcount'[x] = refcount[x] - 1
                         /\ x # old => refcount'[x] = refcount[x]
  BY <1>0, <1>4, HubAssumption, Zenon DEF UnrefStore, Pool, PoolTypes
<1>6. PoolTypes'
  <2>1. freeList' \in Seq(Buffers)
    BY <1>4, Zenon DEF ComesHome
  <2> QED BY <1>0, <1>4, <1>5, <2>1 DEF PoolTypes
<1>7. SrcTypes' /\ ConTypes'
  BY <1>1 DEF SrcTypes, ConTypes, Frames, conVars
<1>8. Placed'
  BY <1>0, <1>1, <1>5, Zenon DEF Placed, Quiet, Taking, conVars
<1>9. Apart' /\ Stable'
  BY <1>0, <1>1, <1>5, Zenon DEF Apart, Stable, conVars
<1>10. Loaded'
  BY <1>1, <1>5, HubAssumption, Zenon DEF Loaded, OneConsumer, conVars
<1>11. ReferenceGoes(old)
  BY <1>0, <1>1, <1>5 DEF ReferenceGoes, References, One, conVars
<1>12. FreesOnly(old)
  BY <1>0, <1>1, <1>3, <1>5 DEF FreesOnly, Filled, Free, One, conVars
<1> HIDE DEF old
<1>13. CountFalls(old)
  BY <1>4, <1>5, Zenon DEF CountFalls
<1> HIDE DEF Inv
<1>14. Counted' /\ Homes'
  BY <1>0, <1>4, <1>11, <1>12, <1>13, CountedAgain, HomesAgain, Zenon DEF Inv
<1> QED BY <1>6, <1>7, <1>8, <1>9, <1>10, <1>14, Zenon DEF Inv
-----------------------------------------------------------------------------
(* The encode thread and the main thread give a reference back *)

(* frame_unref after the encoder: store.  The publisher may be between its own *)
(* load and store, but of another frame.                                       *)
LEMMA ReleaseStoreKeeps ==
    ASSUME Inv, OneConsumer, PutBackLaw,
           con[Encode] = "releasing", UnrefStore(Encode, conFrame[Encode]),
           con' = [con EXCEPT ![Encode] = "loop"],
           conFrame' = [conFrame EXCEPT ![Encode] = NoFrame],
           UNCHANGED <<slot, subscribed, srcVars, conSeen, running, main>>
    PROVE  Inv'
<1> USE DEF Inv
<1> DEFINE old == conFrame[Encode]
<1>0. old \in Pool /\ old # NoFrame /\ Encode \in Consumers
  BY Zenon DEF Placed, OneConsumer
<1>1. /\ conFrame'[Encode] = NoFrame /\ con'[Encode] = "loop" /\ old # slot[Encode]
      /\ tmp[Encode] = refcount[old]
      /\ src = "fill" \/ srcTodo # <<>> => srcFrame # old
  <2>1. conFrame'[Encode] = NoFrame /\ con'[Encode] = "loop"
    BY <1>0, Zenon DEF ConTypes
  <2> QED BY <1>0, <2>1, Zenon DEF Apart, Loaded
<1>2. src \notin Taking \/ srcFrame # old
  BY <1>1, Zenon DEF Placed
<1>3. /\ refcount[old] = 1 + One(srcFrame = old)
      /\ pooled[old] /\ ~Free(old)
  <2>1. ~Free(old) /\ ~Filled(old)
    BY <1>1, Zenon DEF Free, Filled
  <2>2. refcount[old] = References(old) /\ pooled[old]
    BY <1>0, <2>1, Zenon DEF Counted
  <2>3. References(old) = 1 + One(srcFrame = old)
    BY <1>1, <1>2, <2>1 DEF References, One, Filled, Taking
  <2> QED BY <2>1, <2>2, <2>3, Zenon
<1>4. /\ refcount' = [refcount EXCEPT ![old] = refcount[old] - 1]
      /\ pooled' \in [Pool -> BOOLEAN]
      /\ \A x \in Pool : pooled[x] /\ (x # old \/ refcount[old] # 1) => pooled'[x]
      /\ ComesHome(old)
  <2>1. old \in Pool /\ refcount[old] > 0 /\ UnrefStore(Encode, old)
    BY <1>0, <1>3 DEF One
  <2> HIDE DEF old
  <2> QED BY <1>1, <1>3, <2>1, StoreKeeps, Zenon
<1>5. /\ poolLock' = "none" /\ poolLock = Encode /\ UNCHANGED <<content, tmp>>
      /\ Pool' = Pool /\ NoFrame \notin Pool
      /\ \A x \in Pool : /\ x = old => refcount'[x] = refcount[x] - 1
                         /\ x # old => refcount'[x] = refcount[x]
  BY <1>0, <1>4, HubAssumption, Zenon DEF UnrefStore, Pool, PoolTypes
<1> HIDE DEF old
<1>6. PoolTypes'
  <2>1. freeList' \in Seq(Buffers)
    BY <1>4, Zenon DEF ComesHome
  <2> QED BY <1>0, <1>4, <1>5, <2>1, SMTT(30) DEF PoolTypes
<1>7. SrcTypes' /\ ConTypes'
  BY ZenonT(30) DEF SrcTypes, ConTypes, Frames, srcVars
<1>8. Placed'
  BY <1>1, <1>5 DEF Placed, Quiet, Taking, srcVars
<1>9. Apart' /\ Stable'
  BY <1>1, <1>5, HubAssumption DEF Apart, Stable, Placed, PoolTypes, Quiet, Taking, srcVars
<1>10. Loaded'
  BY <1>0, <1>1, <1>2, <1>5, HubAssumption, SMTT(30)
     DEF Loaded, Placed, OneConsumer, Taking, Quiet, srcVars
<1>11. ReferenceGoes(old)
  BY <1>0, <1>1, <1>5 DEF ReferenceGoes, References, One, srcVars, old
<1>12. FreesOnly(old)
  BY <1>0, <1>1, <1>3, <1>5 DEF FreesOnly, Filled, Free, One, srcVars, old
<1>13. CountFalls(old)
  BY <1>4, <1>5, Zenon DEF CountFalls
<1> HIDE DEF Inv
<1>14. Counted' /\ Homes'
  BY <1>0, <1>4, <1>11, <1>12, <1>13, CountedAgain, HomesAgain, Zenon DEF Inv
<1> QED BY <1>6, <1>7, <1>8, <1>9, <1>10, <1>14, Zenon DEF Inv

(* frame_hub_unsubscribe, when both threads have ended: a frame left in the    *)
(* mailbox has its last reference there and goes home.                         *)
LEMMA UnsubscribeKeeps ==
    ASSUME Inv, OneConsumer, PutBackLaw, Unsubscribe(Encode) PROVE Inv'
<1> USE DEF Inv
<1> DEFINE old == slot[Encode]
<1>1. /\ UNCHANGED <<content, poolLock, tmp, srcVars, conVars, running, main>>
      /\ slot' = [slot EXCEPT ![Encode] = NoFrame] /\ subscribed' \subseteq subscribed
      /\ con[Encode] = "exited" /\ main = "joinConsumers" /\ Encode \in Consumers
  BY Zenon DEF Unsubscribe, OneConsumer
<1>2. /\ slot'[Encode] = NoFrame /\ src = "exited" /\ srcFrame = NoFrame
      /\ conFrame[Encode] = NoFrame /\ NoFrame \notin Pool /\ srcTodo = <<>>
  BY <1>1, HubAssumption, Zenon DEF ConTypes, PoolTypes, Placed, Quiet, Taking
<1>3. SrcTypes' /\ ConTypes'
  BY <1>1, Zenon DEF SrcTypes, ConTypes, Frames, srcVars, conVars
<1>4. Apart' /\ Stable' /\ Loaded'
  <2>1. Apart'
    BY <1>1, <1>2, Zenon DEF Apart, srcVars, conVars
  <2>2. Stable'
    BY <1>1, <1>2, Zenon DEF Stable, conVars
  <2>3. Loaded'
    BY <1>1, <1>2, Zenon DEF Loaded, srcVars, conVars
  <2> QED BY <2>1, <2>2, <2>3, Zenon
<1>5. CASE old = NoFrame
  <2>1. UNCHANGED <<refcount, freeList, pooled>>
    BY <1>5, Zenon DEF Unsubscribe
  <2>2. PoolTypes'
    BY <1>1, <2>1, Zenon DEF PoolTypes, Pool
  <2>3. Placed'
    BY <1>1, <1>2, <2>1, Zenon DEF Placed, Quiet, Taking, Pool, srcVars, conVars
  <2>4. Counted' /\ Homes'
    BY <1>1, <1>2, <1>5, <2>1, Zenon
       DEF Counted, Homes, References, One, Filled, Free, Pool, srcVars, conVars
  <2> QED BY <1>3, <1>4, <2>2, <2>3, <2>4, Zenon
<1>6. CASE old # NoFrame
  <2>1. old \in Pool /\ refcount[old] = 1 /\ pooled[old] /\ ~Free(old)
    BY <1>2, <1>6 DEF Placed, Counted, References, One, Filled, Free
  <2>2. /\ refcount' = [refcount EXCEPT ![old] = refcount[old] - 1]
        /\ freeList' = PutBack(old, refcount[old] - 1)
        /\ pooled' = [pooled EXCEPT ![old] = ~GoesHome(old, refcount[old] - 1)]
    BY <1>6, Zenon DEF Unsubscribe
  <2>3. ComesHome(old)
    <3>1. refcount[old] > 0 BY <2>1
    <3> HIDE DEF old
    <3> QED BY <2>1, <2>2, <3>1, Zenon DEF PutBackLaw
  <2>4. /\ Pool' = Pool /\ refcount'[old] = 0
        /\ \A x \in Pool : x # old => refcount'[x] = refcount[x]
    BY <2>1, <2>2 DEF Pool, PoolTypes
  <2>5. /\ pooled' \in [Pool -> BOOLEAN]
        /\ \A x \in Pool : x # old /\ pooled[x] => pooled'[x]
    BY <2>1, <2>2, Zenon DEF PoolTypes
  <2> HIDE DEF old
  <2>6. PoolTypes'
    <3>1. freeList' \in Seq(Buffers)
      BY <2>3, Zenon DEF ComesHome
    <3> QED BY <1>1, <2>1, <2>2, <2>4, <2>5, <3>1 DEF PoolTypes
  <2>7. Placed'
    BY <1>1, <1>2, <2>4, Zenon DEF Placed, Quiet, Taking, srcVars, conVars
  <2>8. Counted'
    <3>1. /\ slot'[Encode] = NoFrame /\ conFrame'[Encode] = NoFrame
          /\ srcFrame' = NoFrame /\ src' = "exited"
      BY <1>1, <1>2, Zenon DEF srcVars, conVars
    <3>2. \A x \in Pool : References(x)' = 0 /\ Free(x)'
      BY <1>2, <3>1 DEF References, One, Free
    <3>3. \A x \in Pool : x # old => refcount[x] = 0
      BY <1>2 DEF Counted, References, One, Filled, old
    <3> QED BY <2>4, <3>2, <3>3, Zenon DEF Counted
  <2>9. Homes'
    <3>1. FreesOnly(old)
      BY <1>1, <1>2, <2>1, Zenon DEF FreesOnly, Filled, Free, srcVars, conVars, old
    <3>2. CountFalls(old)
      BY <2>1, <2>4, <2>5 DEF CountFalls
    <3> QED BY <2>1, <2>3, <3>1, <3>2, HomesAgain, Zenon
  <2> QED BY <1>3, <1>4, <2>6, <2>7, <2>8, <2>9, Zenon
<1> QED BY <1>5, <1>6, Zenon

-----------------------------------------------------------------------------
(* The free list *)

(* A buffer that is not on the list goes to its end: frame_unref.              *)
LEMMA AppendKeeps ==
    ASSUME NEW S, NEW list \in Seq(S), IsInjective(list), NEW b \in S,
           \A i \in DOMAIN list : list[i] # b,
           NEW more, more = Append(list, b)
    PROVE  /\ more \in Seq(S) /\ IsInjective(more)
           /\ \A x : (\E i \in DOMAIN more : more[i] = x)
                       <=> (x = b \/ \E i \in DOMAIN list : list[i] = x)
<1>1. /\ more \in Seq(S) /\ Len(list) \in Nat /\ Len(more) = Len(list) + 1
      /\ DOMAIN list = 1..Len(list) /\ DOMAIN more = 1..(Len(list) + 1)
      /\ more[Len(list) + 1] = b
      /\ \A i \in 1..Len(list) : more[i] = list[i]
  OBVIOUS
<1>2. IsInjective(more)
  BY <1>1 DEF IsInjective
<1>3. ASSUME NEW x PROVE (\E i \in DOMAIN more : more[i] = x)
                          <=> (x = b \/ \E i \in DOMAIN list : list[i] = x)
  <2>1. ASSUME NEW i \in DOMAIN more, more[i] = x
        PROVE  x = b \/ \E k \in DOMAIN list : list[k] = x
    <3>1. i \in DOMAIN list \/ i = Len(list) + 1 BY <1>1
    <3> QED BY <3>1, <2>1, <1>1, Zenon
  <2>2. ASSUME NEW k \in DOMAIN list, list[k] = x
        PROVE  \E i \in DOMAIN more : more[i] = x
    <3>1. k \in DOMAIN more /\ more[k] = x BY <1>1, <2>2
    <3> QED BY <3>1, Zenon
  <2>3. b = x => \E i \in DOMAIN more : more[i] = x
    <3>1. Len(list) + 1 \in DOMAIN more BY <1>1
    <3> QED BY <3>1, <1>1, Zenon
  <2> QED BY <2>1, <2>2, <2>3, Zenon
<1> QED BY <1>1, <1>2, <1>3, Zenon

(* The last buffer leaves the list: frame_pool_acquire.                        *)
LEMMA PopKeeps ==
    ASSUME NEW S, NEW list \in Seq(S), IsInjective(list), list # <<>>
    PROVE  /\ list[Len(list)] \in S
           /\ SubSeq(list, 1, Len(list) - 1) \in Seq(S)
           /\ IsInjective(SubSeq(list, 1, Len(list) - 1))
           /\ \E i \in DOMAIN list : list[i] = list[Len(list)]
           /\ \A x : (\E i \in DOMAIN SubSeq(list, 1, Len(list) - 1) :
                           SubSeq(list, 1, Len(list) - 1)[i] = x)
                       <=> (x # list[Len(list)] /\ \E i \in DOMAIN list : list[i] = x)
<1> DEFINE less == SubSeq(list, 1, Len(list) - 1)
           last == list[Len(list)]
<1>1. Len(list) \in Nat \ {0} /\ DOMAIN list = 1..Len(list)
  OBVIOUS
<1>2. /\ less \in Seq(S) /\ Len(less) = Len(list) - 1
      /\ DOMAIN less = 1..(Len(list) - 1)
      /\ \A i \in 1..(Len(list) - 1) : less[i] = list[i]
  BY <1>1
<1>3. last \in S /\ Len(list) \in DOMAIN list
  BY <1>1
<1> HIDE DEF less
<1>4. IsInjective(less)
  BY <1>1, <1>2 DEF IsInjective
<1>5. ASSUME NEW x PROVE (\E i \in DOMAIN less : less[i] = x)
                          <=> (x # last /\ \E i \in DOMAIN list : list[i] = x)
  <2>1. ASSUME NEW i \in DOMAIN less, less[i] = x
        PROVE  x # last /\ \E k \in DOMAIN list : list[k] = x
    <3>1. i \in DOMAIN list /\ list[i] = x /\ i # Len(list) BY <1>1, <1>2, <2>1
    <3>2. x # last BY <3>1, <1>3, Zenon DEF IsInjective
    <3> QED BY <3>1, <3>2, Zenon
  <2>2. ASSUME x # last, NEW k \in DOMAIN list, list[k] = x
        PROVE  \E i \in DOMAIN less : less[i] = x
    <3>1. k # Len(list) BY <2>2, Zenon
    <3>2. k \in DOMAIN less /\ less[k] = x BY <1>1, <1>2, <2>2, <3>1
    <3> QED BY <3>2, Zenon
  <2> QED BY <2>1, <2>2, Zenon
<1> QED BY <1>2, <1>3, <1>4, <1>5, Zenon DEF less

INSTANCE FiniteSetTheorems

(* A list without repetitions that misses a buffer has room for it: the check  *)
(* of frame_pool_put against pool->frame_count never refuses one.              *)
LEMMA RoomForMissing ==
    ASSUME NEW S, IsFiniteSet(S), NEW list \in Seq(S), IsInjective(list), NEW b \in S,
           \A i \in DOMAIN list : list[i] # b
    PROVE  Len(list) < Cardinality(S)
<1>1. Len(list) \in Nat /\ DOMAIN list = 1..Len(list) /\ list \in [1..Len(list) -> S]
  OBVIOUS
<1>2. list \in Injection(1..Len(list), S)
  BY <1>1, Zenon DEF Injection, IsInjective
<1>3. list \notin Surjection(1..Len(list), S)
  BY <1>1, Zenon DEF Surjection
<1>4. /\ Cardinality(1..Len(list)) <= Cardinality(S)
      /\ Cardinality(1..Len(list)) # Cardinality(S)
  BY <1>2, <1>3, FS_Injection, Zenon
<1>5. Cardinality(1..Len(list)) = Len(list)
  <2>0. 1 \in Int /\ Len(list) \in Int
    BY <1>1
  <2>1. Cardinality(1..Len(list)) = IF 1 > Len(list) THEN 0 ELSE Len(list) - 1 + 1
    BY <2>0, FS_Interval, Zenon
  <2> QED BY <2>1, <1>1
<1>6. Cardinality(S) \in Nat
  BY FS_CardinalityType, Zenon
<1> QED BY <1>4, <1>5, <1>6, <1>1

(* frame_unref's last part: what the stored count does to the free list.       *)
LEMMA PutBackKeeps ==
    ASSUME PoolTypes, Homes, NEW b \in Pool, ~Free(b), refcount[b] > 0, pooled[b],
           freeList' = PutBack(b, refcount[b] - 1)
    PROVE  ComesHome(b)
<1>1. refcount[b] \in Int /\ IsFiniteSet(Pool)
  BY HubAssumption, FS_Subset, Zenon DEF PoolTypes
<1>2. CASE refcount[b] = 1
  <2>1. \A i \in DOMAIN freeList : freeList[i] # b
    BY Zenon DEF Homes
  <2>0. freeList \in Seq(Pool) /\ IsInjective(freeList)
    BY Zenon DEF Homes
  <2>2. Len(freeList) < Cardinality(Pool)
    BY <1>1, <2>0, <2>1, RoomForMissing, Zenon
  <2>3. freeList' = Append(freeList, b)
    BY <1>2, <2>2 DEF PutBack, GoesHome
  <2>4. /\ freeList' \in Seq(Pool) /\ IsInjective(freeList')
        /\ \A x : (\E i \in DOMAIN freeList' : freeList'[i] = x)
                    <=> (x = b \/ \E i \in DOMAIN freeList : freeList[i] = x)
    BY <2>0, <2>1, <2>3, AppendKeeps, SMTT(30)
  <2>5. freeList' \in Seq(Buffers)
    BY <2>4, SeqGrows DEF PoolTypes
  <2> QED BY <2>4, <2>5, <1>2, ZenonT(30) DEF Homes, ComesHome
<1>3. CASE refcount[b] # 1
  <2>1. freeList' = freeList
    BY <1>1, <1>3 DEF PutBack, GoesHome
  <2> QED BY <2>1, <1>3, Zenon DEF Homes, PoolTypes, ComesHome
<1> QED BY <1>2, <1>3, Zenon

(* frame_pool_acquire hands out a buffer nobody refers to.                     *)
LEMMA AcquireKeeps ==
    ASSUME Inv, OneConsumer, PubAcquire PROVE Inv'
<1> USE DEF Inv
<1> DEFINE less == SubSeq(freeList, 1, Len(freeList) - 1)
           last == freeList[Len(freeList)]
<1>1. /\ freeList' = less /\ srcFrame' = last /\ srcFrame = NoFrame
      /\ src = "acquire" /\ src' = "fill" /\ srcTodo = <<>>
      /\ UNCHANGED <<refcount, pooled, content, poolLock, tmp, slot, subscribed,
                     srcTodo, sequence, consecutive, failed, conVars, running, main>>
  BY Zenon DEF PubAcquire, Placed, Quiet, Taking
<1>2. /\ last \in Pool /\ less \in Seq(Pool) /\ IsInjective(less)
      /\ \E i \in DOMAIN freeList : freeList[i] = last
      /\ \A x : (\E i \in DOMAIN less : less[i] = x)
                  <=> (x # last /\ \E i \in DOMAIN freeList : freeList[i] = x)
  <2>1. freeList \in Seq(Pool) /\ IsInjective(freeList) /\ freeList # <<>>
    BY Zenon DEF Homes, PubAcquire
  <2> QED BY <2>1, PopKeeps, Zenon
<1> HIDE DEF less, last
<1>3. Free(last) /\ last # NoFrame /\ NoFrame \notin Pool
  BY <1>2, HubAssumption, Zenon DEF Homes, PoolTypes
<1>4. PoolTypes'
  <2>1. less \in Seq(Buffers)
    BY <1>2, SeqGrows, Zenon DEF PoolTypes
  <2> QED BY <1>1, <2>1, Zenon DEF PoolTypes, Pool
<1>5. SrcTypes' /\ ConTypes'
  BY <1>1, <1>2, Zenon DEF SrcTypes, ConTypes, PoolTypes, Frames, conVars
<1>6. Placed'
  BY <1>1, <1>2, <1>3, Zenon DEF Placed, Quiet, Taking, Pool, conVars
<1>7. Apart' /\ Stable' /\ Loaded'
  BY <1>1, <1>3, Zenon DEF Apart, Stable, Loaded, Free, Taking, conVars
<1>8. Counted'
  BY <1>1, <1>3, Zenon DEF Counted, References, One, Filled, Free, Pool, conVars
<1>9. Homes'
  BY <1>1, <1>2, <1>3, ZenonT(30) DEF Homes, Free, Pool, conVars
<1> QED BY <1>4, <1>5, <1>6, <1>7, <1>8, <1>9, Zenon

-----------------------------------------------------------------------------
(* A new pipeline *)

(* The buffers of the model come in some order, each once.                     *)
LEMMA OrderIsBijection ==
    /\ Cardinality(Buffers) \in Nat
    /\ SomeOrder \in [1..Cardinality(Buffers) -> Buffers]
    /\ IsInjective(SomeOrder)
<1> DEFINE N == Cardinality(Buffers)
<1>1. N \in Nat /\ ExistsBijection(1..N, Buffers)
  BY HubAssumption, FS_CardinalityType, Zenon
<1> HIDE DEF N
<1>2. \E s \in [1..N -> Buffers] : \A b \in Buffers : \E i \in DOMAIN s : s[i] = b
  BY <1>1, SMTT(30) DEF ExistsBijection, Bijection, Surjection
<1>3. /\ SomeOrder \in [1..N -> Buffers]
      /\ \A b \in Buffers : \E i \in DOMAIN SomeOrder : SomeOrder[i] = b
  BY <1>2, Zenon DEF SomeOrder, N
<1>4. SomeOrder \in Surjection(1..N, Buffers)
  BY <1>3, Zenon DEF Surjection
<1>5. IsFiniteSet(1..N) /\ Cardinality(1..N) = Cardinality(Buffers)
  <2>1. 1 \in Int /\ N \in Int BY <1>1
  <2>2. /\ IsFiniteSet(1..N)
        /\ Cardinality(1..N) = IF 1 > N THEN 0 ELSE N - 1 + 1
    BY <2>1, FS_Interval, Zenon
  <2>3. Cardinality(1..N) = N BY <2>2, <1>1
  <2> QED BY <2>2, <2>3, Zenon DEF N
<1>6. SomeOrder \in Injection(1..N, Buffers)
  BY <1>4, <1>5, FS_SurjSameCardinalityImpliesInj, Zenon
<1> QED BY <1>1, <1>3, <1>6, Zenon DEF Injection, N

FreshBuffers(n) == {SomeOrder[i] : i \in 1..n}
FreshList(n) == SubSeq(SomeOrder, 1, n)

(* frame_pool_create: n buffers, all on the free list.                         *)
LEMMA FreshPool ==
    ASSUME NEW n \in PoolCounts
    PROVE  /\ FreshBuffers(n) \subseteq Buffers /\ Cardinality(FreshBuffers(n)) = n
           /\ FreshList(n) \in Seq(FreshBuffers(n)) /\ FreshList(n) \in Seq(Buffers)
           /\ IsInjective(FreshList(n))
           /\ \A b \in FreshBuffers(n) :
                \E i \in DOMAIN FreshList(n) : FreshList(n)[i] = b
<1> DEFINE pool == FreshBuffers(n)
           list == FreshList(n)
<1>1. n \in Nat /\ n >= 1 /\ n <= Cardinality(Buffers) /\ Cardinality(Buffers) \in Nat
  BY OrderIsBijection, HubAssumption
<1>2. /\ SomeOrder \in [1..Cardinality(Buffers) -> Buffers] /\ IsInjective(SomeOrder)
      /\ \A i \in 1..n : i \in 1..Cardinality(Buffers)
  BY <1>1, OrderIsBijection
<1>3. /\ list \in [1..n -> pool] /\ \A i \in 1..n : list[i] = SomeOrder[i]
  <2>1. list = [i \in 1..n |-> SomeOrder[i]]
    BY <1>1, <1>2 DEF FreshList
  <2> QED BY <2>1, Zenon DEF FreshBuffers
<1>4. pool \subseteq Buffers
  BY <1>2, Zenon DEF FreshBuffers
<1>5. IsInjective(list)
  <2>1. DOMAIN list = 1..n /\ DOMAIN SomeOrder = 1..Cardinality(Buffers)
    BY <1>2, <1>3, Zenon
  <2>2. ASSUME NEW i \in 1..n, NEW j \in 1..n, list[i] = list[j] PROVE i = j
    <3>1. i \in DOMAIN SomeOrder /\ j \in DOMAIN SomeOrder /\ SomeOrder[i] = SomeOrder[j]
      BY <1>2, <1>3, <2>1, <2>2, Zenon
    <3> QED BY <1>2, <3>1, Zenon DEF IsInjective
  <2> QED BY <2>1, <2>2, Zenon DEF IsInjective
<1>6. \A b \in pool : \E i \in 1..n : list[i] = b
  BY <1>3, Zenon DEF FreshBuffers
<1> HIDE DEF pool, list
<1>7. list \in Bijection(1..n, pool)
  BY <1>3, <1>5, <1>6, Zenon DEF Bijection, Injection, Surjection
<1>8. Cardinality(pool) = n
  BY <1>1, <1>7, FS_CountingElements, Zenon DEF ExistsBijection
<1>9. list \in Seq(pool) /\ DOMAIN list = 1..n
  BY <1>1, <1>3
<1>10. list \in Seq(Buffers)
  BY <1>4, <1>9, SeqGrows, Zenon
<1> QED BY <1>4, <1>5, <1>6, <1>8, <1>9, <1>10, Zenon DEF pool, list

(* media_pipeline_start: the first pipeline ...                                *)
LEMMA InitInv ==
    ASSUME OneConsumer, Init PROVE Inv
<1>1. PICK n \in PoolCounts :
        /\ freeList = FreshList(n)
        /\ refcount = [b \in FreshBuffers(n) |-> 0]
        /\ pooled = [b \in FreshBuffers(n) |-> TRUE]
        /\ content = [b \in FreshBuffers(n) |-> 0]
        /\ tmp = [t \in Threads |-> 0]
        /\ slot = [c \in Consumers |-> NoFrame]
        /\ con = [c \in Consumers |-> "loop"]
        /\ conFrame = [c \in Consumers |-> NoFrame]
        /\ conSeen = [c \in Consumers |-> -1]
  <2>1. PICK fresh \in {FreshPipeline(m) : m \in PoolCounts} :
          /\ freeList = fresh.freeList /\ refcount = fresh.refcount
          /\ pooled = fresh.pooled /\ content = fresh.content /\ tmp = fresh.tmp
          /\ slot = fresh.slot /\ con = fresh.con /\ conFrame = fresh.slot
          /\ conSeen = fresh.conSeen
    BY Zenon DEF Init
  <2>2. PICK m \in PoolCounts : fresh = FreshPipeline(m)
    BY Zenon
  <2> QED BY <2>1, <2>2, ZenonT(30) DEF FreshPipeline, FreshBuffers, FreshList
<1>2. /\ poolLock = "none" /\ subscribed = Consumers
      /\ src = "loop" /\ srcFrame = NoFrame /\ srcTodo = <<>>
      /\ sequence = 0 /\ consecutive = 0 /\ failed = FALSE /\ main = "run"
  BY Zenon DEF Init
<1>3. Pool = FreshBuffers(n)
  BY <1>1, Zenon DEF Pool
<1>4. /\ Pool \subseteq Buffers /\ Cardinality(Pool) = n
      /\ freeList \in Seq(Pool) /\ freeList \in Seq(Buffers) /\ IsInjective(freeList)
      /\ \A b \in Pool : \E i \in DOMAIN freeList : freeList[i] = b
  BY <1>1, <1>3, FreshPool, Zenon
<1>5. /\ refcount = [b \in Pool |-> 0] /\ pooled = [b \in Pool |-> TRUE]
      /\ content = [b \in Pool |-> 0]
  BY <1>1, <1>3, Zenon
<1>6. /\ slot[Encode] = NoFrame /\ conFrame[Encode] = NoFrame /\ con[Encode] = "loop"
      /\ Encode \in Consumers /\ Encode # "none" /\ NoFrame \notin Pool
  BY <1>1, <1>4, HubAssumption, Zenon DEF OneConsumer
<1>7. PoolTypes
  <2>1. pooled \in [Pool -> BOOLEAN] BY <1>5, Zenon
  <2> QED BY <1>1, <1>2, <1>4, <1>5, <2>1 DEF PoolTypes
<1>8. SrcTypes
  <2>1. failed \in BOOLEAN BY <1>2, Zenon
  <2>2. consecutive \in 0..FatalErrors BY <1>2, HubAssumption
  <2> QED BY <1>2, <2>1, <2>2, Zenon DEF SrcTypes, Frames
<1>9. ConTypes
  BY <1>1, <1>2, Zenon DEF ConTypes, Frames
<1>10. Placed /\ Apart /\ Loaded /\ Stable
  BY <1>2, <1>6, HubAssumption DEF Placed, Apart, Loaded, Stable, Quiet, Taking
<1>11. Homes
  <2>1. \A b \in Pool : Free(b)
    BY <1>2, <1>6, Zenon DEF Free
  <2> QED BY <1>4, <2>1, Zenon DEF Homes
<1>12. Counted
  <2>1. \A b \in Pool : b # srcFrame /\ b # slot[Encode] /\ b # conFrame[Encode]
    BY <1>2, <1>6, Zenon
  <2>2. \A b \in Pool : refcount[b] = 0 /\ pooled[b]
    BY <1>5, Zenon
  <2>3. \A b \in Pool : References(b) = 0
    BY <2>1 DEF References, One
  <2> QED BY <2>2, <2>3, Zenon DEF Counted
<1> QED BY <1>7, <1>8, <1>9, <1>10, <1>11, <1>12, Zenon DEF Inv

(* ... and one after a teardown.                                               *)
LEMMA RebuildKeeps ==
    ASSUME Inv, OneConsumer, Rebuild PROVE Inv'
<1> DEFINE n == Cardinality(Pool)
<1>0. n \in PoolCounts
  BY Zenon DEF Inv, PoolTypes
<1> HIDE DEF n
<1>1. /\ freeList' = FreshList(n)
      /\ refcount' = [b \in FreshBuffers(n) |-> 0]
      /\ pooled' = [b \in FreshBuffers(n) |-> TRUE]
      /\ content' = [b \in FreshBuffers(n) |-> 0]
      /\ tmp' = [t \in Threads |-> 0]
      /\ slot' = [c \in Consumers |-> NoFrame]
      /\ con' = [c \in Consumers |-> "loop"]
      /\ conFrame' = [c \in Consumers |-> NoFrame]
      /\ conSeen' = [c \in Consumers |-> -1]
  BY ZenonT(30) DEF Rebuild, FreshPipeline, FreshBuffers, FreshList, n
<1>2. /\ poolLock' = "none" /\ subscribed' = Consumers
      /\ src' = "loop" /\ srcFrame' = NoFrame /\ srcTodo' = <<>>
      /\ sequence' = 0 /\ consecutive' = 0 /\ failed' = FALSE /\ main' = "run"
  BY Zenon DEF Rebuild
<1>3. Pool' = FreshBuffers(n)
  BY <1>1, Zenon DEF Pool
<1>4. /\ Pool' \subseteq Buffers /\ Cardinality(Pool') = n
      /\ freeList' \in Seq(Pool') /\ freeList' \in Seq(Buffers) /\ IsInjective(freeList')
      /\ \A b \in Pool' : \E i \in DOMAIN freeList' : freeList'[i] = b
  BY <1>0, <1>1, <1>3, FreshPool, Zenon
<1>5. /\ refcount' = [b \in Pool' |-> 0] /\ pooled' = [b \in Pool' |-> TRUE]
      /\ content' = [b \in Pool' |-> 0]
  BY <1>1, <1>3, Zenon
<1>6. /\ slot'[Encode] = NoFrame /\ conFrame'[Encode] = NoFrame /\ con'[Encode] = "loop"
      /\ Encode \in Consumers /\ Encode # "none" /\ NoFrame \notin Pool'
  BY <1>1, <1>4, HubAssumption, Zenon DEF OneConsumer
<1>7. PoolTypes'
  <2>1. pooled' \in [Pool' -> BOOLEAN] BY <1>5, Zenon
  <2> QED BY <1>0, <1>1, <1>2, <1>4, <1>5, <2>1 DEF PoolTypes
<1>8. SrcTypes'
  <2>1. failed' \in BOOLEAN BY <1>2, Zenon
  <2>2. consecutive' \in 0..FatalErrors BY <1>2, HubAssumption
  <2> QED BY <1>2, <2>1, <2>2, Zenon DEF SrcTypes, Frames
<1>9. ConTypes'
  BY <1>1, <1>2, Zenon DEF ConTypes, Frames
<1>10. Placed' /\ Apart' /\ Loaded' /\ Stable'
  BY <1>2, <1>6, HubAssumption DEF Placed, Apart, Loaded, Stable, Quiet, Taking
<1>11. \A b \in Pool' : Free(b)' /\ refcount'[b] = 0 /\ References(b)' = 0
  BY <1>2, <1>5, <1>6 DEF Free, References, One
<1>12. Counted' /\ Homes'
  <2>1. Counted'
    BY <1>11, Zenon DEF Counted
  <2>2. Homes'
    BY <1>4, <1>11, Zenon DEF Homes
  <2> QED BY <2>1, <2>2, Zenon
<1> QED BY <1>7, <1>8, <1>9, <1>10, <1>12, Zenon DEF Inv

-----------------------------------------------------------------------------
(* From the invariant to the property *)

OneIf(p, x) == {y \in {x} : p}

LEMMA AddOneIf ==
    ASSUME NEW S, IsFiniteSet(S), NEW x, x \notin S, NEW p \in BOOLEAN
    PROVE  /\ IsFiniteSet(S \cup OneIf(p, x))
           /\ Cardinality(S \cup OneIf(p, x)) = Cardinality(S) + One(p)
<1>1. Cardinality(S) \in Nat
  BY FS_CardinalityType, Zenon
<1>2. CASE p
  <2>1. S \cup OneIf(p, x) = S \cup {x} /\ One(p) = 1
    BY <1>2, Zenon DEF OneIf, One
  <2>2. IsFiniteSet(S \cup {x}) /\ Cardinality(S \cup {x}) = Cardinality(S) + 1
    BY FS_AddElement, Zenon
  <2> QED BY <2>1, <2>2, Zenon
<1>3. CASE ~p
  <2>1. S \cup OneIf(p, x) = S /\ One(p) = 0
    BY <1>3, Zenon DEF OneIf, One
  <2>2. Cardinality(S) + 0 = Cardinality(S)
    BY <1>1
  <2> QED BY <2>1, <2>2, Zenon
<1> QED BY <1>2, <1>3, Zenon

(* References counts what Owners lists.                                        *)
LEMMA OwnersAreCounted ==
    ASSUME OneConsumer, NEW b
    PROVE  /\ Cardinality(Owners(b)) = References(b)
           /\ Owners(b) = {} <=> (slot[Encode] # b /\ conFrame[Encode] # b
                                    /\ ~(srcFrame = b /\ src # "fill"))
<1> DEFINE p1 == slot[Encode] = b
           p2 == conFrame[Encode] = b
           p3 == srcFrame = b /\ src # "fill"
           p4 == srcFrame = b /\ src \in {"replace", "replacing"}
           s1 == {} \cup OneIf(p1, <<"slot", Encode>>)
           s2 == s1 \cup OneIf(p2, <<"use", Encode>>)
           s3 == s2 \cup OneIf(p3, <<"publisher", 1>>)
           s4 == s3 \cup OneIf(p4, <<"publisher", 2>>)
<1>1. Owners(b) = s4
  <2>1. {<<"slot", c>> : c \in {d \in Consumers : slot[d] = b}}
          = OneIf(p1, <<"slot", Encode>>)
    BY Zenon DEF OneConsumer, OneIf
  <2>2. {<<"use", c>> : c \in {d \in Consumers : conFrame[d] = b}}
          = OneIf(p2, <<"use", Encode>>)
    BY Zenon DEF OneConsumer, OneIf
  <2>3. {<<"publisher", i>> :
           i \in {j \in {1, 2} : /\ srcFrame = b /\ src # "fill"
                                 /\ j = 2 => src \in {"replace", "replacing"}}}
          = OneIf(p3, <<"publisher", 1>>) \cup OneIf(p4, <<"publisher", 2>>)
    BY DEF OneIf
  <2> QED BY <2>1, <2>2, <2>3, Zenon DEF Owners
<1>2. IsFiniteSet({}) /\ Cardinality({}) = 0
  BY FS_EmptySet, Zenon
<1>3. <<"slot", Encode>> \notin {} /\ p1 \in BOOLEAN
  BY Zenon
<1>4. <<"use", Encode>> \notin s1 /\ p2 \in BOOLEAN
  BY Zenon DEF OneIf
<1>5. <<"publisher", 1>> \notin s2 /\ p3 \in BOOLEAN
  BY Zenon DEF OneIf
<1>6. <<"publisher", 2>> \notin s3 /\ p4 \in BOOLEAN
  BY DEF OneIf
<1>7. IsFiniteSet(s1) /\ Cardinality(s1) = One(p1)
  <2>1. IsFiniteSet(s1) /\ Cardinality(s1) = Cardinality({}) + One(p1)
    BY <1>2, <1>3, AddOneIf, Zenon
  <2> QED BY <2>1, <1>2 DEF One
<1> HIDE DEF s1
<1>8. IsFiniteSet(s2) /\ Cardinality(s2) = Cardinality(s1) + One(p2)
  BY <1>4, <1>7, AddOneIf, ZenonT(30)
<1> HIDE DEF s2
<1>9. IsFiniteSet(s3) /\ Cardinality(s3) = Cardinality(s2) + One(p3)
  BY <1>5, <1>8, AddOneIf, ZenonT(30)
<1> HIDE DEF s3
<1>10. Cardinality(s4) = Cardinality(s3) + One(p4)
  BY <1>6, <1>9, AddOneIf, Zenon
<1>11. Cardinality(Owners(b)) = References(b)
  BY <1>1, <1>7, <1>8, <1>9, <1>10, Zenon DEF References, One
<1>12. Owners(b) = {} <=> ~p1 /\ ~p2 /\ ~p3
  BY <1>1, Zenon DEF s1, s2, s3, OneIf
<1> QED BY <1>11, <1>12, Zenon

(* The free list holds a buffer once if nobody refers to it, else not at all.  *)
LEMMA HomesAreCounted ==
    ASSUME Homes, NEW b \in Pool
    PROVE  Cardinality({i \in DOMAIN freeList : freeList[i] = b}) = IF Free(b) THEN 1 ELSE 0
<1> DEFINE places == {i \in DOMAIN freeList : freeList[i] = b}
<1>1. CASE Free(b)
  <2>1. PICK i \in DOMAIN freeList : freeList[i] = b
    BY <1>1, Zenon DEF Homes
  <2>2. places = {i}
    BY <2>1 DEF Homes, IsInjective
  <2> QED BY <1>1, <2>2, FS_Singleton, Zenon
<1>2. CASE ~Free(b)
  <2>1. places = {}
    BY <1>2, Zenon DEF Homes
  <2> QED BY <1>2, <2>1, FS_EmptySet, Zenon
<1> QED BY <1>1, <1>2, Zenon

(* A pool of three buffers is enough for one consumer.                         *)
LEMMA PoolLasts ==
    ASSUME Inv, OneConsumer, src = "acquire", freeList = <<>>
    PROVE  Cardinality(Pool) <= 2 * Cardinality(Consumers)
<1> DEFINE two == {slot[Encode]} \cup {conFrame[Encode]}
<1>1. Pool \subseteq two
  <2>1. DOMAIN freeList = {} /\ srcFrame = NoFrame /\ NoFrame \notin Pool
    BY HubAssumption DEF Inv, Placed, Quiet, PoolTypes
  <2> QED BY <2>1, Zenon DEF Inv, Homes, Free
<1>2. /\ IsFiniteSet({slot[Encode]}) /\ Cardinality({slot[Encode]}) = 1
      /\ Cardinality(Consumers) = 1
  BY FS_Singleton, Zenon DEF OneConsumer
<1>3. IsFiniteSet(two) /\ Cardinality(two) <= 2
  <2>1. /\ IsFiniteSet(two)
        /\ Cardinality(two) = IF conFrame[Encode] \in {slot[Encode]}
                              THEN Cardinality({slot[Encode]})
                              ELSE Cardinality({slot[Encode]}) + 1
    BY <1>2, FS_AddElement, Zenon
  <2> HIDE DEF two
  <2>2. Cardinality(two) = 1 \/ Cardinality(two) = 2
    BY <2>1, <1>2
  <2> QED BY <2>1, <2>2
<1> HIDE DEF two
<1>4. Cardinality(Pool) <= Cardinality(two) /\ IsFiniteSet(Pool)
  BY <1>1, <1>3, FS_Subset, Zenon
<1>5. Cardinality(Pool) \in Nat /\ Cardinality(two) \in Nat
  BY <1>3, <1>4, FS_CardinalityType, Zenon
<1> QED BY <1>2, <1>3, <1>4, <1>5

LEMMA InvExact ==
    ASSUME Inv, OneConsumer PROVE RefcountExact
<1>1. TypeOK
  BY Zenon DEF Inv, PoolTypes, SrcTypes, ConTypes, TypeOK
<1>2. \A c \in Consumers : conFrame[c] # NoFrame => content[conFrame[c]] = conSeen[c]
  BY Zenon DEF Inv, Stable, OneConsumer
<1>3. ASSUME NEW b \in Pool
      PROVE  /\ ~(src = "fill" /\ srcFrame = b) => refcount[b] = Cardinality(Owners(b))
             /\ Cardinality({i \in DOMAIN freeList : freeList[i] = b}) =
                  IF Owners(b) = {} /\ ~(src = "fill" /\ srcFrame = b) THEN 1 ELSE 0
  <2>1. Homes /\ (~Filled(b) => refcount[b] = References(b))
    BY <1>3, Zenon DEF Inv, Counted
  <2>2. Cardinality({i \in DOMAIN freeList : freeList[i] = b}) = IF Free(b) THEN 1 ELSE 0
    BY <1>3, <2>1, HomesAreCounted, Zenon
  <2>3. Free(b) <=> Owners(b) = {} /\ ~(src = "fill" /\ srcFrame = b)
    BY OwnersAreCounted, Zenon DEF Free
  <2> QED BY <2>1, <2>2, <2>3, OwnersAreCounted, Zenon DEF Filled
<1>4. src = "acquire" /\ Cardinality(Pool) > 2 * Cardinality(Consumers) => freeList # <<>>
  <2>1. Cardinality(Pool) \in Nat /\ Cardinality(Consumers) \in Nat
    <3>1. IsFiniteSet(Pool) /\ IsFiniteSet(Consumers)
      BY HubAssumption, FS_Subset, Zenon DEF Inv, PoolTypes
    <3> QED BY <3>1, FS_CardinalityType, Zenon
  <2> QED BY <2>1, PoolLasts
<1> QED BY <1>1, <1>2, <1>3, <1>4, Zenon DEF RefcountExact

-----------------------------------------------------------------------------
(* Every step *)

LEMMA NextInv ==
    ASSUME Inv, OneConsumer, [Next]_vars PROVE Inv'
<1>0. PutBackLaw
  BY PutBackKeeps, Zenon DEF PutBackLaw, Inv
<1>1. CASE Source
  <2>1. CASE \/ SrcExit \/ SrcLoop \/ SrcNone \/ SrcFrame \/ PubExhausted
             \/ \E ended \in BOOLEAN : SrcError(ended)
    BY <2>1, WalksKeep, Zenon
  <2>2. CASE PubAcquire \/ PubFill \/ PubRefLoad \/ PubRefStore
    BY <2>2, AcquireKeeps, FillKeeps, RefLoadKeeps, RefStoreKeeps, Zenon
  <2>3. CASE PubReplace
    BY <1>0, <2>3, ReplaceLoadKeeps, ReplaceStoreKeeps, Zenon DEF PubReplace
  <2>4. CASE PubDrop
    BY <1>0, <2>4, DropLoadKeeps, DropStoreKeeps, Zenon DEF PubDrop
  <2> QED BY <1>1, <2>1, <2>2, <2>3, <2>4, Zenon DEF Source
<1>2. CASE \E c \in Consumers : Consumer(c)
  <2>1. Consumer(Encode)
    BY <1>2, Zenon DEF OneConsumer
  <2>2. CASE ConLoop(Encode) \/ ConTimeout(Encode)
    BY <2>2, ConsumerWalksKeep, Zenon
  <2>3. CASE ConTake(Encode)
    BY <2>3, TakeKeeps, Zenon
  <2>4. CASE ConRelease(Encode)
    BY <1>0, <2>4, ReleaseLoadKeeps, ReleaseStoreKeeps, Zenon DEF ConRelease
  <2> QED BY <2>1, <2>2, <2>3, <2>4, Zenon DEF Consumer
<1>3. CASE Main
  <2>1. CASE StopSource \/ StopConsumers \/ Destroy
    BY <2>1, StopsKeep, Zenon
  <2>2. CASE Rebuild
    BY <2>2, RebuildKeeps, Zenon
  <2>3. CASE \E c \in Consumers : Unsubscribe(c)
    <3>1. Unsubscribe(Encode)
      BY <2>3, Zenon DEF OneConsumer
    <3> QED BY <1>0, <3>1, UnsubscribeKeeps, Zenon
  <2> QED BY <1>3, <2>1, <2>2, <2>3, Zenon DEF Main
<1>4. CASE UNCHANGED vars
  BY <1>4, StutterKeeps, Zenon
<1> QED BY <1>1, <1>2, <1>3, <1>4, Zenon DEF Next

(* Between the capture thread, the encode thread and the main thread no frame is *)
(* lost, freed twice or refilled under the encoder, for every number of buffers  *)
(* and of frames, although frame_ref and frame_unref change the reference count  *)
(* under different locks.                                                        *)
THEOREM FramesAreCounted ==
    ASSUME OneConsumer PROVE Spec => []RefcountExact
<1>1. Init => Inv
  BY InitInv, Zenon
<1>2. Inv /\ [Next]_vars => Inv'
  BY NextInv, Zenon
<1>3. Inv => RefcountExact
  BY InvExact, Zenon
<1> QED BY <1>1, <1>2, <1>3, PTL DEF Spec
=============================================================================
