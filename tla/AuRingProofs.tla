--------------------------- MODULE AuRingProofs ----------------------------
(***************************************************************************)
(* What the runs of MCAuRing check on a ring of three slots holds for every  *)
(* number of slots, every capacity, every set of sizes and every number of    *)
(* pushes.                                                                  *)
(***************************************************************************)
EXTENDS AuRing, Sequences, TLAPS

-----------------------------------------------------------------------------
(* The ring's index arithmetic *)

(* The remainder the code takes with % is one subtraction when the index is    *)
(* at most one turn ahead.                                                     *)
LEMMA ModWrap ==
  ASSUME NEW n \in Nat \ {0}, NEW a \in Nat, a < 2 * n, a >= n
  PROVE  a % n = a - n
BY SMT

(* i slots after slot h, for at most one turn of the ring.                     *)
LEMMA Turn ==
  ASSUME NEW h \in Slots, NEW i \in 0..SlotCount
  PROVE  /\ h + i < SlotCount => Wrap(h + i) = h + i
         /\ h + i >= SlotCount => Wrap(h + i) = h + i - SlotCount
<1>1. h + i \in Nat /\ h + i < 2 * SlotCount
  BY RingAssumption, SMT DEF Slots
<1>2. SlotCount \in Nat \ {0}
  BY RingAssumption
<1>3. ASSUME h + i < SlotCount PROVE (h + i) % SlotCount = h + i
  BY <1>1, <1>2, <1>3, SMT
<1>4. ASSUME h + i >= SlotCount PROVE (h + i) % SlotCount = h + i - SlotCount
  <2>1. PICK a \in Nat : a = h + i
    BY <1>1
  <2>2. a < 2 * SlotCount /\ a >= SlotCount
    BY <1>1, <1>4, <2>1, Zenon
  <2>3. a % SlotCount = a - SlotCount
    BY <1>2, <2>2, ModWrap, Zenon
  <2> QED BY <2>1, <2>3, <1>2, SMT DEF Slots
<1> QED BY <1>3, <1>4 DEF Wrap

(* Every window index names a slot.                                            *)
LEMMA TurnIsSlot ==
  ASSUME NEW h \in Slots, NEW i \in 0..SlotCount
  PROVE  Wrap(h + i) \in Slots
<1>1. /\ h + i < SlotCount => Wrap(h + i) = h + i
      /\ h + i >= SlotCount => Wrap(h + i) = h + i - SlotCount
  BY Turn
<1> QED BY <1>1, RingAssumption, SMT DEF Slots

(* Two different window indices name two different slots.                      *)
LEMMA TurnInjective ==
  ASSUME NEW h \in Slots, NEW i \in 0..(SlotCount - 1),
         NEW j \in 0..(SlotCount - 1), Wrap(h + i) = Wrap(h + j)
  PROVE  i = j
<1>1. i \in 0..SlotCount /\ j \in 0..SlotCount
  BY RingAssumption, SMT
<1> QED BY <1>1, Turn, RingAssumption, SMT DEF Slots

(* Moving the window's start by j and counting i from there is counting j + i. *)
LEMMA TurnAgain ==
  ASSUME NEW h \in Slots, NEW j \in 0..SlotCount, NEW i \in 0..SlotCount,
         j + i <= SlotCount
  PROVE  Wrap(Wrap(h + j) + i) = Wrap(h + (j + i))
<1>1. j + i \in 0..SlotCount
  BY RingAssumption, SMT
<1>2. Wrap(h + j) \in Slots
  BY TurnIsSlot
<1> QED BY <1>1, <1>2, Turn, RingAssumption, SMT DEF Slots

-----------------------------------------------------------------------------
(* Types *)

(* Every step of the producer and of the sender keeps the ring's fields in      *)
(* their ranges; head and tail stay slot numbers.                              *)
LEMMA TypeStep == TypeOK /\ [Next]_vars => TypeOK'
<1> SUFFICES ASSUME TypeOK, [Next]_vars PROVE TypeOK'
  OBVIOUS
<1> USE RingAssumption
<1>0. \A h \in Slots : \A i \in 0..SlotCount : Wrap(h + i) \in Slots
  BY TurnIsSlot
<1>1. head \in Slots /\ tail \in Slots /\ count \in 0..SlotCount /\ 1 \in 0..SlotCount
  BY SMT DEF TypeOK
<1>2. ASSUME NEW size \in Sizes, PushTooBig(size) PROVE TypeOK'
  BY <1>2, SMT DEF PushTooBig, TypeOK
<1>3. ASSUME NEW size \in Sizes, PushStore(size) PROVE TypeOK'
  <2>1. head' \in Slots /\ tail' \in Slots
    BY <1>0, <1>1, <1>3 DEF PushStore, HeadAfterPush, Succ
  <2>2. Gap \in BOOLEAN /\ DroppedByPush \in Nat
    BY DEF Gap, Full, DroppedByPush, TypeOK
  <2>3. size \in Nat
    OBVIOUS
  <2>4. meta' \in [Slots -> AuMeta]
    BY <2>2, <2>3, <1>3, SMT DEF PushStore, TypeOK, AuMeta
  <2>5. count' \in 0..SlotCount
    BY <1>3, SMT DEF PushStore, TypeOK, Full
  <2>6. /\ lost' \in BOOLEAN /\ owed' \in BOOLEAN
        /\ producer' \in {"idle", "signal"} /\ consumer' \in {"poll", "drain"}
        /\ event' \in BOOLEAN /\ lastOut' \in AuMeta
    BY <1>3, Zenon DEF PushStore, TypeOK, Full
  <2>7. /\ sequence' \in Nat /\ dropped' \in Nat
        /\ pushes' \in Nat /\ delivered' \in Nat
    BY <2>2, <1>3, SMT DEF PushStore, TypeOK
  <2> QED BY <2>1, <2>4, <2>5, <2>6, <2>7 DEF TypeOK
<1>4. ASSUME PushSignal PROVE TypeOK'
  BY <1>4 DEF PushSignal, TypeOK, ringVars, history
<1>5. ASSUME NEW k \in Waiting, PopUnit(k) PROVE TypeOK'
  <2>1. k \in 0..SlotCount /\ k \in Nat /\ k < count
    BY SMT DEF Waiting, TypeOK
  <2>2. SlotAt(k) \in Slots
    BY <1>0, <1>1, <2>1 DEF SlotAt
  <2>3. head' \in Slots
    BY <1>0, <1>1, <2>2, <1>5 DEF PopUnit, Succ
  <2>4. meta[SlotAt(k)] \in AuMeta
    BY <2>2 DEF TypeOK
  <2>5. lastOut' \in AuMeta /\ lastOut'.discontinuity \in BOOLEAN
    <3>1. PICK m \in AuMeta : m = meta[SlotAt(k)]
      BY <2>4
    <3>2. PICK d \in BOOLEAN : d = (m.discontinuity \/ k > 0)
      BY Zenon
    <3>3. lastOut' = [m EXCEPT !.discontinuity = d]
      BY <1>5, <3>1, <3>2 DEF PopUnit
    <3> QED BY <3>3, SMT DEF AuMeta
  <2>6. count' \in 0..SlotCount
    BY <2>1, <1>5, SMT DEF PopUnit, TypeOK
  <2>7. dropped' \in Nat /\ delivered' \in Nat /\ sequence' \in Nat /\ pushes' \in Nat
    BY <2>1, <1>5, SMT DEF PopUnit, TypeOK
  <2>8. owed' \in BOOLEAN
    BY <1>5, <2>5 DEF PopUnit
  <2> QED BY <2>3, <2>5, <2>6, <2>7, <2>8, <1>5 DEF PopUnit, TypeOK
<1>6. ASSUME PopEmpty PROVE TypeOK'
  <2>1. head' \in Slots
    BY <1>0, <1>1, <1>6 DEF PopEmpty, SlotAt
  <2>2. count' \in 0..SlotCount /\ dropped' \in Nat
    BY <1>6, SMT DEF PopEmpty, TypeOK
  <2> QED BY <2>1, <2>2, <1>6, Zenon DEF PopEmpty, TypeOK
<1>7. ASSUME WakeOnEvent \/ WakeOther PROVE TypeOK'
  BY <1>7 DEF WakeOnEvent, WakeOther, TypeOK, ringVars, history
<1>8. ASSUME UNCHANGED vars PROVE TypeOK'
  BY <1>8 DEF vars, ringVars, history, TypeOK
<1> QED BY <1>2, <1>3, <1>4, <1>5, <1>6, <1>7, <1>8 DEF Next, Push, Pop

(* au_ring_create leaves every field in its range.                              *)
LEMMA TypeInit == Init => TypeOK
<1> SUFFICES ASSUME Init PROVE TypeOK
  OBVIOUS
<1>1. NoMeta \in AuMeta
  BY SMT DEF NoMeta, AuMeta
<1>3. [NoMeta EXCEPT !.sequence = 0] \in AuMeta
  BY <1>1, SMT DEF AuMeta
<1>2. 0 \in Slots /\ 0 \in 0..SlotCount
  BY RingAssumption, SMT DEF Slots
<1> QED BY <1>1, <1>2, <1>3, Zenon DEF Init, TypeOK

(* The fields of the ring keep their types for every number of slots.           *)
THEOREM TypeCorrect == Spec => []TypeOK
BY TypeInit, TypeStep, PTL DEF Spec

-----------------------------------------------------------------------------
(* The window *)

(* The unit au_ring_push stores.                                               *)
Stored(size) == [push |-> pushes + 1, sequence |-> sequence,
                 discontinuity |-> Gap, size |-> size]

(* How far a push moves the start of the window.                               *)
Shift == IF Full THEN 1 ELSE 0

(* What a push does to the window: the stored unit is its last one, and the      *)
(* others are the old window's, without its oldest one when the ring was full.   *)
(* That is the hard case: tail has caught up with head, and the stored unit      *)
(* overwrites the slot of the oldest one.                                       *)
LEMMA PushWindow ==
  ASSUME TypeOK, tail = Wrap(head + count), NEW size \in Sizes, PushStore(size)
  PROVE  /\ tail' = Wrap(head' + count')
         /\ meta'[Wrap(head' + (count' - 1))] = Stored(size)
         /\ \A i \in 0..(count' - 2) :
              /\ i + Shift \in 0..(count - 1)
              /\ meta'[Wrap(head' + i)] = meta[Wrap(head + (i + Shift))]
<1> USE RingAssumption
<1>1. /\ head \in Slots /\ tail \in Slots /\ count \in 0..SlotCount
      /\ meta \in [Slots -> AuMeta] /\ 0 \in 0..SlotCount /\ 1 \in 0..SlotCount
  BY SMT DEF TypeOK
<1>2. meta' = [meta EXCEPT ![tail] = Stored(size)] /\ tail' = Wrap(tail + 1)
  BY DEF PushStore, Stored, Succ
<1>3. CASE ~Full
  <2>1. /\ head' = head /\ count' = count + 1 /\ Shift = 0
        /\ count \in 0..(SlotCount - 1)
    BY <1>1, <1>3, SMT DEF PushStore, HeadAfterPush, Full, Shift
  <2>2. tail' = Wrap(head + (count + 1))
    BY <1>1, <1>2, <2>1, TurnAgain, SMT
  <2>3. meta'[Wrap(head' + (count' - 1))] = Stored(size)
    <3>1. count' - 1 = count
      BY <1>1, <2>1, SMT
    <3> QED BY <1>1, <1>2, <2>1, <3>1
  <2>4. ASSUME NEW i \in 0..(count' - 2)
        PROVE  /\ i + Shift \in 0..(count - 1)
               /\ meta'[Wrap(head' + i)] = meta[Wrap(head + (i + Shift))]
    <3>1. /\ i \in 0..(SlotCount - 1) /\ i \in 0..SlotCount /\ i # count
          /\ i + Shift = i /\ i \in 0..(count - 1)
      BY <1>1, <2>1, SMT
    <3>2. Wrap(head + i) # tail
      BY <1>1, <2>1, <3>1, TurnInjective
    <3>3. Wrap(head + i) \in Slots
      BY <1>1, <3>1, TurnIsSlot
    <3>4. meta'[Wrap(head + i)] = meta[Wrap(head + i)]
      BY <1>1, <1>2, <3>2, <3>3
    <3> QED BY <2>1, <3>1, <3>4
  <2> QED BY <2>1, <2>2, <2>3, <2>4
<1>4. CASE Full
  <2>1. /\ head' = Wrap(head + 1) /\ count' = SlotCount /\ count = SlotCount
        /\ Shift = 1
    BY <1>4 DEF PushStore, HeadAfterPush, Succ, Full, Shift
  <2>2. tail = head /\ head = Wrap(head + 0)
    <3>1. /\ head + 0 < SlotCount => Wrap(head + 0) = head + 0
          /\ head + 0 >= SlotCount => Wrap(head + 0) = head + 0 - SlotCount
      BY <1>1, Turn
    <3>2. /\ head + count < SlotCount => Wrap(head + count) = head + count
          /\ head + count >= SlotCount => Wrap(head + count) = head + count - SlotCount
      BY <1>1, Turn
    <3> QED BY <1>1, <2>1, <3>1, <3>2, SMT DEF Slots
  <2>3. head' \in Slots
    BY <1>1, <2>1, TurnIsSlot
  <2>4. Wrap(head' + SlotCount) = head'
    BY <2>3, Turn, SMT DEF Slots
  <2>5. tail' = Wrap(head' + count')
    BY <1>2, <2>1, <2>2, <2>4
  <2>6. ASSUME NEW i \in 0..(SlotCount - 1)
        PROVE  Wrap(head' + i) = Wrap(head + (i + 1))
    <3>1. i \in 0..SlotCount /\ 1 + i <= SlotCount /\ 1 + i = i + 1
      BY SMT
    <3> QED BY <1>1, <2>1, <3>1, TurnAgain
  <2>7. meta'[Wrap(head' + (count' - 1))] = Stored(size)
    <3>1. SlotCount - 1 \in 0..(SlotCount - 1) /\ (SlotCount - 1) + 1 = SlotCount
      BY SMT
    <3>2. Wrap(head' + (count' - 1)) = tail
      BY <2>1, <2>6, <3>1
    <3> QED BY <1>1, <1>2, <3>2
  <2>8. ASSUME NEW i \in 0..(count' - 2)
        PROVE  /\ i + Shift \in 0..(count - 1)
               /\ meta'[Wrap(head' + i)] = meta[Wrap(head + (i + Shift))]
    <3>1. /\ i \in 0..(SlotCount - 1) /\ i + 1 \in 0..(SlotCount - 1)
          /\ i + 1 \in 0..SlotCount /\ i + 1 # 0 /\ 0 \in 0..(SlotCount - 1)
      BY <2>1, SMT
    <3>2. Wrap(head + (i + 1)) # tail
      BY <1>1, <2>2, <3>1, TurnInjective
    <3>3. Wrap(head + (i + 1)) \in Slots
      BY <1>1, <3>1, TurnIsSlot
    <3>4. meta'[Wrap(head + (i + 1))] = meta[Wrap(head + (i + 1))]
      BY <1>1, <1>2, <3>2, <3>3
    <3> QED BY <2>1, <2>6, <3>1, <3>4
  <2> QED BY <2>5, <2>7, <2>8
<1> QED BY <1>3, <1>4

(* What a pop does to the window: it drops the k + 1 oldest units and keeps the   *)
(* others where they are.                                                      *)
LEMMA PopWindow ==
  ASSUME TypeOK, tail = Wrap(head + count), NEW k \in Waiting, PopUnit(k)
  PROVE  /\ tail' = Wrap(head' + count')
         /\ \A i \in 0..(count' - 1) :
              /\ (k + 1) + i \in 0..(count - 1)
              /\ meta'[Wrap(head' + i)] = meta[Wrap(head + ((k + 1) + i))]
<1> USE RingAssumption
<1>1. /\ head \in Slots /\ tail \in Slots /\ count \in 0..SlotCount
      /\ 1 \in 0..SlotCount
  BY SMT DEF TypeOK
<1>2. /\ k \in 0..SlotCount /\ k + 1 \in 0..SlotCount /\ k + 1 <= count
      /\ count - (k + 1) \in 0..SlotCount /\ (k + 1) + (count - (k + 1)) = count
  BY <1>1, SMT DEF Waiting
<1>3. /\ head' = Wrap(Wrap(head + k) + 1) /\ count' = count - (k + 1)
      /\ UNCHANGED <<meta, tail>>
  BY DEF PopUnit, Succ, SlotAt
<1>4. head' = Wrap(head + (k + 1))
  BY <1>1, <1>2, <1>3, TurnAgain, SMT
<1>5. Wrap(Wrap(head + (k + 1)) + (count - (k + 1)))
        = Wrap(head + ((k + 1) + (count - (k + 1))))
  BY <1>1, <1>2, TurnAgain, SMT
<1>6. ASSUME NEW i \in 0..(count' - 1)
      PROVE  /\ (k + 1) + i \in 0..(count - 1)
             /\ Wrap(head' + i) = Wrap(head + ((k + 1) + i))
  <2>1. i \in 0..SlotCount /\ (k + 1) + i <= SlotCount /\ (k + 1) + i \in 0..(count - 1)
    BY <1>1, <1>2, <1>3, SMT
  <2> QED BY <1>1, <1>2, <1>4, <2>1, TurnAgain
<1> QED BY <1>2, <1>3, <1>4, <1>5, <1>6

(* The window of newest units survives every step.                             *)
LEMMA WindowStep == TypeOK /\ WindowOfNewest /\ [Next]_vars => WindowOfNewest'
<1> SUFFICES ASSUME TypeOK, WindowOfNewest, [Next]_vars PROVE WindowOfNewest'
  OBVIOUS
<1> USE RingAssumption
<1>1. /\ head \in Slots /\ tail \in Slots /\ count \in 0..SlotCount
      /\ sequence \in Nat /\ 0 \in 0..SlotCount
  BY SMT DEF TypeOK
<1>2. /\ tail = Wrap(head + count)
      /\ \A i \in 0..(count - 1) :
           meta[Wrap(head + i)].sequence = sequence - count + i
  BY DEF WindowOfNewest, SlotAt, Waiting
<1>3. ASSUME tail' = Wrap(head' + count'),
             \A i \in 0..(count' - 1) :
               meta'[Wrap(head' + i)].sequence = sequence' - count' + i
      PROVE  WindowOfNewest'
  BY <1>3 DEF WindowOfNewest, SlotAt, Waiting
<1>4. ASSUME NEW size \in Sizes, PushTooBig(size) PROVE WindowOfNewest'
  BY <1>2, <1>3, <1>4 DEF PushTooBig
<1>5. ASSUME NEW size \in Sizes, PushStore(size) PROVE WindowOfNewest'
  <2>1. /\ count' \in Nat \ {0} /\ count' = count + 1 - Shift
        /\ sequence' = sequence + 1 /\ Shift \in {0, 1}
    BY <1>1, <1>5, SMT DEF PushStore, Full, Shift
  <2>2. Stored(size).sequence = sequence
    BY DEF Stored
  <2>3. ASSUME NEW i \in 0..(count' - 1)
        PROVE  meta'[Wrap(head' + i)].sequence = sequence' - count' + i
    <3>1. CASE i = count' - 1
      <4>1. meta'[Wrap(head' + i)].sequence = sequence
        BY <1>2, <1>5, <2>2, <3>1, PushWindow
      <4> QED BY <1>1, <2>1, <3>1, <4>1, SMT
    <3>2. CASE i # count' - 1
      <4>1. i \in 0..(count' - 2)
        BY <2>1, <3>2, SMT
      <4>2. /\ i + Shift \in 0..(count - 1)
            /\ meta'[Wrap(head' + i)] = meta[Wrap(head + (i + Shift))]
        BY <1>2, <1>5, <4>1, PushWindow
      <4>3. meta'[Wrap(head' + i)].sequence = sequence - count + (i + Shift)
        BY <1>2, <4>2
      <4> QED BY <1>1, <2>1, <4>1, <4>3, SMT
    <3> QED BY <3>1, <3>2
  <2> QED BY <1>2, <1>3, <1>5, <2>3, PushWindow
<1>6. ASSUME PushSignal PROVE WindowOfNewest'
  BY <1>2, <1>3, <1>6 DEF PushSignal, ringVars
<1>7. ASSUME NEW k \in Waiting, PopUnit(k) PROVE WindowOfNewest'
  <2>1. /\ count' = count - (k + 1) /\ sequence' = sequence /\ k \in Nat
    BY <1>1, <1>7, SMT DEF PopUnit, Waiting
  <2>2. ASSUME NEW i \in 0..(count' - 1)
        PROVE  meta'[Wrap(head' + i)].sequence = sequence' - count' + i
    <3>1. /\ (k + 1) + i \in 0..(count - 1)
          /\ meta'[Wrap(head' + i)] = meta[Wrap(head + ((k + 1) + i))]
      BY <1>2, <1>7, PopWindow
    <3>2. meta'[Wrap(head' + i)].sequence = sequence - count + ((k + 1) + i)
      BY <1>2, <3>1
    <3> QED BY <1>1, <2>1, <3>2, SMT
  <2> QED BY <1>2, <1>3, <1>7, <2>2, PopWindow
<1>8. ASSUME PopEmpty PROVE WindowOfNewest'
  <2>1. head' = tail /\ tail' = tail /\ count' = 0
    BY <1>2, <1>8 DEF PopEmpty, SlotAt
  <2>2. Wrap(tail + 0) = tail
    <3>1. /\ tail + 0 < SlotCount => Wrap(tail + 0) = tail + 0
          /\ tail + 0 >= SlotCount => Wrap(tail + 0) = tail + 0 - SlotCount
      BY <1>1, Turn
    <3> QED BY <1>1, <3>1, SMT DEF Slots
  <2>3. 0..(0 - 1) = {}
    BY SMT
  <2> QED BY <1>3, <2>1, <2>2, <2>3
<1>9. ASSUME WakeOnEvent \/ WakeOther PROVE WindowOfNewest'
  BY <1>2, <1>3, <1>9 DEF WakeOnEvent, WakeOther, ringVars
<1>10. ASSUME UNCHANGED vars PROVE WindowOfNewest'
  BY <1>2, <1>3, <1>10 DEF vars, ringVars
<1> QED
  BY <1>4, <1>5, <1>6, <1>7, <1>8, <1>9, <1>10 DEF Next, Push, Pop

(* An empty ring is an empty window.                                           *)
LEMMA WindowInit == Init => WindowOfNewest
<1> SUFFICES ASSUME Init PROVE WindowOfNewest
  OBVIOUS
<1>1. 0 \in Slots /\ 0 \in 0..SlotCount
  BY RingAssumption, SMT DEF Slots
<1>2. Wrap(0 + 0) = 0
  BY <1>1, Turn, RingAssumption, SMT
<1>3. 0..(0 - 1) = {}
  BY SMT
<1> QED BY <1>2, <1>3 DEF Init, WindowOfNewest, SlotAt, Waiting

(* For every number of slots: head, tail and count describe one window and it    *)
(* holds exactly the newest stored units in order (au_ring_push, au_ring_pop).   *)
THEOREM KeepsNewest == Spec => []WindowOfNewest
<1>1. Init => TypeOK /\ WindowOfNewest
  BY TypeInit, WindowInit
<1>2. TypeOK /\ WindowOfNewest /\ [Next]_vars => TypeOK' /\ WindowOfNewest'
  BY TypeStep, WindowStep
<1> QED BY <1>1, <1>2, PTL DEF Spec

-----------------------------------------------------------------------------
(* Accounting, wakeups and losses *)

(* Every push stays counted exactly once.                                      *)
LEMMA CountStep == TypeOK /\ EveryPushCounted /\ [Next]_vars => EveryPushCounted'
<1> SUFFICES ASSUME TypeOK, EveryPushCounted, [Next]_vars PROVE EveryPushCounted'
  OBVIOUS
<1> USE RingAssumption DEF EveryPushCounted
<1>1. /\ count \in Nat /\ dropped \in Nat /\ delivered \in Nat /\ pushes \in Nat
  BY SMT DEF TypeOK
<1>2. ASSUME NEW size \in Sizes, PushTooBig(size) PROVE EveryPushCounted'
  BY <1>1, <1>2, SMT DEF PushTooBig
<1>3. ASSUME NEW size \in Sizes, PushStore(size) PROVE EveryPushCounted'
  BY <1>1, <1>3, SMT DEF PushStore, DroppedByPush
<1>4. ASSUME PushSignal \/ WakeOnEvent \/ WakeOther PROVE EveryPushCounted'
  BY <1>4 DEF PushSignal, WakeOnEvent, WakeOther, ringVars, history
<1>5. ASSUME NEW k \in Waiting, PopUnit(k) PROVE EveryPushCounted'
  <2>1. k \in Nat
    BY <1>1, SMT DEF Waiting
  <2> QED BY <1>1, <1>5, <2>1, SMT DEF PopUnit
<1>6. ASSUME PopEmpty PROVE EveryPushCounted'
  BY <1>1, <1>6, SMT DEF PopEmpty
<1>7. ASSUME UNCHANGED vars PROVE EveryPushCounted'
  BY <1>7 DEF vars, ringVars, history
<1> QED BY <1>2, <1>3, <1>4, <1>5, <1>6, <1>7 DEF Next, Push, Pop

(* The wakeup is never lost: only au_ring_pop on an empty ring clears it, and a   *)
(* producer that has stored a unit still has its write to do.                   *)
LEMMA WakeupStep == TypeOK /\ NoLostWakeup /\ [Next]_vars => NoLostWakeup'
<1> SUFFICES ASSUME TypeOK, NoLostWakeup, [Next]_vars PROVE NoLostWakeup'
  OBVIOUS
<1> USE DEF NoLostWakeup
<1>1. ASSUME NEW size \in Sizes, PushTooBig(size) \/ PushStore(size)
      PROVE  NoLostWakeup'
  BY <1>1 DEF PushTooBig, PushStore
<1>2. ASSUME PushSignal PROVE NoLostWakeup'
  BY <1>2 DEF PushSignal
<1>3. ASSUME NEW k \in Waiting, PopUnit(k) PROVE NoLostWakeup'
  BY <1>3 DEF PopUnit
<1>4. ASSUME PopEmpty PROVE NoLostWakeup'
  BY <1>4, SMT DEF PopEmpty
<1>5. ASSUME WakeOnEvent \/ WakeOther PROVE NoLostWakeup'
  BY <1>5 DEF WakeOnEvent, WakeOther
<1>6. ASSUME UNCHANGED vars PROVE NoLostWakeup'
  BY <1>6 DEF vars, ringVars
<1> QED BY <1>1, <1>2, <1>3, <1>4, <1>5, <1>6 DEF Next, Push, Pop

(* A loss stays announced by the flag of a waiting unit or by `lost', through     *)
(* overwriting and skipping of the flagged unit.                               *)
LEMMA LossStep ==
  TypeOK /\ WindowOfNewest /\ LossWillBeAnnounced /\ [Next]_vars
    => LossWillBeAnnounced'
<1> SUFFICES ASSUME TypeOK, WindowOfNewest, LossWillBeAnnounced, [Next]_vars
             PROVE  LossWillBeAnnounced'
  OBVIOUS
<1> USE RingAssumption
<1>1. /\ count \in 0..SlotCount /\ tail = Wrap(head + count)
      /\ owed => lost \/ \E i \in 0..(count - 1) : meta[Wrap(head + i)].discontinuity
  BY DEF TypeOK, WindowOfNewest, LossWillBeAnnounced, SlotAt, Waiting
<1>2. ASSUME owed' => lost' \/ \E i \in 0..(count' - 1) :
                                  meta'[Wrap(head' + i)].discontinuity
      PROVE  LossWillBeAnnounced'
  BY <1>2 DEF LossWillBeAnnounced, SlotAt, Waiting
<1>3. ASSUME NEW size \in Sizes, PushTooBig(size) PROVE LossWillBeAnnounced'
  BY <1>2, <1>3 DEF PushTooBig
<1>4. ASSUME NEW size \in Sizes, PushStore(size) PROVE LossWillBeAnnounced'
  <2>1. /\ count' \in Nat \ {0} /\ count' = count + 1 - Shift /\ Shift \in {0, 1}
        /\ count' - 1 \in 0..(count' - 1)
    BY <1>1, <1>4, SMT DEF PushStore, Full, Shift
  <2>2. meta'[Wrap(head' + (count' - 1))].discontinuity = Gap
    <3>1. meta'[Wrap(head' + (count' - 1))] = Stored(size)
      BY <1>1, <1>4, PushWindow
    <3>2. Stored(size).discontinuity = Gap
      BY DEF Stored
    <3> QED BY <3>1, <3>2
  <2>3. CASE Gap
    BY <1>2, <2>1, <2>2, <2>3, Zenon
  <2>4. CASE ~Gap
    <3>1. ~lost /\ ~Full /\ Shift = 0
      BY <2>4 DEF Gap, Shift
    <3>2. SUFFICES ASSUME owed'
                   PROVE  \E i \in 0..(count' - 1) :
                            meta'[Wrap(head' + i)].discontinuity
      BY <1>2
    <3>3. owed
      BY <1>4, <3>1, <3>2, Zenon DEF PushStore
    <3>4. PICK j \in 0..(count - 1) : meta[Wrap(head + j)].discontinuity
      BY <1>1, <3>1, <3>3
    <3>5. j \in 0..(count' - 2) /\ j \in 0..(count' - 1) /\ j + Shift = j
      BY <1>1, <2>1, <3>1, <3>4, SMT
    <3>6. meta'[Wrap(head' + j)] = meta[Wrap(head + j)]
      BY <1>1, <1>4, <3>5, PushWindow
    <3> QED BY <3>4, <3>5, <3>6
  <2> QED BY <2>3, <2>4
<1>5. ASSUME PushSignal \/ WakeOnEvent \/ WakeOther PROVE LossWillBeAnnounced'
  BY <1>1, <1>2, <1>5 DEF PushSignal, WakeOnEvent, WakeOther, ringVars, history
<1>6. ASSUME NEW k \in Waiting, PopUnit(k) PROVE LossWillBeAnnounced'
  <2>1. k \in Nat /\ k < count /\ count' = count - (k + 1) /\ lost' = lost
    BY <1>1, <1>6, SMT DEF Waiting, PopUnit
  <2>2. SUFFICES ASSUME owed', ~lost
                 PROVE  \E i \in 0..(count' - 1) :
                          meta'[Wrap(head' + i)].discontinuity
    BY <1>2, <2>1
  <2>3. /\ ~lastOut'.discontinuity /\ (owed \/ k > 0)
        /\ lastOut' = [meta[Wrap(head + k)] EXCEPT !.discontinuity = @ \/ k > 0]
    BY <1>6, <2>2, Zenon DEF PopUnit, SlotAt
  <2>4. meta[Wrap(head + k)] \in AuMeta
    <3>1. head \in Slots /\ k \in 0..SlotCount
      BY <1>1, <2>1, SMT DEF TypeOK
    <3>2. Wrap(head + k) \in Slots
      BY <3>1, TurnIsSlot
    <3> QED BY <3>2 DEF TypeOK
  <2>5. k = 0 /\ ~meta[Wrap(head + k)].discontinuity
    <3>1. PICK m \in AuMeta : m = meta[Wrap(head + k)]
      BY <2>4
    <3>2. [m EXCEPT !.discontinuity = @ \/ k > 0].discontinuity
            = (m.discontinuity \/ k > 0)
      BY SMT DEF AuMeta
    <3>3. ~(m.discontinuity \/ k > 0)
      BY <2>3, <3>1, <3>2, Zenon
    <3> QED BY <2>1, <3>1, <3>3, SMT
  <2>6. owed
    <3>1. ~(k > 0)
      BY <2>5, SMT
    <3> QED BY <2>3, <3>1
  <2>7. PICK j \in 0..(count - 1) : meta[Wrap(head + j)].discontinuity
    BY <1>1, <2>2, <2>6
  <2>8. j - 1 \in 0..(count' - 1) /\ (k + 1) + (j - 1) = j
    <3>1. j # 0
      BY <2>5, <2>7
    <3> QED BY <1>1, <2>1, <2>5, <2>7, <3>1, SMT
  <2>9. meta'[Wrap(head' + (j - 1))] = meta[Wrap(head + j)]
    BY <1>1, <1>6, <2>8, PopWindow
  <2> QED BY <2>7, <2>8, <2>9
<1>7. ASSUME PopEmpty PROVE LossWillBeAnnounced'
  <2>1. CASE count > 0
    BY <1>2, <1>7, <2>1 DEF PopEmpty
  <2>2. CASE ~(count > 0)
    <3>1. 0..(count - 1) = {}
      BY <1>1, <2>2, SMT
    <3> QED BY <1>1, <1>2, <1>7, <2>2, <3>1, Zenon DEF PopEmpty
  <2> QED BY <2>1, <2>2
<1>8. ASSUME UNCHANGED vars PROVE LossWillBeAnnounced'
  BY <1>1, <1>2, <1>8 DEF vars, ringVars, history
<1> QED BY <1>3, <1>4, <1>5, <1>6, <1>7, <1>8 DEF Next, Push, Pop

-----------------------------------------------------------------------------
(* The inductive invariant of the ring                                         *)

(* The order property needs one more fact: the unit handed over last was stored  *)
(* before every unit that still waits.                                         *)
HandedOverIsOlder == lastOut.sequence < sequence - count

RingInv ==
  /\ TypeOK
  /\ WindowOfNewest
  /\ EveryPushCounted
  /\ NoLostWakeup
  /\ LossWillBeAnnounced
  /\ HandedOverIsOlder

(* A pop hands over unit k of the window.                                      *)
LEMMA PopOrder ==
  ASSUME TypeOK, WindowOfNewest, NEW k \in Waiting, PopUnit(k)
  PROVE  lastOut'.sequence = sequence - count + k
<1>1. /\ count \in 0..SlotCount /\ head \in Slots
      /\ k \in 0..(count - 1) /\ k \in 0..SlotCount
  BY RingAssumption, SMT DEF TypeOK, Waiting
<1>2. meta[Wrap(head + k)].sequence = sequence - count + k
  BY DEF WindowOfNewest, SlotAt
<1>3. meta[Wrap(head + k)] \in AuMeta
  BY <1>1, TurnIsSlot DEF TypeOK
<1>4. lastOut' = [meta[Wrap(head + k)] EXCEPT !.discontinuity = @ \/ k > 0]
  BY DEF PopUnit, SlotAt
<1>5. lastOut'.sequence = meta[Wrap(head + k)].sequence
  BY <1>3, <1>4, SMT DEF AuMeta
<1> QED BY <1>2, <1>5

(* What was handed over stays older than everything that waits: a pop hands     *)
(* over a unit of the window and drops the older ones, a push stores a newer one. *)
LEMMA OlderStep ==
  TypeOK /\ WindowOfNewest /\ HandedOverIsOlder /\ [Next]_vars => HandedOverIsOlder'
<1> SUFFICES ASSUME TypeOK, WindowOfNewest, HandedOverIsOlder, [Next]_vars
             PROVE  HandedOverIsOlder'
  OBVIOUS
<1> USE RingAssumption DEF HandedOverIsOlder
<1>1. /\ count \in 0..SlotCount /\ sequence \in Nat /\ lastOut.sequence \in Int
  BY DEF TypeOK, AuMeta
<1>2. ASSUME NEW size \in Sizes, PushTooBig(size) PROVE HandedOverIsOlder'
  BY <1>2 DEF PushTooBig
<1>3. ASSUME NEW size \in Sizes, PushStore(size) PROVE HandedOverIsOlder'
  <2>1. lastOut' = lastOut /\ sequence' = sequence + 1 /\ count' <= count + 1
        /\ count' \in Nat
    BY <1>1, <1>3, SMT DEF PushStore
  <2> QED BY <1>1, <2>1, SMT
<1>4. ASSUME PushSignal \/ WakeOnEvent \/ WakeOther PROVE HandedOverIsOlder'
  BY <1>4 DEF PushSignal, WakeOnEvent, WakeOther, ringVars, history
<1>5. ASSUME NEW k \in Waiting, PopUnit(k) PROVE HandedOverIsOlder'
  <2>1. k \in Nat /\ count' = count - (k + 1) /\ sequence' = sequence
    BY <1>1, <1>5, SMT DEF PopUnit, Waiting
  <2> QED BY <1>1, <1>5, <2>1, PopOrder, SMT
<1>6. ASSUME PopEmpty PROVE HandedOverIsOlder'
  BY <1>1, <1>6, SMT DEF PopEmpty
<1>7. ASSUME UNCHANGED vars PROVE HandedOverIsOlder'
  BY <1>7 DEF vars, ringVars, history
<1> QED BY <1>2, <1>3, <1>4, <1>5, <1>6, <1>7 DEF Next, Push, Pop

(* The ring au_ring_create makes satisfies the invariant.                       *)
LEMMA RingInvInit == Init => RingInv
<1> SUFFICES ASSUME Init PROVE RingInv
  OBVIOUS
<1>1. EveryPushCounted /\ NoLostWakeup /\ HandedOverIsOlder
  BY SMT DEF Init, EveryPushCounted, NoLostWakeup, HandedOverIsOlder, NoMeta
<1>2. LossWillBeAnnounced
  BY DEF Init, LossWillBeAnnounced
<1> QED BY <1>1, <1>2, TypeInit, WindowInit DEF RingInv

(* Each conjunct is kept by every step of au_ring_push, au_ring_pop and poll.     *)
LEMMA RingInvStep == RingInv /\ [Next]_vars => RingInv'
BY TypeStep, WindowStep, CountStep, WakeupStep, LossStep, OlderStep DEF RingInv

(* The inductive invariant holds of every state of the ring, for every number    *)
(* of slots, every slot and buffer capacity and every sequence of unit sizes.    *)
THEOREM RingInvariant == Spec => []RingInv
BY RingInvInit, RingInvStep, PTL DEF Spec

(* No push is lost sight of: handed over, counted as dropped, or waiting         *)
(* (au_ring_dropped).                                                          *)
THEOREM Accounting == Spec => []EveryPushCounted
<1>1. RingInv => EveryPushCounted
  BY DEF RingInv
<1> QED BY <1>1, RingInvariant, PTL

(* A sender asleep while units wait will be woken (au_ring_push, au_ring_pop).   *)
THEOREM WakeupSafety == Spec => []NoLostWakeup
<1>1. RingInv => NoLostWakeup
  BY DEF RingInv
<1> QED BY <1>1, RingInvariant, PTL

(* Every loss that no handed-over unit has announced will be announced           *)
(* (the field lost of struct AuRing and AuMeta.discontinuity).                 *)
THEOREM LossSafety == Spec => []LossWillBeAnnounced
<1>1. RingInv => LossWillBeAnnounced
  BY DEF RingInv
<1> QED BY <1>1, RingInvariant, PTL

(* The sender gets the units in push order and none twice (au_ring_pop).         *)
THEOREM Ordered == Spec => InOrder
<1> DEFINE Step == delivered' # delivered => lastOut'.sequence > lastOut.sequence
<1>1. RingInv /\ [Next]_vars => [Step]_vars
  <2> SUFFICES ASSUME RingInv, Next PROVE Step
    OBVIOUS
  <2>1. ASSUME NEW size \in Sizes, PushTooBig(size) \/ PushStore(size) PROVE Step
    BY <2>1 DEF PushTooBig, PushStore
  <2>2. ASSUME PushSignal \/ WakeOnEvent \/ WakeOther PROVE Step
    BY <2>2 DEF PushSignal, WakeOnEvent, WakeOther, history
  <2>3. ASSUME NEW k \in Waiting, PopUnit(k) PROVE Step
    <3>1. lastOut'.sequence = sequence - count + k
      BY <2>3, PopOrder DEF RingInv
    <3>2. /\ k \in Nat /\ count \in Nat /\ sequence \in Nat
          /\ lastOut.sequence \in Int /\ lastOut.sequence < sequence - count
      BY RingAssumption, SMT DEF RingInv, TypeOK, AuMeta, Waiting, HandedOverIsOlder
    <3> QED BY <3>1, <3>2, SMT
  <2>4. ASSUME PopEmpty PROVE Step
    BY <2>4 DEF PopEmpty
  <2> QED BY <2>1, <2>2, <2>3, <2>4 DEF Next, Push, Pop
<1> QED BY <1>1, RingInvariant, PTL DEF Spec, InOrder

-----------------------------------------------------------------------------
(* The ring is the queue of AuQueue: the units of the window, read from head.  *)
(* MediaPipeline is built on that queue.  First, about sequences.              *)

(* Sequences with the same elements are the same.                              *)
LEMMA SameElements ==
  ASSUME NEW S, NEW q \in Seq(S), NEW r \in Seq(S), Len(q) = Len(r),
         \A i \in 1..Len(q) : q[i] = r[i]
  PROVE  q = r
OBVIOUS

(* A function on 1..n is a sequence of n elements.                             *)
LEMMA FunctionIsSeq ==
  ASSUME NEW S, NEW n \in Nat, NEW q \in [1..n -> S]
  PROVE  q \in Seq(S) /\ Len(q) = n
OBVIOUS

(* The window after a push, without the oldest unit or with it (d is 1 or 0),  *)
(* is the queue with the new unit appended.                                    *)
LEMMA PushIsAppend ==
  ASSUME NEW S, NEW q \in Seq(S), NEW r \in Seq(S), NEW e \in S, NEW d \in {0, 1},
         Len(r) = Len(q) + 1 - d, d = 1 => Len(q) > 0,
         \A i \in 1..(Len(r) - 1) : r[i] = q[i + d], r[Len(r)] = e
  PROVE  r = Append(IF d = 1 THEN Tail(q) ELSE q, e)
<1>1. Len(q) \in Nat /\ Len(r) \in Nat
  OBVIOUS
<1> DEFINE kept == IF d = 1 THEN Tail(q) ELSE q
<1>2. kept \in Seq(S) /\ Len(kept) = Len(r) - 1 /\ \A i \in 1..(Len(r) - 1) : kept[i] = q[i + d]
  <2>1. CASE d = 0
    BY <1>1, <2>1
  <2>2. CASE d = 1
    <3>1. q # << >>
      BY <1>1, <2>2
    <3>2. Tail(q) \in Seq(S) /\ Len(Tail(q)) = Len(q) - 1 /\ \A i \in 1..(Len(q) - 1) : Tail(q)[i] = q[i + 1]
      BY <1>1, <3>1
    <3> QED BY <2>2, <3>2
  <2> QED BY <2>1, <2>2
<1> HIDE DEF kept
<1>3. /\ Append(kept, e) \in Seq(S) /\ Len(Append(kept, e)) = Len(r)
      /\ \A i \in 1..(Len(r) - 1) : Append(kept, e)[i] = kept[i]
      /\ Append(kept, e)[Len(r)] = e
  BY <1>2
<1>4. ASSUME NEW i \in 1..Len(r) PROVE r[i] = Append(kept, e)[i]
  <2>1. i = Len(r) \/ i \in 1..(Len(r) - 1)
    BY <1>1
  <2> QED BY <1>2, <1>3, <2>1, SMTT(30)
<1>5. r = Append(kept, e)
  BY <1>3, <1>4, SameElements, Zenon
<1> QED BY <1>5 DEF kept

(* The window after the k oldest units left is the rest of the queue.          *)
LEMMA PopIsSubSeq ==
  ASSUME NEW S, NEW q \in Seq(S), NEW k \in 1..Len(q),
         NEW r \in Seq(S), Len(r) = Len(q) - k, \A i \in 1..Len(r) : r[i] = q[k + i]
  PROVE  r = SubSeq(q, k + 1, Len(q))
<1>1. Len(q) \in Nat /\ Len(r) \in Nat /\ \A i \in (k + 1)..Len(q) : q[i] \in S
  OBVIOUS
<1>2. /\ SubSeq(q, k + 1, Len(q)) \in Seq(S) /\ Len(SubSeq(q, k + 1, Len(q))) = Len(r)
      /\ \A i \in 1..Len(r) : SubSeq(q, k + 1, Len(q))[i] = q[k + i]
  BY <1>1
<1> QED BY <1>2

-----------------------------------------------------------------------------
(* The queue read from the ring *)

Window == [i \in 1..count |-> EntryOf(meta[SlotAt(i - 1)])]

Entries == [unit : [push : Nat, size : Nat], discontinuity : BOOLEAN]

(* What a slot or the sender's meta stands for in the queue.                   *)
LEMMA EntryType == ASSUME NEW m \in AuMeta PROVE EntryOf(m) \in Entries
BY DEF AuMeta, EntryOf, UnitOf, Entries

(* The c units from slot h on are entries of a queue.                          *)
LEMMA ReadWindow ==
  ASSUME NEW c \in 0..SlotCount, NEW h \in Slots, NEW slots \in [Slots -> AuMeta],
         NEW i \in 1..c
  PROVE  EntryOf(slots[Wrap(h + (i - 1))]) \in Entries
<1>1. i - 1 \in 0..SlotCount
  BY RingAssumption
<1>2. Wrap(h + (i - 1)) \in Slots
  BY <1>1, TurnIsSlot
<1> QED BY <1>2, EntryType

(* The window is a queue of count entries, before a step and after it.         *)
LEMMA WindowNow ==
  ASSUME TypeOK
  PROVE  /\ count \in Nat /\ Window \in Seq(Entries) /\ Len(Window) = count
         /\ \A i \in 1..count : Window[i] = EntryOf(meta[Wrap(head + (i - 1))])
<1>1. Window = [i \in 1..count |-> EntryOf(meta[Wrap(head + (i - 1))])]
  BY DEF Window, SlotAt
<1>2. count \in 0..SlotCount /\ head \in Slots /\ meta \in [Slots -> AuMeta]
  BY DEF TypeOK
<1>3. \A i \in 1..count : EntryOf(meta[Wrap(head + (i - 1))]) \in Entries
  BY <1>2, ReadWindow
<1>4. count \in Nat /\ Window \in [1..count -> Entries]
  BY <1>1, <1>2, <1>3, RingAssumption
<1> QED BY <1>1, <1>4, FunctionIsSeq

LEMMA WindowThen ==
  ASSUME TypeOK'
  PROVE  /\ count' \in Nat /\ Window' \in Seq(Entries) /\ Len(Window') = count'
         /\ \A i \in 1..count' : Window'[i] = EntryOf(meta'[Wrap(head' + (i - 1))])
<1>1. Window' = [i \in 1..count' |-> EntryOf(meta'[Wrap(head' + (i - 1))])]
  BY DEF Window, SlotAt, Wrap, EntryOf, UnitOf
<1>2. count' \in 0..SlotCount /\ head' \in Slots /\ meta' \in [Slots -> AuMeta]
  BY DEF TypeOK
<1>3. \A i \in 1..count' : EntryOf(meta'[Wrap(head' + (i - 1))]) \in Entries
  BY <1>2, ReadWindow
<1>4. count' \in Nat /\ Window' \in [1..count' -> Entries]
  BY <1>1, <1>2, <1>3, RingAssumption
<1> QED BY <1>1, <1>4, FunctionIsSeq

-----------------------------------------------------------------------------
(* The steps *)

(* A unit that is stored is accepted by the queue (au_ring_push).              *)
LEMMA StoreAccepts ==
  ASSUME RingInv, TypeOK', NEW size \in Sizes, PushStore(size)
  PROVE  Queue!QNext
<1> DEFINE u == [push |-> pushes + 1, size |-> size]
           e == [unit |-> u, discontinuity |-> Gap]
<1>1. TypeOK /\ tail = Wrap(head + count)
  BY DEF RingInv, WindowOfNewest, SlotAt
<1>2. /\ meta'[Wrap(head' + (count' - 1))] = Stored(size)
      /\ \A i \in 0..(count' - 2) :
           /\ i + Shift \in 0..(count - 1)
           /\ meta'[Wrap(head' + i)] = meta[Wrap(head + (i + Shift))]
  BY <1>1, PushWindow
<1>3. /\ count \in Nat /\ Window \in Seq(Entries) /\ Len(Window) = count
      /\ \A i \in 1..count : Window[i] = EntryOf(meta[Wrap(head + (i - 1))])
  BY <1>1, WindowNow
<1>4. /\ count' \in Nat /\ Window' \in Seq(Entries) /\ Len(Window') = count'
      /\ \A i \in 1..count' : Window'[i] = EntryOf(meta'[Wrap(head' + (i - 1))])
  BY WindowThen
<1>5. /\ Shift \in {0, 1} /\ count' = count + 1 - Shift
      /\ Shift = 1 => count > 0
      /\ Shift = 1 <=> Full
  BY <1>3, RingAssumption DEF PushStore, Full, Shift
<1>6. EntryOf(Stored(size)) = e
  BY DEF EntryOf, UnitOf, Stored
<1>7. count' \in 1..count' /\ Window'[count'] = e
  BY <1>2, <1>3, <1>4, <1>5, <1>6
<1>8. ASSUME NEW i \in 1..(count' - 1) PROVE Window'[i] = Window[i + Shift]
  <2>1. /\ i - 1 \in 0..(count' - 2) /\ i \in 1..count'
        /\ i + Shift \in 1..count /\ (i - 1) + Shift = (i + Shift) - 1
    BY <1>3, <1>4, <1>5
  <2>2. meta'[Wrap(head' + (i - 1))] = meta[Wrap(head + ((i + Shift) - 1))]
    BY <1>2, <2>1
  <2> QED BY <1>3, <1>4, <2>1, <2>2
<1>9. e \in Entries
  BY <1>4, <1>7
<1> HIDE DEF e
<1>10. Window' = Append(IF Shift = 1 THEN Tail(Window) ELSE Window, e)
  <2>1. /\ Len(Window') = Len(Window) + 1 - Shift /\ (Shift = 1 => Len(Window) > 0)
        /\ \A i \in 1..(Len(Window') - 1) : Window'[i] = Window[i + Shift]
        /\ Window'[Len(Window')] = e
    BY <1>3, <1>4, <1>5, <1>7, <1>8
  <2> QED BY <1>3, <1>4, <1>5, <1>9, <2>1, PushIsAppend, ZenonT(30)
<1>11. Window' = Append(IF Len(Window) = SlotCount THEN Tail(Window) ELSE Window,
                        [unit |-> u, discontinuity |-> lost \/ Len(Window) = SlotCount])
  BY <1>3, <1>5, <1>10 DEF e, Full, Gap
<1>12. u \in [push : 1..MaxPushes, size : Sizes]
  BY <1>1, RingAssumption DEF PushStore, TypeOK
<1>13. lost' = FALSE /\ lastOut' = lastOut
  BY DEF PushStore
<1> HIDE DEF u
<1>14. Queue!Accept(u)
  BY <1>11, <1>13, Zenon DEF Queue!Accept, Window
<1> QED BY <1>12, <1>14 DEF Queue!QNext

(* The unit handed over is the k-th one of the queue (au_ring_pop).            *)
LEMMA PopDelivers ==
  ASSUME RingInv, TypeOK', NEW k \in Waiting, PopUnit(k)
  PROVE  Queue!QNext
<1>1. TypeOK /\ tail = Wrap(head + count)
  BY DEF RingInv, WindowOfNewest, SlotAt
<1>2. \A i \in 0..(count' - 1) :
        /\ (k + 1) + i \in 0..(count - 1)
        /\ meta'[Wrap(head' + i)] = meta[Wrap(head + ((k + 1) + i))]
  BY <1>1, PopWindow
<1>3. /\ count \in Nat /\ Window \in Seq(Entries) /\ Len(Window) = count
      /\ \A i \in 1..count : Window[i] = EntryOf(meta[Wrap(head + (i - 1))])
  BY <1>1, WindowNow
<1>4. /\ count' \in Nat /\ Window' \in Seq(Entries) /\ Len(Window') = count'
      /\ \A i \in 1..count' : Window'[i] = EntryOf(meta'[Wrap(head' + (i - 1))])
  BY WindowThen
<1>5. k \in Nat /\ k + 1 \in 1..count /\ count' = count - (k + 1) /\ (k + 1) - 1 = k
  BY <1>3 DEF PopUnit, Waiting
<1>6. ASSUME NEW i \in 1..count' PROVE Window'[i] = Window[(k + 1) + i]
  <2>1. /\ i - 1 \in 0..(count' - 1) /\ (k + 1) + i \in 1..count
        /\ (k + 1) + (i - 1) = ((k + 1) + i) - 1
    BY <1>3, <1>4, <1>5
  <2>2. meta'[Wrap(head' + (i - 1))] = meta[Wrap(head + (((k + 1) + i) - 1))]
    BY <1>2, <2>1
  <2> QED BY <1>3, <1>4, <2>1, <2>2
<1>7. Window' = SubSeq(Window, (k + 1) + 1, Len(Window))
  BY <1>3, <1>4, <1>5, <1>6, PopIsSubSeq
<1> DEFINE m == meta[Wrap(head + k)]
           d == m.discontinuity \/ k > 0
<1>8. m \in AuMeta
  <2>1. k \in 0..SlotCount /\ head \in Slots
    BY <1>1, <1>3, <1>5, RingAssumption DEF TypeOK
  <2> QED BY <1>1, <2>1, TurnIsSlot DEF TypeOK
<1>9. Window[k + 1] = EntryOf(m)
  BY <1>3, <1>5
<1>10. lastOut' = [m EXCEPT !.discontinuity = d]
  BY DEF PopUnit, SlotAt
<1>11. d \in BOOLEAN /\ d = (m.discontinuity \/ k + 1 > 1)
  BY <1>5
<1> HIDE DEF m, d
<1>12. EntryOf(lastOut') = [EntryOf(m) EXCEPT !.discontinuity = d]
  BY <1>8, <1>10, <1>11 DEF EntryOf, UnitOf, AuMeta
<1>13. EntryOf(m).discontinuity = m.discontinuity
  BY DEF EntryOf
<1>14. EntryOf(lastOut') = [Window[k + 1] EXCEPT !.discontinuity = @ \/ k + 1 > 1]
  BY <1>9, <1>11, <1>12, <1>13
<1>15. EntryOf(lastOut)' = EntryOf(lastOut') /\ lost' = lost
  BY DEF PopUnit, EntryOf, UnitOf
<1>16. Queue!Deliver(k + 1)
  BY <1>3, <1>5, <1>7, <1>14, <1>15, Zenon DEF Queue!Deliver, Window
<1> QED BY <1>3, <1>5, <1>16 DEF Queue!QNext, Window

(* A pop that finds nothing to hand over drains the queue (au_ring_pop).       *)
LEMMA PopDrains == ASSUME RingInv, PopEmpty PROVE Queue!QNext
<1>1. count \in Nat /\ Window \in Seq(Entries) /\ Len(Window) = count
  BY WindowNow DEF RingInv
<1>2. Window # << >> <=> count > 0
  BY <1>1
<1>3. Window' = << >>
  <2>1. count' = 0
    BY DEF PopEmpty
  <2> QED BY <2>1 DEF Window
<1>4. lost' = (lost \/ count > 0) /\ lastOut' = lastOut
  BY DEF PopEmpty
<1>5. Queue!Drain
  BY <1>2, <1>3, <1>4 DEF Queue!Drain, Window
<1> QED BY <1>5 DEF Queue!QNext

(* A unit that fits no slot is refused by the queue (au_ring_push).            *)
LEMMA TooBigRefuses == ASSUME NEW size \in Sizes, PushTooBig(size) PROVE Queue!QNext
<1>1. lost' = TRUE /\ UNCHANGED <<meta, head, count, lastOut>>
  BY DEF PushTooBig
<1>2. Queue!Refuse
  BY <1>1 DEF Queue!Refuse, SlotAt
<1> QED BY <1>2 DEF Queue!QNext

(* Wakeups are not seen by the queue.                                          *)
LEMMA WakeupsStutter == ASSUME UNCHANGED ringVars, UNCHANGED lastOut PROVE UNCHANGED Queue!qvars
BY DEF ringVars, Queue!qvars, SlotAt

-----------------------------------------------------------------------------
(* The result *)

LEMMA QueueInit == Init => Queue!QInit
<1> SUFFICES ASSUME Init PROVE Queue!QInit
  OBVIOUS
<1>1. count = 0 /\ lost = FALSE /\ lastOut = NoMeta
  BY DEF Init
<1> QED BY <1>1 DEF Queue!QInit

LEMMA QueueStep == RingInv /\ RingInv' /\ [Next]_vars => [Queue!QNext]_(Queue!qvars)
<1> SUFFICES ASSUME RingInv, RingInv', [Next]_vars PROVE Queue!QNext \/ UNCHANGED Queue!qvars
  OBVIOUS
<1>1. TypeOK'
  BY DEF RingInv
<1>2. ASSUME NEW size \in Sizes, PushTooBig(size) \/ PushStore(size) PROVE Queue!QNext
  BY <1>1, <1>2, TooBigRefuses, StoreAccepts
<1>3. ASSUME NEW k \in Waiting, PopUnit(k) PROVE Queue!QNext
  BY <1>1, <1>3, PopDelivers
<1>4. CASE PopEmpty
  BY <1>4, PopDrains
<1>5. CASE PushSignal \/ WakeOnEvent \/ WakeOther \/ UNCHANGED vars
  <2>1. UNCHANGED ringVars /\ UNCHANGED lastOut
    BY <1>5 DEF PushSignal, WakeOnEvent, WakeOther, vars, history
  <2> QED BY <2>1, WakeupsStutter
<1> QED BY <1>2, <1>3, <1>4, <1>5 DEF Next, Push, Pop

(* For every number of slots, every capacity and every sequence of sizes, the  *)
(* ring of au_ring_push and au_ring_pop is the keep-newest queue that the      *)
(* encode worker and the fan-out rely on: what waits is a queue that loses its *)
(* oldest unit only, and each loss is announced by a later unit.               *)
THEOREM RingIsQueue == Spec => ImplementsQueue
<1>1. RingInv /\ [Next]_vars => RingInv'
  BY RingInvStep
<1> QED BY <1>1, RingInvariant, QueueInit, QueueStep, PTL DEF Spec, ImplementsQueue, Queue!QSpec
=============================================================================
