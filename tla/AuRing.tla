------------------------------- MODULE AuRing -------------------------------
(***************************************************************************)
(* src/media/au_ring.c: the ring of encoded access units between the       *)
(* encode thread (producer) and the sender (consumer: the main loop of the  *)
(* native server, the media thread of the libpeer server), with the eventfd  *)
(* that wakes the sender.                                                   *)
(*                                                                         *)
(* Every critical section of ring->lock is one step.  The write to the      *)
(* eventfd happens after the unlock and is a step of its own, so a pop may   *)
(* run between the two.  A unit is its size and, as history, the number of   *)
(* the push that brought it; the pts, the keyframe bit and the bytes travel  *)
(* with it and play no part here.                                            *)
(***************************************************************************)
EXTENDS Integers

CONSTANTS SlotCount,        \* ring->slot_count (8 in both servers)
          SlotCapacity,     \* ring->slot_capacity
          BufferCapacity,   \* the capacity the sender passes to au_ring_pop
          Sizes,            \* the sizes of the units that are pushed
          MaxPushes         \* bound: how many pushes are explored

ASSUME RingAssumption ==
  /\ SlotCount \in Nat \ {0}
  /\ SlotCapacity \in Nat
  /\ BufferCapacity \in Nat
  /\ Sizes \subseteq Nat \ {0}
  /\ MaxPushes \in Nat

VARIABLES meta,       \* ring->meta, one record per slot
          head,       \* next slot to read
          tail,       \* next slot to write
          count,
          lost,       \* next pushed unit follows a loss
          sequence,   \* ring->sequence
          dropped,    \* ring->dropped
          event,      \* ring->event_fd is readable
          producer,   \* "idle", or "signal" between the unlock and the write
          consumer,   \* "poll" asleep on the eventfd, or "drain" popping
          pushes,     \* history: pushes so far
          delivered,  \* history: units handed to the sender
          lastOut,    \* history: the meta the sender got last
          owed        \* history: a loss happened that no delivered unit has
                      \* announced yet

ringVars == <<meta, head, tail, count, lost, sequence, dropped>>
history  == <<pushes, delivered, lastOut, owed>>
vars     == <<ringVars, event, producer, consumer, history>>

Slots == 0..(SlotCount - 1)

AuMeta == [push : Nat, sequence : Int, discontinuity : BOOLEAN, size : Nat]

NoMeta == [push |-> 0, sequence |-> -1, discontinuity |-> FALSE, size |-> 0]

Wrap(a) == a % SlotCount

Succ(slot) == Wrap(slot + 1)

\* The slot of the i-th waiting unit, the oldest being number 0.
SlotAt(i) == Wrap(head + i)

Waiting == 0..(count - 1)

Deliverable(i) == meta[SlotAt(i)].size <= BufferCapacity

Init ==
  /\ meta = [s \in Slots |-> [NoMeta EXCEPT !.sequence = 0]]
  /\ head = 0 /\ tail = 0 /\ count = 0
  /\ lost = FALSE
  /\ sequence = 0
  /\ dropped = 0
  /\ event = FALSE
  /\ producer = "idle"
  /\ consumer = "poll"
  /\ pushes = 0 /\ delivered = 0
  /\ lastOut = NoMeta
  /\ owed = FALSE

-----------------------------------------------------------------------------
(* Slips one could make in this code; the runs are repeated with each of them  *)
(* to show that the properties notice.                                         *)

\* The overwrite path forgets to advance head.
MutHeadAfterPush == head
\* The overwrite path forgets ring->lost = 1.
MutGap == lost
\* The producer never writes the eventfd.
MutPushSignal ==
  /\ producer = "signal"
  /\ producer' = "idle"
  /\ UNCHANGED <<ringVars, event, consumer, history>>

-----------------------------------------------------------------------------
(* au_ring_push *)

Full == count = SlotCount

\* A full ring gives up its oldest unit ...
HeadAfterPush == IF Full THEN Succ(head) ELSE head
\* ... counts it ...
DroppedByPush == IF Full THEN 1 ELSE 0
\* ... and remembers the loss for the unit being stored.
Gap == lost \/ Full

\* The unit does not fit a slot at all: -1, nothing is signalled.
PushTooBig(size) ==
  /\ producer = "idle"
  /\ pushes < MaxPushes
  /\ size > SlotCapacity
  /\ lost' = TRUE
  /\ dropped' = dropped + 1
  /\ pushes' = pushes + 1
  /\ owed' = TRUE
  /\ UNCHANGED <<meta, head, tail, count, sequence, event, producer, consumer,
                 delivered, lastOut>>

\* The unit is stored; when the ring is full it takes the oldest one's place.
PushStore(size) ==
  /\ producer = "idle"
  /\ pushes < MaxPushes
  /\ size <= SlotCapacity
  /\ head' = HeadAfterPush
  /\ meta' = [meta EXCEPT ![tail] =
                [push |-> pushes + 1, sequence |-> sequence,
                 discontinuity |-> Gap, size |-> size]]
  /\ tail' = Succ(tail)
  /\ count' = IF Full THEN count ELSE count + 1
  /\ dropped' = dropped + DroppedByPush
  /\ lost' = FALSE
  /\ sequence' = sequence + 1
  /\ producer' = "signal"
  /\ pushes' = pushes + 1
  /\ owed' = (owed \/ Full)
  /\ UNCHANGED <<event, consumer, delivered, lastOut>>

\* The write to the eventfd, after the unlock.
PushSignal ==
  /\ producer = "signal"
  /\ event' = TRUE
  /\ producer' = "idle"
  /\ UNCHANGED <<ringVars, consumer, history>>

Push == \E size \in Sizes : PushTooBig(size) \/ PushStore(size)

-----------------------------------------------------------------------------
(* au_ring_pop, called in a loop until it returns 0 *)

\* Unit k is copied out; the k older ones do not fit the sender's buffer.
PopUnit(k) ==
  LET m == meta[SlotAt(k)]
  IN  /\ consumer = "drain"
      /\ Deliverable(k)
      /\ \A i \in 0..(k - 1) : ~Deliverable(i)
      /\ head' = Succ(SlotAt(k))
      /\ count' = count - (k + 1)
      /\ dropped' = dropped + k
      /\ delivered' = delivered + 1
      /\ lastOut' = [m EXCEPT !.discontinuity = @ \/ k > 0]
      /\ owed' = ((owed \/ k > 0) /\ ~lastOut'.discontinuity)
      /\ UNCHANGED <<meta, tail, lost, sequence, event, producer, consumer,
                     pushes>>

\* No unit that fits is left: the wakeup is cleared under the lock.
PopEmpty ==
  /\ consumer = "drain"
  /\ \A i \in Waiting : ~Deliverable(i)
  /\ head' = SlotAt(count)
  /\ count' = 0
  /\ dropped' = dropped + count
  /\ lost' = (lost \/ count > 0)
  /\ event' = FALSE
  /\ consumer' = "poll"
  /\ owed' = (owed \/ count > 0)
  /\ UNCHANGED <<meta, tail, sequence, producer, pushes, delivered, lastOut>>

Pop == (\E k \in Waiting : PopUnit(k)) \/ PopEmpty

-----------------------------------------------------------------------------
(* poll() in server_poll and in media_thread *)

\* The eventfd is readable.
WakeOnEvent ==
  /\ consumer = "poll"
  /\ event
  /\ consumer' = "drain"
  /\ UNCHANGED <<ringVars, event, producer, history>>

\* Another descriptor or the timeout ended the poll: the ring is tried anyway.
WakeOther ==
  /\ consumer = "poll"
  /\ consumer' = "drain"
  /\ UNCHANGED <<ringVars, event, producer, history>>

Next == Push \/ PushSignal \/ Pop \/ WakeOnEvent \/ WakeOther

Spec == Init /\ [][Next]_vars

(* The encode thread finishes a push it started, and a sender whose eventfd   *)
(* is readable wakes and pops until the ring is empty.  Nothing is assumed of  *)
(* the timeout or of other descriptors.                                       *)
Fairness == WF_vars(PushSignal) /\ WF_vars(WakeOnEvent) /\ WF_vars(Pop)

FairSpec == Spec /\ Fairness

-----------------------------------------------------------------------------
(* Properties *)

\* The types of the ring's fields (struct AuRing) and of the history.
TypeOK ==
  /\ meta \in [Slots -> AuMeta]
  /\ head \in Slots /\ tail \in Slots
  /\ count \in 0..SlotCount
  /\ lost \in BOOLEAN
  /\ sequence \in Nat /\ dropped \in Nat
  /\ event \in BOOLEAN
  /\ producer \in {"idle", "signal"}
  /\ consumer \in {"poll", "drain"}
  /\ pushes \in Nat /\ delivered \in Nat
  /\ lastOut \in AuMeta
  /\ owed \in BOOLEAN

(* The three fields head, tail and count describe one contiguous window, and   *)
(* it holds exactly the newest stored units, in order: au_ring_push gives up    *)
(* the oldest unit and never a newer one, whatever mix of wrap-around,          *)
(* overruns and skipped units came before.                                     *)
WindowOfNewest ==
  /\ tail = SlotAt(count)
  /\ \A i \in Waiting : meta[SlotAt(i)].sequence = sequence - count + i

(* Every push is accounted for exactly once: handed over, counted in           *)
(* au_ring_dropped, or still waiting.                                          *)
EveryPushCounted == pushes = delivered + dropped + count

(* A sender asleep on the eventfd while units wait is about to be woken: the    *)
(* descriptor is readable, or the producer has yet to write it.  Clearing it    *)
(* under the lock in au_ring_pop is what makes this true.                      *)
NoLostWakeup ==
  consumer = "poll" /\ count > 0 => event \/ producer = "signal"

(* No loss goes unreported: as long as no delivered unit has announced it, a    *)
(* waiting unit carries the flag or the next unit stored will.  The flagged     *)
(* unit may itself be overwritten or skipped on the way.                       *)
LossWillBeAnnounced ==
  owed => lost \/ \E i \in Waiting : meta[SlotAt(i)].discontinuity

(* What the sender receives is in push order, without repetition, across        *)
(* overruns.                                                                   *)
InOrder == [][delivered' # delivered => lastOut'.sequence > lastOut.sequence]_vars

(* A unit that waits leaves the ring (handed over, skipped or overwritten)       *)
(* although nothing but the eventfd is sure to wake the sender.                 *)
WaitingUnitsLeave ==
  \A p \in 1..MaxPushes :
    (\E i \in Waiting : meta[SlotAt(i)].push = p)
      ~> ~(\E i \in Waiting : meta[SlotAt(i)].push = p)

-----------------------------------------------------------------------------
(* The ring implements the queue of AuQueue: the window read from head is the   *)
(* queue.                                                                      *)
UnitOf(m) == [push |-> m.push, size |-> m.size]
EntryOf(m) == [unit |-> UnitOf(m), discontinuity |-> m.discontinuity]

Queue == INSTANCE AuQueue WITH
  Units    <- [push : 1..MaxPushes, size : Sizes],
  Capacity <- SlotCount,
  NoUnit   <- EntryOf(NoMeta),
  queue    <- [i \in 1..count |-> EntryOf(meta[SlotAt(i - 1)])],
  lost     <- lost,
  out      <- EntryOf(lastOut)

(* Every step of the ring is a step of the keep-newest queue, or none.          *)
ImplementsQueue == Queue!QSpec
=============================================================================
