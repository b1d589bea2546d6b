------------------------------ MODULE AuQueue ------------------------------
(***************************************************************************)
(* What the ring of encoded access units promises to its two users, the    *)
(* encode thread and the sender: a first-in first-out queue of at most     *)
(* Capacity units that gives up its OLDEST unit, never the new one, when a  *)
(* unit arrives and it is full, and that remembers in `lost' that the next  *)
(* unit it accepts follows a loss.  AuRing implements it with slots, a head  *)
(* and a tail; MediaPipeline is built on it.                                *)
(***************************************************************************)
EXTENDS Naturals, Sequences

CONSTANTS Units,      \* what is queued
          Capacity,   \* ring->slot_count
          NoUnit      \* nothing delivered yet

VARIABLES queue,      \* the units waiting, oldest first, each with its flag
          lost,       \* the next accepted unit follows a loss
          out         \* the unit the sender got last

qvars == <<queue, lost, out>>

Entry == [unit : Units, discontinuity : BOOLEAN]

QInit ==
  /\ queue = <<>>
  /\ lost = FALSE
  /\ out = NoUnit

\* The unit does not fit any slot: lost for the viewer like an overwritten one.
Refuse ==
  /\ lost' = TRUE
  /\ UNCHANGED <<queue, out>>

Accept(u) ==
  LET full == Len(queue) = Capacity
      kept == IF full THEN Tail(queue) ELSE queue
  IN  /\ queue' = Append(kept, [unit |-> u, discontinuity |-> lost \/ full])
      /\ lost' = FALSE
      /\ UNCHANGED out

\* The k-th waiting unit is handed over; the ones before it could not be.
Deliver(k) ==
  /\ k \in 1..Len(queue)
  /\ queue' = SubSeq(queue, k + 1, Len(queue))
  /\ out' = [queue[k] EXCEPT !.discontinuity = @ \/ k > 1]
  /\ UNCHANGED lost

\* Nothing (more) can be handed over.
Drain ==
  /\ queue' = <<>>
  /\ lost' = (lost \/ queue # <<>>)
  /\ UNCHANGED out

QNext ==
  \/ Refuse
  \/ \E u \in Units : Accept(u)
  \/ \E k \in 1..Len(queue) : Deliver(k)
  \/ Drain

QSpec == QInit /\ [][QNext]_qvars
=============================================================================
