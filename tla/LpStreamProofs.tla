---------------------------- MODULE LpStreamProofs ----------------------------
(***************************************************************************)
(* For every number of slots, viewers, units and losses and every size of  *)
(* the mailbox: the frames of the libpeer server are counted exactly, no   *)
(* session is used after it was freed, and what is handed to libpeer       *)
(* starts, and goes on after a flush, on an IDR.                           *)
(***************************************************************************)
EXTENDS LpStream, TLAPS

-----------------------------------------------------------------------------
(* The inductive invariant *)

Unit == [nr: Nat, idr: BOOLEAN]
States == {"new", "checking", "connected", "failed", "closed"}
Spots == {"top", "wait", "drop", "loop", "after", "send", "end", "finish", "done"}

Session ==
    [mem: {"none", "live"}, at: Spots, state: States, answer: BOOLEAN,
     taken: BOOLEAN, got: BOOLEAN, stop: BOOLEAN, resync: BOOLEAN,
     queue: Seq(Unit), batch: Seq(Unit), connected: BOOLEAN, finished: BOOLEAN,
     waiting: BOOLEAN, age: Nat, last: 0..MaxUnits]

Busy == media.at \in {"slot", "resync", "push"}   \* inside sessions_lock

\* The media thread: where it is, and what it has.
MediaRecord ==
    [at: {"poll", "lock", "slot", "resync", "push", "done"}, slot: 0..MaxSlots + 1,
     unit: Unit, flag: BOOLEAN, frame: BOOLEAN, gap: BOOLEAN]
MediaInv ==
    /\ media \in MediaRecord
    /\ slock = IF Busy THEN "media" ELSE "free"
    /\ Busy => media.slot # 0
    /\ media.at \in {"resync", "push"} =>
         media.slot \in Slots /\ table[media.slot] /\ media.frame
    /\ media.at \in {"lock", "slot", "resync", "push"} =>
         media.unit.nr = Len(refs) /\ media.unit.nr \in 1..MaxUnits
    /\ media.frame => Busy
    /\ media.at = "done" => main.at \in {"join_media", "quit"}

\* The main thread: whose session it has in hand.
InHand(i) == main.at \in {"insert", "destroy"} /\ main.slot = i
MainInv ==
    /\ main \in [at: {"loop", "insert", "destroy", "join_media", "quit"},
                 slot: 0..MaxSlots + 1]
    /\ main.at \in {"insert", "destroy"} => main.slot \in Slots /\ ~table[main.slot]
    /\ main.at = "quit" =>
         media.at = "done" /\ \A i \in Slots : i < main.slot => ~table[i]

\* Nothing has happened to the session so far that its thread could act upon.
Fresh(s) == ~s.answer /\ ~s.got /\ s.state = "new" /\ s.queue = <<>>

\* A session not in the table is the one in hand, or none.
TableInv ==
    /\ table \in [Slots -> BOOLEAN]
    /\ \A i \in Slots :
         /\ table[i] \/ InHand(i) => sess[i].mem = "live"
         /\ ~table[i] /\ ~InHand(i) => sess[i] = NoSession
         /\ main.at = "insert" /\ main.slot = i => Fresh(sess[i])

\* What a session thread's place says of its session.
ThreadInv(s) ==
    /\ s.at # "send" => s.batch = <<>>
    /\ s.at \in {"wait", "drop"} => s.state = "new"
    /\ s.at = "loop" => s.state \in {"checking", "connected"}
    /\ s.at = "send" => s.state = "connected" /\ s.connected
    /\ s.at \in {"end", "finish", "done"} => s.stop \/ s.state # "connected"
    /\ s.state = "new" => s.at \notin {"loop", "after", "send"}
    /\ s.state \in {"new", "checking"} => ~s.connected
    /\ s.finished <=> s.mem = "live" /\ s.at = "done"

\* The number of the unit slot i gets next.
Expected(i) ==
    IF media.at = "lock" \/ (Busy /\ media.slot <= i) THEN media.unit.nr ELSE Len(refs) + 1

\* Frames are taken and kept in the order of their units.
Sorted(s, e) ==
    /\ Len(s.queue) <= Mailbox /\ Len(s.batch) <= Mailbox
    /\ \A k \in DOMAIN s.queue : s.queue[k].nr \in 1..e - 1
    /\ \A k \in DOMAIN s.batch : s.batch[k].nr \in 1..e - 1
    /\ \A j, k \in DOMAIN s.queue : j < k => s.queue[j].nr < s.queue[k].nr
    /\ \A j, k \in DOMAIN s.batch : j < k => s.batch[j].nr < s.batch[k].nr
    /\ \A j \in DOMAIN s.batch, k \in DOMAIN s.queue : s.batch[j].nr < s.queue[k].nr

\* The slots that hold the frame of unit n.
Holds(s, n) == \/ \E k \in DOMAIN s.queue : s.queue[k].nr = n
               \/ \E k \in DOMAIN s.batch : s.batch[k].nr = n
Where(n) == {i \in Slots : Holds(sess[i], n)}
Counted ==
    \A n \in Units :
       refs[n] = Cardinality(Where(n)) + IF media.frame /\ media.unit.nr = n THEN 1 ELSE 0

\* Nobody has the frame before it is made.
Unseen == Busy /\ ~media.frame => Where(media.unit.nr) = {}

RefsInv ==
    /\ sess \in [Slots -> Session] /\ refs \in Seq(Int) /\ Len(refs) <= MaxUnits
    /\ force_idr \in BOOLEAN /\ media_active \in BOOLEAN
    /\ MediaInv /\ MainInv /\ TableInv
    /\ \A i \in Slots : ThreadInv(sess[i]) /\ Sorted(sess[i], Expected(i))
    /\ Counted /\ Unseen

\* Nothing is missing between one frame and the next.
NoGap(fs) == \A k \in 1..Len(fs) - 1 : fs[k + 1].nr = fs[k].nr + 1

\* What was handed over last when the batch is through.
Reached(s) == IF s.batch = <<>> THEN s.last ELSE s.batch[Len(s.batch)].nr
\* The mailbox goes on where the batch ends.
GoesOn(s) ==
    s.state = "connected" /\ s.connected /\ ~s.resync /\ (s.waiting => s.batch # <<>>)

Chained(s, e, taking) ==
    /\ NoGap(s.queue) /\ NoGap(s.batch)
    /\ ~s.waiting /\ s.batch # <<>> => s.batch[1].nr = s.last + 1
    /\ GoesOn(s) /\ s.queue # <<>> => s.queue[1].nr = Reached(s) + 1
    /\ taking /\ s.queue # <<>> => e = s.queue[Len(s.queue)].nr + 1
    /\ taking /\ GoesOn(s) /\ s.queue = <<>> => e = Reached(s) + 1

Taking(i) == table[i] /\ ~sess[i].stop /\ ~sess[i].finished

ChainInv ==
    /\ losses \in Nat
    /\ losses = 0 => /\ ~media.gap /\ ~media.flag
                     /\ \A i \in Slots : Chained(sess[i], Expected(i), Taking(i))

-----------------------------------------------------------------------------
(* Counting *)

\* What the steps need of Cardinality.  It is proved where it is needed last, in
\* front of the theorems.
CountingLaws ==
    /\ Cardinality({}) = 0 /\ \A x : Cardinality({x}) = 1
    /\ \A S \in SUBSET Slots : Cardinality(S) \in Nat
    /\ \A S \in SUBSET Slots, x \in Slots :
         /\ x \notin S => Cardinality(S \cup {x}) = Cardinality(S) + 1
         /\ x \in S => Cardinality(S \ {x}) = Cardinality(S) - 1

-----------------------------------------------------------------------------
(* Sequences of frames *)

LEMMA TailOf ==
  ASSUME NEW fs \in Seq(Unit), fs # <<>>
  PROVE  /\ Len(fs) \in Nat \ {0} /\ fs[1] \in Unit /\ Head(fs) = fs[1]
         /\ Tail(fs) \in Seq(Unit) /\ Len(Tail(fs)) = Len(fs) - 1
         /\ \A k \in 1..Len(fs) - 1 : Tail(fs)[k] = fs[k + 1]
         /\ DOMAIN Tail(fs) = 1..Len(fs) - 1
OBVIOUS

LEMMA AppendTo ==
  ASSUME NEW fs \in Seq(Unit), NEW u \in Unit
  PROVE  /\ Append(fs, u) \in Seq(Unit) /\ Len(Append(fs, u)) = Len(fs) + 1
         /\ Append(fs, u) # <<>>
         /\ \A k \in 1..Len(fs) : Append(fs, u)[k] = fs[k]
         /\ Append(fs, u)[Len(fs) + 1] = u
         /\ DOMAIN Append(fs, u) = 1..Len(fs) + 1
OBVIOUS

(* Frames of different units are different: each is in a sequence once.        *)
LEMMA CountOnce ==
  ASSUME CountingLaws, NEW fs \in Seq(Unit), NEW n,
         \A j, k \in DOMAIN fs : j < k => fs[j].nr < fs[k].nr
  PROVE  Cardinality({k \in DOMAIN fs : fs[k].nr = n})
           = IF \E k \in DOMAIN fs : fs[k].nr = n THEN 1 ELSE 0
<1> DEFINE K == {k \in DOMAIN fs : fs[k].nr = n}
<1>1. CASE \E k \in DOMAIN fs : fs[k].nr = n
  <2>1. PICK k \in DOMAIN fs : fs[k].nr = n
    BY <1>1
  <2>2. ASSUME NEW j \in K PROVE j = k
    <3>1. j \in DOMAIN fs /\ fs[j].nr = n /\ j \in Nat /\ k \in Nat
      OBVIOUS
    <3>2. fs[j] \in Unit /\ fs[k] \in Unit
      BY <3>1
    <3>3. fs[j].nr \in Nat /\ fs[k].nr \in Nat
      BY <3>2 DEF Unit
    <3> QED BY <2>1, <3>1, <3>3
  <2>3. K = {k}
    BY <2>1, <2>2
  <2>4. Cardinality(K) = 1
    BY <2>3, Zenon DEF CountingLaws
  <2> QED BY <1>1, <2>4, Zenon
<1>2. CASE ~\E k \in DOMAIN fs : fs[k].nr = n
  <2>1. K = {}
    BY <1>2
  <2>2. Cardinality(K) = 0
    BY <2>1, Zenon DEF CountingLaws
  <2> QED BY <1>2, <2>2, Zenon
<1> QED BY <1>1, <1>2

(* No frames at all.                                                           *)
LEMMA EmptyIs == <<>> \in Seq(Unit) /\ Len(<<>>) = 0 /\ DOMAIN <<>> = {}
OBVIOUS

LEMMA EmptyHasNone == ASSUME NEW fs \in Seq(Unit) PROVE fs = <<>> <=> Len(fs) = 0
OBVIOUS
-----------------------------------------------------------------------------
(* What becomes of a session's frames *)

(* They stay where they are.                                                   *)
LEMMA SameFrames ==
  ASSUME NEW s \in Session, NEW t \in Session, NEW e \in Nat, Sorted(s, e),
         t.queue = s.queue, t.batch = s.batch
  PROVE  Sorted(t, e) /\ \A n : Holds(t, n) <=> Holds(s, n)
BY Zenon DEF Sorted, Holds

LEMMA SameChain ==
  ASSUME NEW s \in Session, NEW t \in Session, NEW e \in Nat,
         NEW open \in BOOLEAN, NEW still \in BOOLEAN, Chained(s, e, open),
         t.queue = s.queue, t.batch = s.batch, t.last = s.last, t.waiting = s.waiting,
         still => open, GoesOn(t) => GoesOn(s)
  PROVE  Chained(t, e, still)
<1>1. Reached(t) = Reached(s)
  BY Zenon DEF Reached
<1> QED BY <1>1, Zenon DEF Chained

(* The mailbox is emptied, and nothing is on its way (drop_frames).            *)
LEMMA NoFrames ==
  ASSUME NEW t \in Session, NEW e \in Nat, t.queue = <<>>, t.batch = <<>>
  PROVE  Sorted(t, e) /\ \A n : ~Holds(t, n)
<1>1. Len(t.queue) = 0 /\ DOMAIN t.queue = {} /\ Len(t.batch) = 0 /\ DOMAIN t.batch = {}
  BY EmptyIs, Zenon
<1>2. 0 <= Mailbox
  BY StreamAssumption
<1> QED BY <1>1, <1>2, Zenon DEF Sorted, Holds

LEMMA NoChain ==
  ASSUME NEW t \in Session, NEW e \in Nat, NEW still \in BOOLEAN,
         t.queue = <<>>, t.batch = <<>>, ~(still /\ GoesOn(t))
  PROVE  Chained(t, e, still)
<1>1. NoGap(t.queue) /\ NoGap(t.batch)
  BY EmptyIs DEF NoGap
<1> QED BY <1>1, Zenon DEF Chained

(* The mailbox becomes the batch (take_frames).                                *)
LEMMA TakenFrames ==
  ASSUME NEW s \in Session, NEW t \in Session, NEW e \in Nat, Sorted(s, e),
         s.batch = <<>>, t.queue = <<>>, t.batch = s.queue
  PROVE  Sorted(t, e) /\ \A n : Holds(t, n) <=> Holds(s, n)
<1>1. Len(t.queue) = 0 /\ DOMAIN t.queue = {} /\ DOMAIN s.batch = {}
  BY EmptyIs, Zenon
<1>2. 0 <= Mailbox
  BY StreamAssumption
<1> QED BY <1>1, <1>2, Zenon DEF Sorted, Holds

LEMMA TakenChain ==
  ASSUME NEW s \in Session, NEW t \in Session, NEW e \in Nat, NEW open \in BOOLEAN,
         Chained(s, e, open), s.batch = <<>>, t.queue = <<>>, t.batch = s.queue,
         s.state = "connected", t.last = s.last, t.waiting = NowWaiting(s)
  PROVE  Chained(t, e, open)
<1>1. NoGap(t.queue) /\ NoGap(t.batch)
  <2>1. NoGap(t.queue)
    BY EmptyIs DEF NoGap
  <2>2. NoGap(t.batch)
    BY Zenon DEF Chained
  <2> QED BY <2>1, <2>2
<1>2. Reached(s) = s.last
  BY Zenon DEF Reached
<1>3. ~t.waiting => GoesOn(s)
  BY Zenon DEF NowWaiting, GoesOn
<1>4. ~t.waiting /\ t.batch # <<>> => t.batch[1].nr = t.last + 1
  BY <1>2, <1>3, Zenon DEF Chained
<1>5. CASE t.batch = <<>>
  <2>1. Reached(t) = Reached(s)
    BY <1>2, <1>5, Zenon DEF Reached
  <2>2. GoesOn(t) => GoesOn(s)
    BY <1>3, <1>5 DEF GoesOn
  <2> QED BY <1>1, <1>4, <1>5, <2>1, <2>2, Zenon DEF Chained
<1>6. CASE t.batch # <<>>
  <2>1. Reached(t) = s.queue[Len(s.queue)].nr
    BY <1>6, Zenon DEF Reached
  <2> QED BY <1>1, <1>4, <1>6, <2>1, Zenon DEF Chained
<1> QED BY <1>5, <1>6

(* The first frame of the batch leaves it, handed over or skipped              *)
(* (send_frames).                                                              *)
LEMMA SentFrames ==
  ASSUME NEW s \in Session, NEW t \in Session, NEW e \in Nat, Sorted(s, e),
         s.batch # <<>>, t.queue = s.queue, t.batch = Tail(s.batch)
  PROVE  /\ Sorted(t, e)
         /\ \A n : Holds(t, n) <=> Holds(s, n) /\ n # Head(s.batch).nr
         /\ Holds(s, Head(s.batch).nr)
<1>1. s.queue \in Seq(Unit) /\ s.batch \in Seq(Unit)
  BY DEF Session
<1>2. /\ Len(s.batch) \in Nat \ {0} /\ Head(s.batch) = s.batch[1]
      /\ Len(t.batch) = Len(s.batch) - 1
      /\ \A k \in 1..Len(s.batch) - 1 : t.batch[k] = s.batch[k + 1]
      /\ DOMAIN t.batch = 1..Len(s.batch) - 1 /\ DOMAIN s.batch = 1..Len(s.batch)
  BY <1>1, TailOf
<1>3. \A k \in DOMAIN s.batch : s.batch[k].nr \in Int
  BY DEF Sorted
<1>4. \A k \in DOMAIN s.queue : s.queue[k].nr \in Int
  BY DEF Sorted
<1>5. /\ \A k \in DOMAIN t.batch : t.batch[k].nr \in 1..e - 1
      /\ Len(t.batch) <= Mailbox
      /\ \A j, k \in DOMAIN t.batch : j < k => t.batch[j].nr < t.batch[k].nr
      /\ \A j \in DOMAIN t.batch, k \in DOMAIN t.queue : t.batch[j].nr < t.queue[k].nr
  <2>1. \A k \in DOMAIN t.batch : k + 1 \in DOMAIN s.batch /\ t.batch[k] = s.batch[k + 1]
    BY <1>2
  <2>2. Len(t.batch) <= Mailbox
    BY <1>2, StreamAssumption DEF Sorted
  <2>3. \A j, k \in DOMAIN t.batch : j < k => j + 1 < k + 1
    BY <1>2
  <2> QED BY <2>1, <2>2, <2>3, Zenon DEF Sorted
<1>6. Sorted(t, e)
  BY <1>5, Zenon DEF Sorted
<1>7. \A k \in DOMAIN s.batch : k = 1 \/ (k - 1 \in DOMAIN t.batch /\ t.batch[k - 1] = s.batch[k])
  BY <1>2
<1>8. \A k \in DOMAIN t.batch : k + 1 \in DOMAIN s.batch /\ t.batch[k] = s.batch[k + 1]
                                /\ s.batch[k + 1].nr # s.batch[1].nr
  <2>1. ASSUME NEW k \in DOMAIN t.batch
        PROVE  /\ k + 1 \in DOMAIN s.batch /\ t.batch[k] = s.batch[k + 1]
               /\ 1 \in DOMAIN s.batch /\ 1 < k + 1
    BY <1>2
  <2>2. ASSUME NEW k \in DOMAIN t.batch PROVE s.batch[1].nr < s.batch[k + 1].nr
    BY <2>1, Zenon DEF Sorted
  <2> QED BY <1>3, <2>1, <2>2
<1>9. 1 \in DOMAIN s.batch
  BY <1>2
<1>10. \A k \in DOMAIN s.queue : s.queue[k].nr # s.batch[1].nr
  <2>1. ASSUME NEW k \in DOMAIN s.queue PROVE s.batch[1].nr < s.queue[k].nr
    BY <1>9 DEF Sorted
  <2> QED BY <1>3, <1>4, <1>9, <2>1
<1>11. ASSUME NEW n, Holds(t, n) PROVE Holds(s, n) /\ n # s.batch[1].nr
  BY <1>8, <1>10, <1>11, Zenon DEF Holds
<1>12. ASSUME NEW n, Holds(s, n), n # s.batch[1].nr PROVE Holds(t, n)
  BY <1>7, <1>12, Zenon DEF Holds
<1>13. Holds(s, s.batch[1].nr)
  BY <1>9, Zenon DEF Holds
<1>14. Head(s.batch) = s.batch[1]
  BY <1>2
<1> QED BY <1>6, <1>11, <1>12, <1>13, <1>14, Zenon

LEMMA SentChain ==
  ASSUME NEW s \in Session, NEW t \in Session, NEW e \in Nat, NEW open \in BOOLEAN,
         Chained(s, e, open), s.batch # <<>>, t.queue = s.queue, t.batch = Tail(s.batch),
         s.state = "connected", s.connected, t.resync = s.resync,
         \/ s.waiting /\ t.waiting /\ t.last = s.last
         \/ ~t.waiting /\ t.last = Head(s.batch).nr
  PROVE  Chained(t, e, open)
<1>1. s.batch \in Seq(Unit)
  BY DEF Session
<1>2. /\ Len(s.batch) \in Nat \ {0} /\ Head(s.batch) = s.batch[1]
      /\ Len(t.batch) = Len(s.batch) - 1
      /\ \A k \in 1..Len(s.batch) - 1 : t.batch[k] = s.batch[k + 1]
      /\ t.batch \in Seq(Unit)
  BY <1>1, TailOf
<1>3. NoGap(t.batch)
  <2>1. NoGap(s.batch)
    BY DEF Chained
  <2> QED BY <1>2, <2>1 DEF NoGap
<1>4. t.batch = <<>> <=> Len(s.batch) = 1
  <2>1. t.batch = <<>> <=> Len(t.batch) = 0
    BY <1>2, EmptyHasNone, Zenon
  <2> QED BY <1>2, <2>1
<1>5. ~t.waiting /\ t.batch # <<>> => t.batch[1].nr = t.last + 1
  <2>1. NoGap(s.batch)
    BY DEF Chained
  <2> QED BY <1>2, <1>4, <2>1 DEF NoGap
<1>6. GoesOn(t) => Reached(t) = Reached(s) /\ GoesOn(s)
  <2>1. CASE t.batch = <<>>
    BY <1>2, <1>4, <2>1, Zenon DEF GoesOn, Reached
  <2>2. CASE t.batch # <<>>
    <3>1. t.batch[Len(t.batch)] = s.batch[Len(s.batch)]
      BY <1>2, <1>4, <2>2
    <3> QED BY <2>2, <3>1 DEF GoesOn, Reached
  <2> QED BY <2>1, <2>2
<1> QED BY <1>3, <1>5, <1>6, Zenon DEF Chained

\* What a push leaves in the mailbox.
Spared(s) == IF FullMailbox(s) THEN <<>> ELSE s.queue

(* A frame is put into the mailbox (lp_session_push_frame).                    *)
LEMMA PushedFrames ==
  ASSUME NEW s \in Session, NEW t \in Session, NEW u \in Unit, u.nr # 0, Sorted(s, u.nr),
         t.batch = s.batch,
         t.queue = Append(Spared(s), u)
  PROVE  /\ Sorted(t, u.nr + 1)
         /\ \A n : Holds(t, n) <=> \/ n = u.nr
                                   \/ Holds(s, n) /\ ~(FullMailbox(s) /\ \E k \in DOMAIN s.queue :
                                                                             s.queue[k].nr = n)
         /\ ~Holds(s, u.nr)
<1> DEFINE kept == Spared(s)
<1>1. s.queue \in Seq(Unit) /\ s.batch \in Seq(Unit) /\ u.nr \in Nat \ {0}
  BY DEF Session, Unit
<1>2. kept \in Seq(Unit) /\ Len(kept) < Mailbox /\ Len(kept) \in Nat
  BY <1>1, StreamAssumption DEF Sorted, FullMailbox, Spared
<1>3. \A k \in DOMAIN kept : k \in DOMAIN s.queue /\ kept[k] = s.queue[k]
  BY <1>1 DEF Spared
<1>4. ~FullMailbox(s) => kept = s.queue
  BY Zenon DEF Spared
<1>5. FullMailbox(s) => DOMAIN kept = {}
  BY EmptyIs, Zenon DEF Spared
<1>6. t.queue = Append(kept, u)
  OBVIOUS
<1> HIDE DEF kept
<1>7. /\ Len(t.queue) = Len(kept) + 1 /\ t.queue[Len(kept) + 1] = u
      /\ \A k \in 1..Len(kept) : t.queue[k] = kept[k]
      /\ DOMAIN t.queue = 1..Len(kept) + 1 /\ DOMAIN kept = 1..Len(kept)
  <2>1. DOMAIN kept = 1..Len(kept)
    BY <1>2
  <2>2. PICK q : q = Append(kept, u)
    BY Zenon
  <2>3. /\ Len(q) = Len(kept) + 1 /\ q[Len(kept) + 1] = u
        /\ \A k \in 1..Len(kept) : q[k] = kept[k]
        /\ DOMAIN q = 1..Len(kept) + 1
    BY <1>2, <2>2, AppendTo
  <2> QED BY <1>6, <2>1, <2>2, <2>3, Zenon
<1>8. /\ \A k \in DOMAIN s.queue : s.queue[k].nr \in 1..u.nr - 1
      /\ \A k \in DOMAIN s.batch : s.batch[k].nr \in 1..u.nr - 1
      /\ Len(t.batch) <= Mailbox
  BY Zenon DEF Sorted
<1>9. \A k \in DOMAIN t.queue : \/ k = Len(kept) + 1 /\ t.queue[k] = u
                                \/ k \in DOMAIN kept /\ k \in DOMAIN s.queue /\ t.queue[k] = s.queue[k]
  BY <1>3, <1>7, <1>2
<1>10. /\ Len(t.queue) <= Mailbox
       /\ \A k \in DOMAIN t.queue : t.queue[k].nr \in 1..(u.nr + 1) - 1
       /\ \A k \in DOMAIN t.batch : t.batch[k].nr \in 1..(u.nr + 1) - 1
  <2>1. Len(t.queue) <= Mailbox
    BY <1>2, <1>7, StreamAssumption
  <2>2. ASSUME NEW k \in DOMAIN t.queue PROVE t.queue[k].nr \in 1..(u.nr + 1) - 1
    <3>1. CASE t.queue[k] = u
      BY <1>1, <3>1
    <3>2. CASE k \in DOMAIN s.queue /\ t.queue[k] = s.queue[k]
      BY <1>1, <1>8, <3>2
    <3> QED BY <1>9, <2>2, <3>1, <3>2
  <2>3. ASSUME NEW k \in DOMAIN s.batch PROVE s.batch[k].nr \in 1..(u.nr + 1) - 1
    BY <1>1, <1>8, <2>3
  <2> QED BY <2>1, <2>2, <2>3, Zenon
<1>11. \A j, k \in DOMAIN t.queue : j < k => t.queue[j].nr < t.queue[k].nr
  <2>1. ASSUME NEW j \in DOMAIN t.queue, NEW k \in DOMAIN t.queue, j < k
        PROVE  t.queue[j].nr < t.queue[k].nr
    <3>1. j \in DOMAIN kept /\ j \in DOMAIN s.queue /\ t.queue[j] = s.queue[j]
      BY <1>2, <1>7, <1>9, <2>1
    <3>2. CASE k = Len(kept) + 1 /\ t.queue[k] = u
      BY <1>1, <1>8, <3>1, <3>2
    <3>3. CASE k \in DOMAIN s.queue /\ t.queue[k] = s.queue[k]
      BY <2>1, <3>1, <3>3, Zenon DEF Sorted
    <3> QED BY <1>9, <3>2, <3>3
  <2> QED BY <2>1
<1>12. \A j \in DOMAIN t.batch, k \in DOMAIN t.queue : t.batch[j].nr < t.queue[k].nr
  <2>1. ASSUME NEW j \in DOMAIN t.batch, NEW k \in DOMAIN t.queue
        PROVE  t.batch[j].nr < t.queue[k].nr
    <3>1. CASE t.queue[k] = u
      BY <1>1, <1>8, <3>1
    <3>2. CASE k \in DOMAIN s.queue /\ t.queue[k] = s.queue[k]
      BY <3>2, Zenon DEF Sorted
    <3> QED BY <1>9, <3>1, <3>2
  <2> QED BY <2>1
<1>13. \A j, k \in DOMAIN t.batch : j < k => t.batch[j].nr < t.batch[k].nr
  BY Zenon DEF Sorted
<1>14. Sorted(t, u.nr + 1)
  BY <1>8, <1>10, <1>11, <1>12, <1>13, Zenon DEF Sorted
<1>15. ~Holds(s, u.nr)
  BY <1>1, <1>8 DEF Holds
<1>16. \A n : (\E k \in DOMAIN t.queue : t.queue[k].nr = n)
                <=> n = u.nr \/ (~FullMailbox(s) /\ \E k \in DOMAIN s.queue : s.queue[k].nr = n)
  <2>1. Len(kept) + 1 \in DOMAIN t.queue
    BY <1>2, <1>7
  <2>2. ~FullMailbox(s) => \A k \in DOMAIN s.queue : k \in DOMAIN t.queue /\ t.queue[k] = s.queue[k]
    BY <1>2, <1>4, <1>7
  <2> QED BY <1>5, <1>7, <1>9, <2>1, <2>2, Zenon
<1>17. \A n, k : k \in DOMAIN s.batch /\ s.batch[k].nr = n
                  => ~\E j \in DOMAIN s.queue : s.queue[j].nr = n
  <2>1. ASSUME NEW k \in DOMAIN s.batch, NEW j \in DOMAIN s.queue
        PROVE  s.batch[k].nr # s.queue[j].nr
    <3>1. s.batch[k].nr < s.queue[j].nr
      BY Zenon DEF Sorted
    <3> QED BY <1>8, <3>1
  <2> QED BY <2>1
<1> QED BY <1>14, <1>15, <1>16, <1>17, Zenon DEF Holds

LEMMA PushedChain ==
  ASSUME NEW s \in Session, NEW t \in Session, NEW u \in Unit, Chained(s, u.nr, TRUE),
         t.batch = s.batch, t.last = s.last, t.waiting = s.waiting, t.state = s.state,
         t.connected = s.connected, t.resync = ResyncAfterFlush(s),
         t.queue = Append(Spared(s), u)
  PROVE  Chained(t, u.nr + 1, TRUE)
<1> DEFINE kept == Spared(s)
<1>1. s.queue \in Seq(Unit) /\ kept \in Seq(Unit) /\ u.nr \in Nat
  BY EmptyIs DEF Session, Unit, Spared
<1>2. t.queue = Append(kept, u) /\ (FullMailbox(s) => kept = <<>>) /\ (~FullMailbox(s) => kept = s.queue)
  BY Zenon DEF Spared
<1> HIDE DEF kept
<1>3. /\ Len(t.queue) = Len(kept) + 1 /\ t.queue[Len(kept) + 1] = u /\ t.queue # <<>>
      /\ \A k \in 1..Len(kept) : t.queue[k] = kept[k]
      /\ Len(kept) \in Nat
  BY <1>1, <1>2, AppendTo
<1>4. NoGap(kept)
  BY <1>2, EmptyIs DEF NoGap, Chained
<1>5. kept # <<>> => u.nr = kept[Len(kept)].nr + 1 /\ Len(kept) # 0
  BY <1>1, <1>2, EmptyHasNone, Zenon DEF Chained
<1>6. NoGap(t.queue)
  <2>1. ASSUME NEW k \in 1..Len(t.queue) - 1 PROVE t.queue[k + 1].nr = t.queue[k].nr + 1
    <3>1. CASE k = Len(kept)
      <4>1. kept # <<>>
        BY <1>3, <3>1, EmptyIs
      <4> QED BY <1>3, <1>5, <3>1, <4>1
    <3>2. CASE k # Len(kept)
      BY <1>3, <1>4, <3>2 DEF NoGap
    <3> QED BY <3>1, <3>2
  <2> QED BY <2>1 DEF NoGap
<1>7. t.queue[Len(t.queue)].nr = u.nr
  BY <1>3
<1>8. Reached(t) = Reached(s)
  BY Zenon DEF Reached
<1>9. GoesOn(t) => ~FullMailbox(s) /\ GoesOn(s)
  BY Zenon DEF GoesOn, ResyncAfterFlush
<1>10. GoesOn(t) => t.queue[1].nr = Reached(t) + 1
  <2>1. CASE kept = <<>>
    <3>1. t.queue[1] = u
      BY <1>3, <2>1, EmptyIs
    <3>2. GoesOn(t) => s.queue = <<>> /\ GoesOn(s)
      BY <1>2, <1>9, <2>1
    <3> QED BY <1>8, <3>1, <3>2, Zenon DEF Chained
  <2>2. CASE kept # <<>>
    <3>1. t.queue[1] = kept[1]
      BY <1>3, <1>5, <2>2
    <3>2. GoesOn(t) => kept = s.queue /\ s.queue # <<>> /\ GoesOn(s)
      BY <1>2, <1>9, <2>2
    <3> QED BY <1>8, <3>1, <3>2, Zenon DEF Chained
  <2> QED BY <2>1, <2>2
<1> QED BY <1>3, <1>6, <1>7, <1>10, Zenon DEF Chained
-----------------------------------------------------------------------------
(* The steps of a session thread, as far as its session goes *)

\* What holds of the session in a slot that gets unit e next.
Good(s, e) == s \in Session /\ ThreadInv(s) /\ Sorted(s, e)

\* A step from s to t that gives the frames fs back.
GivesBack(s, t, fs) ==
    \A n : /\ Holds(t, n) => Holds(s, n)
           /\ Cardinality({k \in DOMAIN fs : fs[k].nr = n})
                = IF Holds(s, n) /\ ~Holds(t, n) THEN 1 ELSE 0

(* No frame, the whole mailbox, or the first of the batch.                     *)
LEMMA GivesNone ==
  ASSUME CountingLaws, NEW s, NEW t, \A n : Holds(t, n) <=> Holds(s, n)
  PROVE  GivesBack(s, t, <<>>)
<1>1. \A n : {k \in DOMAIN <<>> : <<>>[k].nr = n} = {}
  BY EmptyIs, Zenon
<1> QED BY <1>1, Zenon DEF CountingLaws, GivesBack

LEMMA GivesQueue ==
  ASSUME CountingLaws, NEW s \in Session, NEW t, NEW e, Sorted(s, e), s.batch = <<>>, \A n : ~Holds(t, n)
  PROVE  GivesBack(s, t, s.queue)
<1>1. s.queue \in Seq(Unit)
  BY DEF Session
<1>2. ASSUME NEW n
      PROVE  Cardinality({k \in DOMAIN s.queue : s.queue[k].nr = n}) = IF Holds(s, n) THEN 1 ELSE 0
  <2>1. Cardinality({k \in DOMAIN s.queue : s.queue[k].nr = n})
          = IF \E k \in DOMAIN s.queue : s.queue[k].nr = n THEN 1 ELSE 0
    BY <1>1, CountOnce, Zenon DEF Sorted
  <2>2. Holds(s, n) <=> \E k \in DOMAIN s.queue : s.queue[k].nr = n
    BY EmptyIs, Zenon DEF Holds
  <2> QED BY <2>1, <2>2, Zenon
<1> QED BY <1>2, Zenon DEF GivesBack

LEMMA GivesOne ==
  ASSUME CountingLaws, NEW s, NEW t, NEW u \in Unit, Holds(s, u.nr),
         \A n : Holds(t, n) <=> Holds(s, n) /\ n # u.nr
  PROVE  GivesBack(s, t, <<u>>)
<1>1. <<u>> \in Seq(Unit) /\ DOMAIN <<u>> = {1} /\ <<u>>[1] = u
  OBVIOUS
<1>2. \A j, k \in DOMAIN <<u>> : j < k => <<u>>[j].nr < <<u>>[k].nr
  BY <1>1
<1>3. ASSUME NEW n
      PROVE  Cardinality({k \in DOMAIN <<u>> : <<u>>[k].nr = n}) = IF n = u.nr THEN 1 ELSE 0
  <2>1. Cardinality({k \in DOMAIN <<u>> : <<u>>[k].nr = n})
          = IF \E k \in DOMAIN <<u>> : <<u>>[k].nr = n THEN 1 ELSE 0
    BY <1>1, <1>2, CountOnce, Zenon
  <2> QED BY <1>1, <2>1, Zenon
<1> QED BY <1>3, Zenon DEF GivesBack

\* A step of the thread, or of another on its session, from s to t.
Follows(s, t, e, fs) ==
    /\ Good(t, e) /\ GivesBack(s, t, fs)
    /\ t.mem = s.mem /\ (s.stop => t.stop) /\ (s.finished => t.finished)
    /\ \A open \in BOOLEAN : Chained(s, e, open) /\ (open => ~s.stop) => Chained(t, e, open)

\* Where the thread goes from the head of its loop, and when it is not connected.
FromTop(s) == IF s.stop THEN "end"
              ELSE IF s.state = "new" THEN "wait"
              ELSE IF s.state \in {"checking", "connected"} THEN "loop" ELSE "end"
FromAfter(s) == IF ConnectExpired(s) THEN "end" ELSE "top"

\* What libpeer makes of the connection state, and what an answer makes of it.
LoopStates(s) == {s.state, "connected", "failed", "closed"}
AnswerStates == {"new", "checking"}

\* send_frames skips the first frame, or hands it over.
Skips(s) == s.waiting /\ ~Head(s.batch).idr
LastSent(s) == IF Skips(s) THEN s.last ELSE Head(s.batch).nr

\* The steps with a choice, from s to t.
TopTo(s, t) == s.at = "top" /\ \E x \in {FromTop(s)} : t = [s EXCEPT !.at = x]
LoopTo(s, t) ==
    s.at = "loop" /\ \E st \in LoopStates(s) : t = [s EXCEPT !.at = "after", !.state = st]
AppliedTo(s, t) ==
    /\ s.at = "drop" /\ s.got
    /\ \E st \in AnswerStates, a \in Nat, m \in {[Emptied(s) EXCEPT !.got = FALSE]} :
          t = [m EXCEPT !.at = "top", !.state = st, !.age = a]
AfterTo(s, t) ==
    /\ s.at = "after" /\ s.state # "connected"
    /\ \E x \in {FromAfter(s)}, m \in {Emptied(s)} : t = [m EXCEPT !.at = x]
EndTo(s, t) == s.at = "end" /\ \E m \in {Emptied(s)} : t = [m EXCEPT !.at = "finish"]
TakeTo(s, t) ==
    /\ s.at = "after" /\ s.state = "connected"
    /\ \E m \in {Emptied(s)}, fs \in {s.queue}, w \in {NowWaiting(s)} :
          t = [m EXCEPT !.at = "send", !.batch = fs, !.connected = TRUE, !.waiting = w]
SendTo(s, t) ==
    /\ s.at = "send" /\ s.batch # <<>>
    /\ t = [s EXCEPT !.batch = Tail(@), !.waiting = Skips(s), !.last = LastSent(s)]

(* A step that leaves the frames alone, and the places where they matter.      *)
LEMMA LeavesFrames ==
  ASSUME CountingLaws, NEW e \in Nat, NEW s, Good(s, e), NEW t \in Session, ThreadInv(t),
         t.queue = s.queue, t.batch = s.batch, t.last = s.last, t.waiting = s.waiting,
         t.mem = s.mem, s.stop => t.stop, s.finished => t.finished,
         GoesOn(t) => GoesOn(s)
  PROVE  Follows(s, t, e, <<>>)
<1>1. s \in Session /\ Sorted(s, e)
  BY DEF Good
<1>2. Sorted(t, e) /\ \A n : Holds(t, n) <=> Holds(s, n)
  BY <1>1, SameFrames, Zenon
<1>3. ASSUME NEW open \in BOOLEAN, Chained(s, e, open) PROVE Chained(t, e, open)
  BY <1>1, <1>3, SameChain
<1>4. GivesBack(s, t, <<>>)
  BY <1>2, GivesNone, Zenon
<1> QED BY <1>2, <1>3, <1>4, Zenon DEF Follows, Good

(* A step that drops what is in the mailbox.                                   *)
LEMMA DropsFrames ==
  ASSUME CountingLaws, NEW e \in Nat, NEW s, Good(s, e), NEW t \in Session, ThreadInv(t),
         s.batch = <<>>, t.queue = <<>>, t.batch = <<>>,
         t.mem = s.mem, s.stop => t.stop, s.finished => t.finished,
         GoesOn(t) => s.stop
  PROVE  Follows(s, t, e, s.queue)
<1>1. s \in Session /\ Sorted(s, e)
  BY DEF Good
<1>2. Sorted(t, e) /\ \A n : ~Holds(t, n)
  BY NoFrames, Zenon
<1>3. ASSUME NEW open \in BOOLEAN, open => ~s.stop PROVE Chained(t, e, open)
  BY <1>3, NoChain, Zenon
<1>4. GivesBack(s, t, s.queue)
  BY <1>1, <1>2, GivesQueue, Zenon
<1> QED BY <1>2, <1>3, <1>4, Zenon DEF Follows, Good

(* The head of session_thread's loop.                                          *)
LEMMA TopFollows ==
  ASSUME CountingLaws, NEW e \in Nat, NEW s, Good(s, e), NEW t, TopTo(s, t)
  PROVE  Follows(s, t, e, <<>>) /\ (Fresh(s) => Fresh(t))
<1>0. PICK x : x = FromTop(s) /\ t = [s EXCEPT !.at = x]
  BY Zenon DEF TopTo
<1>1. s \in Session /\ ThreadInv(s) /\ x \in Spots /\ s.at = "top"
  BY <1>0 DEF Good, Spots, FromTop, TopTo
<1>2. t \in Session
  BY <1>0, <1>1, Zenon DEF Session, Spots, States
<1>3. /\ t.at = x /\ t.queue = s.queue /\ t.batch = s.batch /\ t.last = s.last
      /\ t.waiting = s.waiting /\ t.mem = s.mem /\ t.stop = s.stop
      /\ t.finished = s.finished /\ t.state = s.state /\ t.connected = s.connected
      /\ t.resync = s.resync /\ t.answer = s.answer /\ t.got = s.got
  BY <1>0, <1>1, Zenon DEF Session
<1>4. ThreadInv(t)
  BY <1>0, <1>1, <1>3 DEF ThreadInv, FromTop
<1>5. (Fresh(s) => Fresh(t)) /\ (GoesOn(t) => GoesOn(s))
  BY <1>0, <1>1, <1>3 DEF Fresh, GoesOn, ThreadInv
<1> QED BY <1>1, <1>2, <1>3, <1>4, <1>5, LeavesFrames, Zenon

(* wait_for_answer.                                                            *)
LEMMA WaitFollows ==
  ASSUME CountingLaws, NEW e \in Nat, NEW s, Good(s, e), s.at = "wait",
         NEW t, t = [s EXCEPT !.at = "drop", !.got = s.answer, !.answer = FALSE]
  PROVE  Follows(s, t, e, <<>>) /\ (Fresh(s) => Fresh(t))
<1>1. s \in Session /\ ThreadInv(s)
  BY Zenon DEF Good
<1>2. t \in Session
  BY <1>1, Zenon DEF Session, Spots, States
<1>3. /\ t.at = "drop" /\ t.queue = s.queue /\ t.batch = s.batch /\ t.last = s.last
      /\ t.waiting = s.waiting /\ t.mem = s.mem /\ t.stop = s.stop
      /\ t.finished = s.finished /\ t.state = s.state /\ t.connected = s.connected
      /\ t.resync = s.resync /\ t.answer = FALSE /\ t.got = s.answer
  BY <1>1, Zenon DEF Session
<1>4. ThreadInv(t)
  BY <1>1, <1>3 DEF ThreadInv
<1>5. (Fresh(s) => Fresh(t)) /\ (GoesOn(t) => GoesOn(s))
  BY <1>1, <1>3 DEF Fresh, GoesOn, ThreadInv
<1> QED BY <1>1, <1>2, <1>3, <1>4, <1>5, LeavesFrames, Zenon

(* peer_connection_loop.                                                       *)
LEMMA LoopFollows ==
  ASSUME CountingLaws, NEW e \in Nat, NEW s, Good(s, e), NEW t, LoopTo(s, t)
  PROVE  Follows(s, t, e, <<>>) /\ (Fresh(s) => Fresh(t))
<1>0. PICK st \in LoopStates(s) : t = [s EXCEPT !.at = "after", !.state = st]
  BY Zenon DEF LoopTo
<1>1. s \in Session /\ ThreadInv(s) /\ st \in States /\ s.at = "loop"
  BY DEF LoopTo, Good, States, Session, LoopStates
<1>2. t \in Session
  BY <1>0, <1>1, Zenon DEF Session, Spots, States
<1>3. /\ t.at = "after" /\ t.queue = s.queue /\ t.batch = s.batch /\ t.last = s.last
      /\ t.waiting = s.waiting /\ t.mem = s.mem /\ t.stop = s.stop
      /\ t.finished = s.finished /\ t.state = st /\ t.connected = s.connected
      /\ t.resync = s.resync /\ t.answer = s.answer /\ t.got = s.got
  BY <1>0, <1>1, Zenon DEF Session
<1>4. ThreadInv(t)
  BY <1>1, <1>3 DEF ThreadInv, LoopStates
<1>5. (Fresh(s) => Fresh(t)) /\ (GoesOn(t) => GoesOn(s))
  BY <1>1, <1>3 DEF Fresh, GoesOn, ThreadInv, LoopStates
<1> QED BY <1>1, <1>2, <1>3, <1>4, <1>5, LeavesFrames, Zenon

(* The end of send_frames.                                                     *)
LEMMA SentFollows ==
  ASSUME CountingLaws, NEW e \in Nat, NEW s, Good(s, e), s.at = "send", s.batch = <<>>,
         NEW t, t = [s EXCEPT !.at = "top"]
  PROVE  Follows(s, t, e, <<>>) /\ (Fresh(s) => Fresh(t))
<1>1. s \in Session /\ ThreadInv(s)
  BY Zenon DEF Good
<1>2. t \in Session
  BY <1>1, Zenon DEF Session, Spots, States
<1>3. /\ t.at = "top" /\ t.queue = s.queue /\ t.batch = s.batch /\ t.last = s.last
      /\ t.waiting = s.waiting /\ t.mem = s.mem /\ t.stop = s.stop
      /\ t.finished = s.finished /\ t.state = s.state /\ t.connected = s.connected
      /\ t.resync = s.resync /\ t.answer = s.answer /\ t.got = s.got
  BY <1>1, Zenon DEF Session
<1>4. ThreadInv(t)
  BY <1>1, <1>3 DEF ThreadInv
<1>5. (Fresh(s) => Fresh(t)) /\ (GoesOn(t) => GoesOn(s))
  BY <1>1, <1>3 DEF Fresh, GoesOn, ThreadInv
<1> QED BY <1>1, <1>2, <1>3, <1>4, <1>5, LeavesFrames, Zenon

(* The last thing session_thread does.                                         *)
LEMMA FinishFollows ==
  ASSUME CountingLaws, NEW e \in Nat, NEW s, Good(s, e), s.at = "finish", s.mem = "live",
         NEW t, t = [s EXCEPT !.at = "done", !.finished = TRUE]
  PROVE  Follows(s, t, e, <<>>) /\ (Fresh(s) => Fresh(t))
<1>1. s \in Session /\ ThreadInv(s)
  BY Zenon DEF Good
<1>2. t \in Session
  BY <1>1, Zenon DEF Session, Spots, States
<1>3. /\ t.at = "done" /\ t.queue = s.queue /\ t.batch = s.batch /\ t.last = s.last
      /\ t.waiting = s.waiting /\ t.mem = s.mem /\ t.stop = s.stop
      /\ t.finished = TRUE /\ t.state = s.state /\ t.connected = s.connected
      /\ t.resync = s.resync /\ t.answer = s.answer /\ t.got = s.got
  BY <1>1, Zenon DEF Session
<1>4. ThreadInv(t)
  BY <1>1, <1>3 DEF ThreadInv
<1>5. (Fresh(s) => Fresh(t)) /\ (GoesOn(t) => GoesOn(s))
  BY <1>1, <1>3 DEF Fresh, GoesOn, ThreadInv
<1> QED BY <1>1, <1>2, <1>3, <1>4, <1>5, LeavesFrames, Zenon

(* lp_session_close, and the end of lp_server_run.                             *)
LEMMA StopFollows ==
  ASSUME CountingLaws, NEW e \in Nat, NEW s, Good(s, e), NEW t, t = [s EXCEPT !.stop = TRUE]
  PROVE  Follows(s, t, e, <<>>) /\ (Fresh(s) => Fresh(t))
<1>1. s \in Session /\ ThreadInv(s)
  BY Zenon DEF Good
<1>2. t \in Session
  BY <1>1, Zenon DEF Session, Spots, States
<1>3. /\ t.at = s.at /\ t.queue = s.queue /\ t.batch = s.batch /\ t.last = s.last
      /\ t.waiting = s.waiting /\ t.mem = s.mem /\ t.stop = TRUE
      /\ t.finished = s.finished /\ t.state = s.state /\ t.connected = s.connected
      /\ t.resync = s.resync /\ t.answer = s.answer /\ t.got = s.got
  BY <1>1, Zenon DEF Session
<1>4. ThreadInv(t)
  BY <1>1, <1>3 DEF ThreadInv
<1>5. (Fresh(s) => Fresh(t)) /\ (GoesOn(t) => GoesOn(s))
  BY <1>1, <1>3 DEF Fresh, GoesOn, ThreadInv
<1> QED BY <1>1, <1>2, <1>3, <1>4, <1>5, LeavesFrames, Zenon

(* lp_session_set_answer.                                                      *)
LEMMA AnswerFollows ==
  ASSUME CountingLaws, NEW e \in Nat, NEW s, Good(s, e), NEW t, t = SetAnswer(s)
  PROVE  Follows(s, t, e, <<>>)
<1>1. s \in Session /\ ThreadInv(s)
  BY Zenon DEF Good
<1>2. CASE t = s
  BY <1>1, <1>2, LeavesFrames, Zenon
<1>3. CASE t = [s EXCEPT !.answer = TRUE, !.taken = TRUE]
  <2>1. t \in Session
    BY <1>1, <1>3, Zenon DEF Session
  <2>2. /\ t.at = s.at /\ t.queue = s.queue /\ t.batch = s.batch /\ t.last = s.last
        /\ t.waiting = s.waiting /\ t.mem = s.mem /\ t.stop = s.stop
        /\ t.finished = s.finished /\ t.state = s.state /\ t.connected = s.connected
        /\ t.resync = s.resync /\ t.answer = TRUE /\ t.got = s.got
    BY <1>1, <1>3, Zenon DEF Session
  <2>3. ThreadInv(t) /\ (GoesOn(t) => GoesOn(s))
    BY <1>1, <2>2 DEF ThreadInv, GoesOn
  <2> QED BY <2>1, <2>2, <2>3, LeavesFrames, Zenon
<1> QED BY <1>2, <1>3, Zenon DEF SetAnswer

(* Time passes for a session.                                                  *)
LEMMA TickFollows ==
  ASSUME CountingLaws, NEW e \in Nat, NEW s, Good(s, e), NEW t, t = [s EXCEPT !.age = @ + 1]
  PROVE  Follows(s, t, e, <<>>) /\ (Fresh(s) => Fresh(t))
<1>1. s \in Session /\ ThreadInv(s)
  BY Zenon DEF Good
<1>2. s.age + 1 \in Nat
  BY <1>1 DEF Session
<1>3. t \in Session
  BY <1>1, <1>2, Zenon DEF Session
<1>4. /\ t.at = s.at /\ t.queue = s.queue /\ t.batch = s.batch /\ t.last = s.last
      /\ t.waiting = s.waiting /\ t.mem = s.mem /\ t.stop = s.stop
      /\ t.finished = s.finished /\ t.state = s.state /\ t.connected = s.connected
      /\ t.resync = s.resync /\ t.answer = s.answer /\ t.got = s.got
  BY <1>1, Zenon DEF Session
<1>5. ThreadInv(t)
  BY <1>1, <1>4 DEF ThreadInv
<1>6. (Fresh(s) => Fresh(t)) /\ (GoesOn(t) => GoesOn(s))
  BY <1>4 DEF Fresh, GoesOn
<1> QED BY <1>1, <1>3, <1>4, <1>5, <1>6, LeavesFrames, Zenon

(* The mailbox dropped, with what session_thread does then.                    *)
LEMMA EmptiedIs ==
  ASSUME NEW s \in Session, NEW t, t = Emptied(s)
  PROVE  /\ t \in Session /\ t.age = s.age /\ t.taken = s.taken
         /\ t.at = s.at /\ t.queue = <<>> /\ t.batch = s.batch /\ t.last = s.last
         /\ t.waiting = s.waiting /\ t.mem = s.mem /\ t.stop = s.stop
         /\ t.finished = s.finished /\ t.state = s.state
         /\ t.connected = s.connected /\ t.resync = FALSE /\ t.answer = s.answer
         /\ t.got = s.got
<1>1. <<>> \in Seq(Unit)
  BY EmptyIs
<1> QED BY <1>1, Zenon DEF Session, Emptied

(* The thread goes somewhere else.                                             *)
LEMMA AtIs ==
  ASSUME NEW m \in Session, NEW x \in Spots, NEW t, t = [m EXCEPT !.at = x]
  PROVE  /\ t \in Session /\ t.at = x
         /\ t.queue = m.queue /\ t.batch = m.batch /\ t.last = m.last
         /\ t.waiting = m.waiting /\ t.mem = m.mem
         /\ t.stop = m.stop /\ t.finished = m.finished /\ t.state = m.state
         /\ t.connected = m.connected /\ t.resync = m.resync /\ t.answer = m.answer /\ t.got = m.got
BY Zenon DEF Session

(* On the way out.                                                             *)
LEMMA EndFollows ==
  ASSUME CountingLaws, NEW e \in Nat, NEW s, Good(s, e), NEW t, EndTo(s, t)
  PROVE  Follows(s, t, e, s.queue) /\ (Fresh(s) => Fresh(t))
<1>1. s \in Session /\ ThreadInv(s) /\ s.at = "end"
  BY Zenon DEF Good, EndTo
<1>2. PICK m : m = Emptied(s) /\ t = [m EXCEPT !.at = "finish"]
  BY Zenon DEF EndTo
<1>3. /\ m \in Session
      /\ m.at = s.at /\ m.queue = <<>> /\ m.batch = s.batch /\ m.last = s.last
      /\ m.waiting = s.waiting /\ m.mem = s.mem /\ m.stop = s.stop
      /\ m.finished = s.finished /\ m.state = s.state /\ m.connected = s.connected
      /\ m.resync = FALSE /\ m.answer = s.answer /\ m.got = s.got
  BY <1>1, <1>2, EmptiedIs, Zenon
<1>4. "finish" \in Spots
  BY DEF Spots
<1>5. /\ t \in Session /\ t.at = "finish" /\ t.queue = <<>> /\ t.batch = s.batch /\ t.last = s.last
      /\ t.waiting = s.waiting /\ t.mem = s.mem /\ t.stop = s.stop
      /\ t.finished = s.finished /\ t.state = s.state /\ t.connected = s.connected
      /\ t.resync = FALSE /\ t.answer = s.answer /\ t.got = s.got
  <2>1. /\ t \in Session /\ t.at = "finish" /\ t.queue = m.queue /\ t.batch = m.batch
        /\ t.last = m.last /\ t.waiting = m.waiting /\ t.mem = m.mem /\ t.stop = m.stop
        /\ t.finished = m.finished /\ t.state = m.state /\ t.connected = m.connected
        /\ t.resync = m.resync /\ t.answer = m.answer /\ t.got = m.got
    BY <1>2, <1>3, <1>4, AtIs
  <2> QED BY <1>3, <2>1, Zenon
<1>6. ThreadInv(t) /\ s.batch = <<>>
  BY <1>1, <1>5 DEF ThreadInv
<1>7. (Fresh(s) => Fresh(t)) /\ (GoesOn(t) => s.stop)
  BY <1>1, <1>5 DEF Fresh, GoesOn, ThreadInv
<1> QED BY <1>5, <1>6, <1>7, DropsFrames, Zenon

(* Not connected after peer_connection_loop.                                   *)
LEMMA NotConnectedFollows ==
  ASSUME CountingLaws, NEW e \in Nat, NEW s, Good(s, e), NEW t, AfterTo(s, t)
  PROVE  Follows(s, t, e, s.queue) /\ (Fresh(s) => Fresh(t))
<1>1. PICK x, m : x = FromAfter(s) /\ m = Emptied(s) /\ t = [m EXCEPT !.at = x]
  BY Zenon DEF AfterTo
<1>2. /\ s \in Session /\ ThreadInv(s) /\ x \in {"end", "top"} /\ x \in Spots
      /\ s.at = "after" /\ s.state # "connected"
  BY <1>1 DEF Good, Spots, FromAfter, AfterTo
<1>3. /\ m \in Session
      /\ m.at = s.at /\ m.queue = <<>> /\ m.batch = s.batch /\ m.last = s.last
      /\ m.waiting = s.waiting /\ m.mem = s.mem /\ m.stop = s.stop
      /\ m.finished = s.finished /\ m.state = s.state /\ m.connected = s.connected
      /\ m.resync = FALSE /\ m.answer = s.answer /\ m.got = s.got
  BY <1>1, <1>2, EmptiedIs, Zenon
<1>4. /\ t \in Session /\ t.at = x
      /\ t.queue = m.queue /\ t.batch = m.batch /\ t.last = m.last
      /\ t.waiting = m.waiting /\ t.mem = m.mem
      /\ t.stop = m.stop /\ t.finished = m.finished /\ t.state = m.state
      /\ t.connected = m.connected /\ t.resync = m.resync /\ t.answer = m.answer /\ t.got = m.got
  BY <1>1, <1>2, <1>3, AtIs
<1>5. /\ t.at = x /\ t.queue = <<>> /\ t.batch = s.batch /\ t.last = s.last
      /\ t.waiting = s.waiting /\ t.mem = s.mem /\ t.stop = s.stop
      /\ t.finished = s.finished /\ t.state = s.state /\ t.connected = s.connected
      /\ t.resync = FALSE /\ t.answer = s.answer /\ t.got = s.got
  BY <1>3, <1>4, Zenon
<1>6. ThreadInv(t) /\ s.batch = <<>>
  BY <1>2, <1>5 DEF ThreadInv
<1>7. (Fresh(s) => Fresh(t)) /\ (GoesOn(t) => s.stop)
  BY <1>2, <1>5 DEF Fresh, GoesOn, ThreadInv
<1> QED BY <1>4, <1>5, <1>6, <1>7, DropsFrames, Zenon

(* The frames are dropped once the answer was waited for.                      *)
LEMMA WaitedIs ==
  ASSUME NEW s \in Session, NEW t, t = [Emptied(s) EXCEPT !.got = FALSE]
  PROVE  /\ t \in Session /\ t.age = s.age
         /\ t.at = s.at /\ t.queue = <<>> /\ t.batch = s.batch /\ t.last = s.last
         /\ t.waiting = s.waiting /\ t.mem = s.mem /\ t.stop = s.stop
         /\ t.finished = s.finished /\ t.state = s.state
         /\ t.connected = s.connected /\ t.resync = FALSE /\ t.answer = s.answer
         /\ t.got = FALSE
<1>1. PICK m : m = Emptied(s)
  OBVIOUS
<1>2. /\ m \in Session /\ t = [m EXCEPT !.got = FALSE] /\ m.age = s.age
      /\ m.at = s.at /\ m.queue = <<>> /\ m.batch = s.batch /\ m.last = s.last
      /\ m.waiting = s.waiting /\ m.mem = s.mem /\ m.stop = s.stop
      /\ m.finished = s.finished /\ m.state = s.state /\ m.connected = s.connected
      /\ m.resync = FALSE /\ m.answer = s.answer /\ m.got = s.got
  BY <1>1, EmptiedIs, Zenon
<1>3. m \in Session /\ t = [m EXCEPT !.got = FALSE]
  BY <1>2, Zenon
<1>4. /\ t \in Session /\ t.age = m.age
      /\ t.at = m.at /\ t.queue = m.queue /\ t.batch = m.batch /\ t.last = m.last
      /\ t.waiting = m.waiting /\ t.mem = m.mem /\ t.stop = m.stop
      /\ t.finished = m.finished /\ t.state = m.state /\ t.connected = m.connected
      /\ t.resync = m.resync /\ t.answer = m.answer /\ t.got = FALSE
  BY <1>3, Zenon DEF Session
<1> QED BY <1>2, <1>4, Zenon

(* A session at the head of its thread's loop.                                 *)
LEMMA AppliedIs ==
  ASSUME NEW m \in Session, NEW st \in States, NEW a \in Nat, "top" \in Spots
  PROVE  [m EXCEPT !.at = "top", !.state = st, !.age = a] \in Session
BY Zenon DEF Session

(* The answer is applied.                                                      *)
LEMMA AppliedFollows ==
  ASSUME CountingLaws, NEW e \in Nat, NEW s, Good(s, e), NEW t, AppliedTo(s, t)
  PROVE  Follows(s, t, e, s.queue) /\ (Fresh(s) => Fresh(t))
<1>0. PICK st \in AnswerStates, a \in Nat, m \in {[Emptied(s) EXCEPT !.got = FALSE]} :
        t = [m EXCEPT !.at = "top", !.state = st, !.age = a]
  BY Zenon DEF AppliedTo
<1>1. /\ s \in Session /\ ThreadInv(s) /\ st \in States /\ "top" \in Spots
      /\ s.at = "drop" /\ s.got
  BY DEF AppliedTo, Good, States, Spots, AnswerStates
<1>2. /\ m \in Session
      /\ m.at = s.at /\ m.queue = <<>> /\ m.batch = s.batch /\ m.last = s.last
      /\ m.waiting = s.waiting /\ m.mem = s.mem /\ m.stop = s.stop
      /\ m.finished = s.finished /\ m.state = s.state /\ m.connected = s.connected
      /\ m.resync = FALSE /\ m.answer = s.answer /\ m.got = FALSE
  <2>1. s \in Session /\ m = [Emptied(s) EXCEPT !.got = FALSE]
    BY <1>0, <1>1, Zenon
  <2> QED BY <2>1, WaitedIs, Zenon
<1>3. t \in Session
  BY <1>0, <1>1, <1>2, AppliedIs, Zenon
<1>4. /\ t.at = "top" /\ t.queue = <<>> /\ t.batch = s.batch /\ t.last = s.last
      /\ t.waiting = s.waiting /\ t.mem = s.mem /\ t.stop = s.stop
      /\ t.finished = s.finished /\ t.state = st /\ t.connected = s.connected
      /\ t.resync = FALSE /\ t.answer = s.answer /\ t.got = FALSE
  BY <1>0, <1>1, <1>2, Zenon DEF Session
<1>5. ThreadInv(t) /\ s.batch = <<>>
  BY <1>1, <1>4 DEF ThreadInv, AnswerStates
<1>6. (Fresh(s) => Fresh(t)) /\ (GoesOn(t) => s.stop)
  BY <1>1, <1>4 DEF Fresh, GoesOn, AnswerStates
<1> QED BY <1>3, <1>4, <1>5, <1>6, DropsFrames, Zenon

(* There is no answer yet.                                                     *)
LEMMA UnansweredFollows ==
  ASSUME CountingLaws, NEW e \in Nat, NEW s, Good(s, e), s.at = "drop", ~s.got,
         NEW x \in {"end", "top"},
         NEW m, m = [Emptied(s) EXCEPT !.got = FALSE],
         NEW t, t = [m EXCEPT !.at = x]
  PROVE  Follows(s, t, e, s.queue) /\ (Fresh(s) => Fresh(t))
<1>1. s \in Session /\ ThreadInv(s) /\ x \in Spots
  BY DEF Good, Spots
<1>2. /\ m \in Session
      /\ m.at = s.at /\ m.queue = <<>> /\ m.batch = s.batch /\ m.last = s.last
      /\ m.waiting = s.waiting /\ m.mem = s.mem /\ m.stop = s.stop
      /\ m.finished = s.finished /\ m.state = s.state /\ m.connected = s.connected
      /\ m.resync = FALSE /\ m.answer = s.answer /\ m.got = FALSE
  BY <1>1, WaitedIs, Zenon
<1>3. t \in Session
  BY <1>1, <1>2, Zenon DEF Session
<1>4. /\ t.at = x /\ t.queue = <<>> /\ t.batch = s.batch /\ t.last = s.last
      /\ t.waiting = s.waiting /\ t.mem = s.mem /\ t.stop = s.stop
      /\ t.finished = s.finished /\ t.state = s.state /\ t.connected = s.connected
      /\ t.resync = FALSE /\ t.answer = s.answer /\ t.got = FALSE
  BY <1>1, <1>2, Zenon DEF Session
<1>5. ThreadInv(t) /\ s.batch = <<>>
  BY <1>1, <1>4 DEF ThreadInv
<1>6. (Fresh(s) => Fresh(t)) /\ (GoesOn(t) => s.stop)
  BY <1>1, <1>4 DEF Fresh, GoesOn, ThreadInv
<1> QED BY <1>3, <1>4, <1>5, <1>6, DropsFrames, Zenon

(* The mailbox taken as the next batch.                                        *)
LEMMA TakesFrames ==
  ASSUME CountingLaws, NEW e \in Nat, NEW s, Good(s, e), NEW t \in Session, ThreadInv(t),
         s.state = "connected", s.at = "after", t.queue = <<>>, t.batch = s.queue,
         t.last = s.last, t.waiting = NowWaiting(s),
         t.mem = s.mem, t.stop = s.stop, t.finished = s.finished
  PROVE  Follows(s, t, e, <<>>)
<1>1. s \in Session /\ Sorted(s, e) /\ s.batch = <<>>
  BY DEF Good, ThreadInv
<1>2. Sorted(t, e) /\ \A n : Holds(t, n) <=> Holds(s, n)
  BY <1>1, TakenFrames, Zenon
<1>3. ASSUME NEW open \in BOOLEAN, Chained(s, e, open) PROVE Chained(t, e, open)
  BY <1>1, <1>3, TakenChain
<1>4. GivesBack(s, t, <<>>)
  BY <1>2, GivesNone, Zenon
<1> QED BY <1>2, <1>3, <1>4, Zenon DEF Follows, Good

Takes(m, t, fs, w) ==
    /\ t \in Session /\ t.at = "send" /\ t.queue = m.queue /\ t.batch = fs /\ t.last = m.last
    /\ t.waiting = w /\ t.mem = m.mem /\ t.stop = m.stop
    /\ t.finished = m.finished /\ t.state = m.state /\ t.connected = TRUE

LEMMA TakenIs ==
  ASSUME NEW m \in Session, NEW fs \in Seq(Unit), NEW w \in BOOLEAN, "send" \in Spots,
         NEW t, t = [m EXCEPT !.at = "send", !.batch = fs, !.connected = TRUE, !.waiting = w]
  PROVE  Takes(m, t, fs, w)
BY Zenon DEF Session, Takes

(* take_frames.                                                                *)
LEMMA TakeFollows ==
  ASSUME CountingLaws, NEW e \in Nat, NEW s, Good(s, e), NEW t, TakeTo(s, t)
  PROVE  Follows(s, t, e, <<>>) /\ (Fresh(s) => Fresh(t))
<1>1. /\ s \in Session /\ ThreadInv(s) /\ Sorted(s, e) /\ s.batch = <<>>
      /\ s.at = "after" /\ s.state = "connected"
  BY DEF Good, ThreadInv, TakeTo
<1>2. PICK m \in {Emptied(s)}, fs \in {s.queue}, w \in {NowWaiting(s)} :
          t = [m EXCEPT !.at = "send", !.batch = fs, !.connected = TRUE, !.waiting = w]
  BY Zenon DEF TakeTo
<1>3. /\ m \in Session
      /\ m.queue = <<>> /\ m.last = s.last /\ m.mem = s.mem /\ m.stop = s.stop
      /\ m.finished = s.finished /\ m.state = s.state
  BY <1>1, <1>2, EmptiedIs, Zenon
<1>4. w \in BOOLEAN /\ fs \in Seq(Unit)
  BY <1>1, <1>2, Zenon DEF NowWaiting, Session
<1>5. "send" \in Spots
  BY DEF Spots
<1>6. /\ t \in Session /\ t.at = "send" /\ t.queue = m.queue /\ t.batch = fs /\ t.last = m.last
      /\ t.waiting = w /\ t.mem = m.mem /\ t.stop = m.stop
      /\ t.finished = m.finished /\ t.state = m.state /\ t.connected = TRUE
  <2>1. Takes(m, t, fs, w)
    BY <1>2, <1>3, <1>4, <1>5, TakenIs, Zenon
  <2> QED BY <2>1, Zenon DEF Takes
<1>7. /\ t.queue = <<>> /\ t.batch = s.queue /\ t.last = s.last /\ t.waiting = NowWaiting(s)
      /\ t.mem = s.mem /\ t.stop = s.stop /\ t.finished = s.finished /\ t.state = s.state
  BY <1>2, <1>3, <1>6, Zenon
<1>8. ThreadInv(t)
  BY <1>1, <1>6, <1>7 DEF ThreadInv
<1>9. Follows(s, t, e, <<>>)
  BY <1>1, <1>6, <1>7, <1>8, TakesFrames, Zenon
<1>10. ~Fresh(s)
  BY <1>1 DEF Fresh
<1> QED BY <1>9, <1>10

(* The first frame of the batch handed over or skipped.                        *)
LEMMA SendsFrame ==
  ASSUME CountingLaws, NEW e \in Nat, NEW s, Good(s, e), NEW t \in Session, ThreadInv(t),
         s.at = "send", s.batch # <<>>, NEW u \in Unit, u = Head(s.batch),
         t.queue = s.queue, t.batch = Tail(s.batch), t.resync = s.resync,
         \/ s.waiting /\ t.waiting /\ t.last = s.last
         \/ ~t.waiting /\ t.last = u.nr,
         t.mem = s.mem, t.stop = s.stop, t.finished = s.finished
  PROVE  Follows(s, t, e, <<u>>)
<1>1. s \in Session /\ Sorted(s, e) /\ s.state = "connected" /\ s.connected
  BY DEF Good, ThreadInv
<1>2. Sorted(t, e) /\ Holds(s, u.nr) /\ \A n : Holds(t, n) <=> Holds(s, n) /\ n # u.nr
  BY <1>1, SentFrames, Zenon
<1>3. ASSUME NEW open \in BOOLEAN, Chained(s, e, open) PROVE Chained(t, e, open)
  BY <1>1, <1>3, SentChain, Zenon
<1>4. GivesBack(s, t, <<u>>)
  BY <1>2, GivesOne, Zenon
<1> QED BY <1>2, <1>3, <1>4, Zenon DEF Follows, Good

(* The loop of send_frames.                                                    *)
LEMMA SendFollows ==
  ASSUME CountingLaws, NEW e \in Nat, e <= MaxUnits + 1, NEW s, Good(s, e),
         NEW t, SendTo(s, t)
  PROVE  Follows(s, t, e, <<Head(s.batch)>>) /\ (Fresh(s) => Fresh(t))
<1>0. PICK u : u = Head(s.batch)
  OBVIOUS
<1>1. /\ s \in Session /\ ThreadInv(s) /\ Sorted(s, e) /\ s.batch \in Seq(Unit)
      /\ s.at = "send" /\ s.state = "connected" /\ s.connected /\ s.batch # <<>>
  BY DEF Good, ThreadInv, Session, SendTo
<1>2. /\ u \in Unit /\ u = s.batch[1] /\ Tail(s.batch) \in Seq(Unit)
      /\ Len(s.batch) \in Nat \ {0} /\ DOMAIN s.batch = 1..Len(s.batch)
  BY <1>0, <1>1, TailOf
<1>3. Skips(s) \in BOOLEAN
  BY <1>0, <1>1, <1>2, Zenon DEF Session, Unit, Skips
<1>4. u.nr \in 1..e - 1
  <2>1. 1 \in DOMAIN s.batch
    BY <1>2
  <2> QED BY <1>1, <1>2, <2>1 DEF Sorted
<1>5. LastSent(s) \in 0..MaxUnits
  <2>1. s.last \in 0..MaxUnits
    BY <1>1 DEF Session
  <2> QED BY <1>0, <1>4, <2>1, StreamAssumption DEF LastSent
<1>6. t \in Session
  BY <1>1, <1>2, <1>3, <1>5, Zenon DEF Session, SendTo
<1>7. /\ t.at = s.at /\ t.queue = s.queue /\ t.batch = Tail(s.batch) /\ t.last = LastSent(s)
      /\ t.waiting = Skips(s) /\ t.mem = s.mem /\ t.stop = s.stop
      /\ t.finished = s.finished /\ t.state = s.state /\ t.connected = s.connected
      /\ t.resync = s.resync /\ t.answer = s.answer /\ t.got = s.got
  BY <1>1, Zenon DEF Session, SendTo
<1>8. ThreadInv(t)
  BY <1>1, <1>7 DEF ThreadInv
<1>9. \/ s.waiting /\ t.waiting /\ t.last = s.last
      \/ ~t.waiting /\ t.last = u.nr
  BY <1>0, <1>7, Zenon DEF Skips, LastSent
<1>10. Follows(s, t, e, <<u>>)
  BY <1>0, <1>1, <1>2, <1>6, <1>7, <1>8, <1>9, SendsFrame, Zenon
<1> QED BY <1>0, <1>1, <1>10 DEF Fresh

(* Nothing given back leaves the counts as they are.                           *)
LEMMA UnrefNone == ASSUME CountingLaws, refs \in Seq(Int) PROVE Unref(<<>>) = refs
<1>1. \A n : {k \in DOMAIN <<>> : <<>>[k].nr = n} = {}
  BY EmptyIs, Zenon
<1>2. \A n : Cardinality({k \in DOMAIN <<>> : <<>>[k].nr = n}) = 0
  BY <1>1, Zenon DEF CountingLaws
<1>3. Unref(<<>>) = [n \in DOMAIN refs |-> refs[n] - 0]
  BY <1>2, Zenon DEF Unref, Units
<1>4. \A n \in DOMAIN refs : refs[n] - 0 = refs[n]
  OBVIOUS
<1>5. refs = [n \in DOMAIN refs |-> refs[n]]
  OBVIOUS
<1> QED BY <1>3, <1>4, <1>5, Zenon

\* A step on the session of slot i that gives frames back and leaves the others alone.
Moves(i, e) ==
    \E t, fs : /\ sess' = [sess EXCEPT ![i] = t]
               /\ refs' = Unref(fs)
               /\ Follows(sess[i], t, e, fs)
               /\ main.at = "insert" => (Fresh(sess[i]) => Fresh(t))

LEMMA ThreadMoves ==
  ASSUME CountingLaws, NEW i \in Slots, NEW e \in Nat, e <= MaxUnits + 1, refs \in Seq(Int),
         Good(sess[i], e), sess[i].mem = "live", Thread(i)
  PROVE  Moves(i, e)
<1> DEFINE s == sess[i]
<1>1. refs = Unref(<<>>)
  BY UnrefNone
<1>2. ASSUME ThTop(i) PROVE Moves(i, e)
  <2>1. PICK x : x = FromTop(s)
    BY Zenon
  <2>2. PICK t : t = [s EXCEPT !.at = x]
    BY Zenon
  <2>3. s.at = "top" /\ sess' = [sess EXCEPT ![i] = t] /\ refs' = refs
    BY <1>2, <2>1, <2>2, Zenon DEF ThTop, Set, FromTop
  <2>4. TopTo(s, t)
    BY <2>1, <2>2, <2>3, Zenon DEF TopTo
  <2>5. Follows(s, t, e, <<>>) /\ (Fresh(s) => Fresh(t))
    BY <2>4, TopFollows, Zenon
  <2> QED BY <1>1, <2>3, <2>5, Zenon DEF Moves
<1>3. ASSUME ThWait(i) PROVE Moves(i, e)
  <2>1. PICK t : t = [s EXCEPT !.at = "drop", !.got = s.answer, !.answer = FALSE]
    BY Zenon
  <2>2. s.at = "wait" /\ sess' = [sess EXCEPT ![i] = t] /\ refs' = refs
    BY <1>3, <2>1, Zenon DEF ThWait, Set
  <2>3. Follows(s, t, e, <<>>) /\ (Fresh(s) => Fresh(t))
    BY <2>1, <2>2, WaitFollows, Zenon
  <2> QED BY <1>1, <2>2, <2>3, Zenon DEF Moves
<1>4. ASSUME ThLoop(i) PROVE Moves(i, e)
  <2>1. PICK st \in LoopStates(s) :
          sess' = [sess EXCEPT ![i] = [s EXCEPT !.at = "after", !.state = st]]
    BY <1>4, Zenon DEF ThLoop, Set, LoopStates
  <2>2. PICK t : t = [s EXCEPT !.at = "after", !.state = st]
    BY Zenon
  <2>3. s.at = "loop" /\ sess' = [sess EXCEPT ![i] = t] /\ refs' = refs
    BY <1>4, <2>1, <2>2, Zenon DEF ThLoop
  <2>4. LoopTo(s, t)
    BY <2>1, <2>2, <2>3, Zenon DEF LoopTo
  <2>5. Follows(s, t, e, <<>>) /\ (Fresh(s) => Fresh(t))
    BY <2>4, LoopFollows, Zenon
  <2> QED BY <1>1, <2>3, <2>5, Zenon DEF Moves
<1>5. ASSUME ThSent(i) PROVE Moves(i, e)
  <2>1. PICK t : t = [s EXCEPT !.at = "top"]
    BY Zenon
  <2>2. s.at = "send" /\ s.batch = <<>> /\ sess' = [sess EXCEPT ![i] = t] /\ refs' = refs
    BY <1>5, <2>1, Zenon DEF ThSent, Set
  <2>3. Follows(s, t, e, <<>>) /\ (Fresh(s) => Fresh(t))
    BY <2>1, <2>2, SentFollows, Zenon
  <2> QED BY <1>1, <2>2, <2>3, Zenon DEF Moves
<1>6. ASSUME ThFinish(i) PROVE Moves(i, e)
  <2>1. PICK t : t = [s EXCEPT !.at = "done", !.finished = TRUE]
    BY Zenon
  <2>2. s.at = "finish" /\ sess' = [sess EXCEPT ![i] = t] /\ refs' = refs
    BY <1>6, <2>1, Zenon DEF ThFinish, Set
  <2>3. Follows(s, t, e, <<>>) /\ (Fresh(s) => Fresh(t))
    BY <2>1, <2>2, FinishFollows, Zenon
  <2> QED BY <1>1, <2>2, <2>3, Zenon DEF Moves
<1>7. ASSUME ThAnswer(i) PROVE Moves(i, e)
  <2>1. PICK m : m = [Emptied(s) EXCEPT !.got = FALSE]
    BY Zenon
  <2>2. s \in Session
    BY DEF Good
  <2>3. m.at = s.at /\ m.age = s.age /\ s.age \in Nat
    <3>1. m.at = s.at /\ m.age = s.age
      BY <2>1, <2>2, WaitedIs, Zenon
    <3>2. s.age \in Nat
      BY <2>2, Zenon DEF Session
    <3> QED BY <3>1, <3>2
  <2>4. s.at = "drop" /\ refs' = Unref(s.queue)
    BY <1>7, <2>1, <2>3, Zenon DEF ThAnswer
  <2>5. CASE s.got
    <3>1. PICK st \in AnswerStates :
            sess' = [sess EXCEPT ![i] = [m EXCEPT !.at = "top", !.state = st,
                                            !.age = IF st = "new" THEN m.age ELSE 0]]
      BY <1>7, <2>1, <2>5, Zenon DEF ThAnswer, Set, AnswerStates
    <3>2. PICK a \in Nat : a = IF st = "new" THEN m.age ELSE 0
      BY <2>3
    <3>3. PICK t : t = [m EXCEPT !.at = "top", !.state = st, !.age = a]
      BY Zenon
    <3>4. AppliedTo(s, t)
      BY <2>1, <2>4, <2>5, <3>3, Zenon DEF AppliedTo
    <3>5. sess' = [sess EXCEPT ![i] = t]
      BY <3>1, <3>2, <3>3, Zenon
    <3>6. Follows(s, t, e, s.queue) /\ (Fresh(s) => Fresh(t))
      BY <3>4, AppliedFollows, Zenon
    <3> QED BY <2>4, <3>5, <3>6, Zenon DEF Moves
  <2>6. CASE ~s.got
    <3>1. PICK x \in {"end", "top"} : x = IF m.age > AnswerTimeout THEN "end" ELSE "top"
      BY Zenon
    <3>2. PICK t : t = [m EXCEPT !.at = x]
      BY Zenon
    <3>3. sess' = [sess EXCEPT ![i] = t]
      BY <1>7, <2>1, <2>6, <3>1, <3>2, Zenon DEF ThAnswer, Set
    <3>4. Follows(s, t, e, s.queue) /\ (Fresh(s) => Fresh(t))
      BY <2>1, <2>4, <2>6, <3>2, UnansweredFollows, ZenonT(30)
    <3> QED BY <2>4, <3>3, <3>4, Zenon DEF Moves
  <2> QED BY <2>5, <2>6
<1>8. ASSUME ThTake(i) PROVE Moves(i, e)
  <2>1. PICK t : TakeTo(s, t) /\ sess' = [sess EXCEPT ![i] = t]
    BY <1>8, Zenon DEF ThTake, Set, TakeTo
  <2>2. refs' = refs
    BY <1>8, Zenon DEF ThTake
  <2>3. Follows(s, t, e, <<>>) /\ (Fresh(s) => Fresh(t))
    BY <2>1, TakeFollows, Zenon
  <2> QED BY <1>1, <2>1, <2>2, <2>3, Zenon DEF Moves
<1>9. ASSUME ThNotConnected(i) PROVE Moves(i, e)
  <2>1. PICK x : x = FromAfter(s)
    BY Zenon
  <2>2. PICK t : t = [Emptied(s) EXCEPT !.at = x]
    BY Zenon
  <2>3. /\ s.at = "after" /\ s.state # "connected"
        /\ sess' = [sess EXCEPT ![i] = t] /\ refs' = Unref(s.queue)
    BY <1>9, <2>1, <2>2, Zenon DEF ThNotConnected, Set, FromAfter
  <2>4. AfterTo(s, t)
    BY <2>1, <2>2, <2>3, Zenon DEF AfterTo
  <2>5. Follows(s, t, e, s.queue) /\ (Fresh(s) => Fresh(t))
    BY <2>4, NotConnectedFollows, Zenon
  <2> QED BY <2>3, <2>5, Zenon DEF Moves
<1>10. ASSUME ThSend(i) PROVE Moves(i, e)
  <2>1. PICK u : u = Head(s.batch)
    BY Zenon
  <2>2. PICK t : t = [s EXCEPT !.batch = Tail(@), !.waiting = Skips(s), !.last = LastSent(s)]
    BY Zenon
  <2>3. s.at = "send" /\ s.batch # <<>> /\ sess' = [sess EXCEPT ![i] = t]
    BY <1>10, <2>1, <2>2, Zenon DEF ThSend, Set, Skips, LastSent
  <2>4. refs' = Unref(<<u>>)
    BY <1>10, <2>1, Zenon DEF ThSend, SentRefs
  <2>5. SendTo(s, t)
    BY <2>2, <2>3, Zenon DEF SendTo
  <2>6. Follows(s, t, e, <<u>>) /\ (Fresh(s) => Fresh(t))
    BY <2>1, <2>5, SendFollows, Zenon
  <2> QED BY <2>3, <2>4, <2>6, Zenon DEF Moves
<1>11. ASSUME ThEnd(i) PROVE Moves(i, e)
  <2>1. PICK t : EndTo(s, t) /\ sess' = [sess EXCEPT ![i] = t]
    BY <1>11, Zenon DEF ThEnd, Set, EndTo
  <2>2. refs' = Unref(s.queue)
    BY <1>11, Zenon DEF ThEnd
  <2>3. Follows(s, t, e, s.queue) /\ (Fresh(s) => Fresh(t))
    BY <2>1, EndFollows, Zenon
  <2> QED BY <2>1, <2>2, <2>3, Zenon DEF Moves
<1> QED BY <1>2, <1>3, <1>4, <1>5, <1>6, <1>7, <1>8, <1>9, <1>10, <1>11, Zenon DEF Thread

-----------------------------------------------------------------------------
(* What a step on one session does to the counts *)

LEMMA WhereCounts ==
  ASSUME CountingLaws, NEW n
  PROVE  Where(n) \in SUBSET Slots /\ Cardinality(Where(n)) \in Nat
<1>1. Where(n) \in SUBSET Slots
  BY Zenon DEF Where
<1> QED BY <1>1, Zenon DEF CountingLaws

LEMMA UnrefIs ==
  ASSUME refs \in Seq(Int), NEW fs,
         \A n : Cardinality({k \in DOMAIN fs : fs[k].nr = n}) \in Int
  PROVE  /\ Unref(fs) \in Seq(Int) /\ Len(Unref(fs)) = Len(refs) /\ DOMAIN Unref(fs) = DOMAIN refs
         /\ \A n \in DOMAIN refs :
              Unref(fs)[n] = refs[n] - Cardinality({k \in DOMAIN fs : fs[k].nr = n})
<1> DEFINE C(n) == Cardinality({k \in DOMAIN fs : fs[k].nr = n})
<1>1. Unref(fs) = [n \in 1..Len(refs) |-> refs[n] - C(n)]
  BY DEF Unref, Units
<1>2. \A n : C(n) \in Int
  BY Zenon
<1>3. DOMAIN refs = 1..Len(refs)
  OBVIOUS
<1> HIDE DEF C
<1>4. Unref(fs) \in Seq(Int) /\ Len(Unref(fs)) = Len(refs) /\ DOMAIN Unref(fs) = DOMAIN refs
  BY <1>1, <1>2
<1>5. \A n \in DOMAIN refs : Unref(fs)[n] = refs[n] - C(n)
  BY <1>1, <1>3, Zenon
<1> QED BY <1>4, <1>5 DEF C

LEMMA Recount ==
  ASSUME CountingLaws, NEW i \in Slots, NEW t, NEW fs, sess \in [Slots -> Session],
         sess' = [sess EXCEPT ![i] = t], refs \in Seq(Int), refs' = Unref(fs),
         GivesBack(sess[i], t, fs), Counted,
         media'.frame = media.frame, media'.unit = media.unit
  PROVE  /\ Counted' /\ refs' \in Seq(Int) /\ Len(refs') = Len(refs)
         /\ \A n : Where(n)' \subseteq Where(n)
<1> DEFINE C(n) == Cardinality({k \in DOMAIN fs : fs[k].nr = n})
<1>1. \A n : C(n) = IF Holds(sess[i], n) /\ ~Holds(t, n) THEN 1 ELSE 0
  BY Zenon DEF GivesBack
<1>2. \A n : C(n) \in Int
  <2>1. 0 \in Int /\ 1 \in Int
    OBVIOUS
  <2> QED BY <1>1, <2>1, Zenon
<1>3. /\ refs' \in Seq(Int) /\ Len(refs') = Len(refs) /\ DOMAIN refs' = DOMAIN refs
      /\ \A n \in DOMAIN refs : refs'[n] = refs[n] - C(n)
  BY <1>2, UnrefIs, Zenon
<1>4. sess'[i] = t /\ \A j \in Slots : j # i => sess'[j] = sess[j]
  BY Zenon
<1>5. \A n : Where(n)' = {j \in Slots : Holds(sess'[j], n)}
  BY DEF Where
<1>6. \A n : Where(n)' \subseteq Where(n)
  BY <1>4, <1>5, Zenon DEF Where, GivesBack
<1>7. ASSUME NEW n PROVE Cardinality(Where(n)') = Cardinality(Where(n)) - C(n)
  <2>1. Cardinality(Where(n)) \in Nat /\ Where(n) \in SUBSET Slots
    BY WhereCounts
  <2>2. CASE Holds(sess[i], n) /\ ~Holds(t, n)
    <3>1. i \in Where(n)
      BY <2>2 DEF Where
    <3>2. Where(n)' = Where(n) \ {i}
      BY <1>4, <1>5, <2>2, Zenon DEF Where
    <3>3. Cardinality(Where(n)') = Cardinality(Where(n)) - 1
      BY <2>1, <3>1, <3>2, Zenon DEF CountingLaws
    <3> QED BY <1>1, <2>2, <3>3
  <2>3. CASE ~(Holds(sess[i], n) /\ ~Holds(t, n))
    <3>1. Where(n)' = Where(n)
      BY <1>4, <1>5, <2>3, Zenon DEF Where, GivesBack
    <3>2. C(n) = 0
      BY <1>1, <2>3, Zenon
    <3> QED BY <2>1, <3>1, <3>2
  <2> QED BY <2>2, <2>3
<1>8. Counted'
  <2>1. SUFFICES ASSUME NEW n \in DOMAIN refs
                 PROVE  refs'[n] = Cardinality(Where(n)')
                                     + IF media.frame /\ media.unit.nr = n THEN 1 ELSE 0
    BY <1>3, ZenonT(30) DEF Counted, Units
  <2>2. refs[n] = Cardinality(Where(n)) + IF media.frame /\ media.unit.nr = n THEN 1 ELSE 0
    BY Zenon DEF Counted, Units
  <2>3. Cardinality(Where(n)) \in Int /\ C(n) \in Int
    <3>1. Cardinality(Where(n)) \in Nat
      BY WhereCounts
    <3>2. Cardinality(Where(n)) \in Int
      BY <3>1
    <3> QED BY <1>2, <3>2, Zenon
  <2>4. refs'[n] = refs[n] - C(n) /\ Cardinality(Where(n)') = Cardinality(Where(n)) - C(n)
    BY <1>3, <1>7, Zenon
  <2> HIDE DEF C
  <2> QED BY <2>2, <2>3, <2>4
<1> QED BY <1>3, <1>6, <1>8

LEMMA ExpectedIs ==
  ASSUME RefsInv, NEW i \in Slots
  PROVE  /\ Expected(i) \in Nat /\ Expected(i) <= MaxUnits + 1
         /\ Expected(i) \in {Len(refs), Len(refs) + 1}
         /\ Busy \/ media.at = "lock" => media.unit.nr = Len(refs)
<1>1. Len(refs) \in Nat /\ Len(refs) <= MaxUnits
  BY DEF RefsInv
<1>2. media.at = "lock" \/ Busy => media.unit.nr = Len(refs)
  BY DEF RefsInv, MediaInv, Busy
<1> QED BY <1>1, <1>2, StreamAssumption DEF Expected

LEMMA GoodNow == ASSUME RefsInv, NEW i \in Slots PROVE Good(sess[i], Expected(i))
BY Zenon DEF RefsInv, Good

(* A step on a session that is there, all else as it was.                      *)
LEMMA MovesKeepsRefs ==
  ASSUME CountingLaws, RefsInv, NEW i \in Slots, Moves(i, Expected(i)), sess[i].mem = "live",
         table' = table, media' = media, main' = main, slock' = slock,
         force_idr' \in BOOLEAN, media_active' \in BOOLEAN
  PROVE  RefsInv'
<1>1. PICK t, fs : /\ sess' = [sess EXCEPT ![i] = t] /\ refs' = Unref(fs)
                   /\ Follows(sess[i], t, Expected(i), fs)
                   /\ main.at = "insert" => (Fresh(sess[i]) => Fresh(t))
  BY Zenon DEF Moves
<1>2. /\ sess \in [Slots -> Session] /\ refs \in Seq(Int) /\ Len(refs) <= MaxUnits
      /\ MediaInv /\ MainInv /\ TableInv /\ Counted /\ Unseen
      /\ \A j \in Slots : ThreadInv(sess[j]) /\ Sorted(sess[j], Expected(j))
  BY Zenon DEF RefsInv
<1>3. /\ Counted' /\ refs' \in Seq(Int) /\ Len(refs') = Len(refs)
      /\ \A n : Where(n)' \subseteq Where(n)
  <2>1. GivesBack(sess[i], t, fs)
    BY <1>1, Zenon DEF Follows
  <2> QED BY <1>1, <1>2, <2>1, Recount, Zenon
<1>4. sess'[i] = t /\ \A j \in Slots : j # i => sess'[j] = sess[j]
  BY <1>1, <1>2, Zenon
<1>5. t \in Session /\ ThreadInv(t) /\ Sorted(t, Expected(i)) /\ t.mem = sess[i].mem
  BY <1>1, Zenon DEF Follows, Good
<1>6. sess' \in [Slots -> Session]
  BY <1>1, <1>2, <1>5, Zenon
<1>7. \A j \in Slots : Expected(j)' = Expected(j)
  BY <1>3, Zenon DEF Expected, Busy
<1>8. \A j \in Slots : ThreadInv(sess'[j]) /\ Sorted(sess'[j], Expected(j)')
  BY <1>2, <1>4, <1>5, <1>7, Zenon
<1>9. MediaInv' /\ MainInv'
  BY <1>2, <1>3, Zenon DEF MediaInv, MainInv, Busy, Slots
<1>10. TableInv'
  <2>1. table[i] \/ InHand(i)
    <3>1. NoSession.mem # "live"
      BY DEF NoSession
    <3> QED BY <1>2, <3>1, Zenon DEF TableInv
  <2>2. \A j \in Slots : InHand(j)' <=> InHand(j)
    BY Zenon DEF InHand
  <2>3. \A j \in Slots :
          /\ table[j] \/ InHand(j) => sess'[j].mem = "live"
          /\ ~table[j] /\ ~InHand(j) => sess'[j] = NoSession
          /\ main.at = "insert" /\ main.slot = j => Fresh(sess'[j])
    BY <1>1, <1>2, <1>4, <1>5, <2>1, Zenon DEF TableInv
  <2>4. table \in [Slots -> BOOLEAN]
    BY <1>2, Zenon DEF TableInv
  <2> QED BY <2>2, <2>3, <2>4, Zenon DEF TableInv, Slots
<1>11. Unseen'
  <2>1. Busy' <=> Busy
    BY Zenon DEF Busy
  <2>2. Busy /\ ~media.frame => Where(media.unit.nr)' = {}
    BY <1>2, <1>3 DEF Unseen
  <2> QED BY <2>1, <2>2, Zenon DEF Unseen
<1> QED BY <1>2, <1>3, <1>6, <1>8, <1>9, <1>10, <1>11, Zenon DEF RefsInv, Slots

(* Who no longer takes frames has less to keep.                                *)
LEMMA FewerTaken ==
  ASSUME NEW s, NEW e, NEW open, NEW still, Chained(s, e, open), still => open
  PROVE  Chained(s, e, still)
BY Zenon DEF Chained

LEMMA MovesKeepsChain ==
  ASSUME CountingLaws, RefsInv, ChainInv, NEW i \in Slots, Moves(i, Expected(i)),
         table' = table, media' = media, losses' = losses
  PROVE  ChainInv'
<1> SUFFICES ASSUME losses = 0
             PROVE  /\ ~media.gap /\ ~media.flag
                    /\ \A j \in Slots : Chained(sess'[j], Expected(j)', Taking(j)')
  BY Zenon DEF ChainInv, Slots
<1>1. PICK t, fs : /\ sess' = [sess EXCEPT ![i] = t] /\ refs' = Unref(fs)
                   /\ Follows(sess[i], t, Expected(i), fs)
  BY Zenon DEF Moves
<1>2. /\ ~media.gap /\ ~media.flag
      /\ \A j \in Slots : Chained(sess[j], Expected(j), Taking(j))
  BY Zenon DEF ChainInv
<1>3. sess \in [Slots -> Session] /\ refs \in Seq(Int) /\ Counted /\ table \in [Slots -> BOOLEAN]
  BY Zenon DEF RefsInv, TableInv
<1>4. Len(refs') = Len(refs)
  <2>1. GivesBack(sess[i], t, fs)
    BY <1>1, Zenon DEF Follows
  <2> QED BY <1>1, <1>3, <2>1, Recount, Zenon
<1>5. sess'[i] = t /\ \A j \in Slots : j # i => sess'[j] = sess[j]
  BY <1>1, <1>3, Zenon
<1>6. \A j \in Slots : Expected(j)' = Expected(j)
  BY <1>4, Zenon DEF Expected, Busy
<1>7. Chained(t, Expected(i), Taking(i))
  <2>1. Taking(i) \in BOOLEAN /\ (Taking(i) => ~sess[i].stop)
    BY Zenon DEF Taking
  <2> QED BY <1>1, <1>2, <2>1, Zenon DEF Follows
<1>8. Taking(i)' => Taking(i)
  BY <1>1, <1>5, Zenon DEF Taking, Follows
<1>9. Chained(t, Expected(i), Taking(i)')
  BY <1>7, <1>8, FewerTaken, Zenon
<1>10. ASSUME NEW j \in Slots, j # i PROVE Taking(j)' <=> Taking(j)
  BY <1>5, <1>10, Zenon DEF Taking
<1>11. ASSUME NEW j \in Slots, j # i PROVE Chained(sess'[j], Expected(j)', Taking(j)')
  <2>1. Chained(sess[j], Expected(j), Taking(j)')
    BY <1>2, <1>10, <1>11, FewerTaken, Zenon
  <2> QED BY <1>5, <1>6, <1>11, <2>1, Zenon
<1> QED BY <1>2, <1>5, <1>6, <1>9, <1>11, Zenon

(* The steps of the session threads, and those of the main thread and of time  *)
(* on a session.                                                               *)
LEMMA ThreadKeeps ==
  ASSUME CountingLaws, RefsInv, NEW i \in Slots, Thread(i)
  PROVE  RefsInv' /\ (ChainInv => ChainInv')
<1>1. table' = table /\ media' = media /\ main' = main /\ slock' = slock
      /\ losses' = losses /\ media_active' = media_active
  BY Zenon DEF Thread, others, ThTop, ThWait, ThAnswer, ThLoop, ThTake, ThNotConnected, ThSend,
               ThSent, ThEnd, ThFinish
<1>2. sess[i] \in Session /\ force_idr \in BOOLEAN /\ media_active \in BOOLEAN
  BY Zenon DEF RefsInv
<1>3. sess[i].at # "done"
  <2>1. ASSUME NEW s \in Session PROVE [Emptied(s) EXCEPT !.got = FALSE].at = s.at
    BY WaitedIs, Zenon
  <2>2. ThAnswer(i) => sess[i].at = "drop"
    BY <1>2, <2>1, Zenon DEF ThAnswer
  <2>3. sess[i].at \in {"top", "wait", "drop", "loop", "after", "send", "end", "finish"}
    BY <2>2, Zenon DEF Thread, ThTop, ThWait, ThLoop, ThTake, ThNotConnected, ThSend, ThSent,
                       ThEnd, ThFinish
  <2> QED BY <2>3
<1>4. sess[i].mem = "live"
  <2>1. NoSession.at = "done"
    BY DEF NoSession
  <2> QED BY <1>3, <2>1, Zenon DEF RefsInv, TableInv
<1>5. force_idr' \in BOOLEAN
  BY <1>2, Zenon DEF Thread, ThTop, ThWait, ThAnswer, ThLoop, ThTake, ThNotConnected, ThSend,
                     ThSent, ThEnd, ThFinish
<1>6. Moves(i, Expected(i))
  <2>1. Expected(i) \in Nat /\ Expected(i) <= MaxUnits + 1 /\ Good(sess[i], Expected(i))
    BY ExpectedIs, GoodNow, Zenon
  <2>2. refs \in Seq(Int)
    BY Zenon DEF RefsInv
  <2> QED BY <1>4, <2>1, <2>2, ThreadMoves, Zenon
<1>7. RefsInv'
  BY <1>1, <1>2, <1>4, <1>5, <1>6, MovesKeepsRefs, Zenon
<1>8. ChainInv => ChainInv'
  BY <1>1, <1>6, MovesKeepsChain, Zenon
<1> QED BY <1>7, <1>8

LEMMA SessionKeeps ==
  ASSUME CountingLaws, RefsInv, NEW i \in Slots, Answer(i) \/ Close(i) \/ Tick(i)
  PROVE  RefsInv' /\ (ChainInv => ChainInv')
<1>1. table' = table /\ media' = media /\ main' = main /\ slock' = slock
      /\ losses' = losses /\ media_active' = media_active /\ force_idr' = force_idr
      /\ refs' = refs
  BY Zenon DEF Answer, Close, Tick, others
<1>2. /\ force_idr \in BOOLEAN /\ media_active \in BOOLEAN /\ refs \in Seq(Int)
      /\ Expected(i) \in Nat /\ Good(sess[i], Expected(i))
  BY ExpectedIs, GoodNow, Zenon DEF RefsInv
<1>3. sess[i].mem = "live"
  BY Zenon DEF Answer, Close, Tick, RefsInv, TableInv
<1>4. refs' = Unref(<<>>)
  BY <1>1, <1>2, UnrefNone, Zenon
<1>5. PICK t : /\ sess' = [sess EXCEPT ![i] = t]
               /\ \/ t = SetAnswer(sess[i]) /\ main.at = "loop"
                  \/ t = [sess[i] EXCEPT !.stop = TRUE]
                  \/ t = [sess[i] EXCEPT !.age = @ + 1]
  BY Zenon DEF Answer, Close, Tick, Set, Stopped
<1>6. Follows(sess[i], t, Expected(i), <<>>) /\ (main.at = "insert" => (Fresh(sess[i]) => Fresh(t)))
  <2>1. CASE t = SetAnswer(sess[i]) /\ main.at = "loop"
    <3>1. Follows(sess[i], t, Expected(i), <<>>)
      BY <1>2, <2>1, AnswerFollows, Zenon
    <3> QED BY <2>1, <3>1
  <2>2. CASE t = [sess[i] EXCEPT !.stop = TRUE]
    BY <1>2, <2>2, StopFollows, Zenon
  <2>3. CASE t = [sess[i] EXCEPT !.age = @ + 1]
    BY <1>2, <2>3, TickFollows, Zenon
  <2> QED BY <1>5, <2>1, <2>2, <2>3, Zenon
<1>7. Moves(i, Expected(i))
  BY <1>4, <1>5, <1>6, Zenon DEF Moves
<1>8. RefsInv'
  BY <1>1, <1>2, <1>3, <1>7, MovesKeepsRefs, Zenon
<1>9. ChainInv => ChainInv'
  BY <1>1, <1>7, MovesKeepsChain, Zenon
<1> QED BY <1>8, <1>9

-----------------------------------------------------------------------------
(* The main thread *)

\* What RefsInv says of the sessions and the frames.
SessInv ==
    /\ sess \in [Slots -> Session] /\ refs \in Seq(Int) /\ Len(refs) <= MaxUnits
    /\ \A i \in Slots : ThreadInv(sess[i]) /\ Sorted(sess[i], Expected(i))
    /\ Counted /\ Unseen

(* A session is made or destroyed.                                             *)
LEMMA SlotKeeps ==
  ASSUME CountingLaws, RefsInv, NEW i \in Slots, NEW t, NEW fs, sess' = [sess EXCEPT ![i] = t],
         refs' = Unref(fs), Good(t, Expected(i)), GivesBack(sess[i], t, fs), media' = media,
         t.queue = <<>>, t.batch = <<>>, t.state = "new"
  PROVE  /\ SessInv' /\ Len(refs') = Len(refs)
         /\ losses' = losses /\ ChainInv /\ (\A j \in Slots : j # i => (Taking(j)' => Taking(j)))
              => ChainInv'
<1>1. /\ sess \in [Slots -> Session] /\ refs \in Seq(Int) /\ Len(refs) <= MaxUnits
      /\ Counted /\ Unseen
      /\ \A j \in Slots : ThreadInv(sess[j]) /\ Sorted(sess[j], Expected(j))
  BY Zenon DEF RefsInv
<1>2. /\ Counted' /\ refs' \in Seq(Int) /\ Len(refs') = Len(refs)
      /\ \A n : Where(n)' \subseteq Where(n)
  BY <1>1, Recount, Zenon
<1>3. sess'[i] = t /\ \A j \in Slots : j # i => sess'[j] = sess[j]
  BY <1>1, Zenon
<1>4. t \in Session /\ ThreadInv(t) /\ Sorted(t, Expected(i))
  BY Zenon DEF Good
<1>5. sess' \in [Slots -> Session]
  BY <1>1, <1>4, Zenon
<1>6. \A j \in Slots : Expected(j)' = Expected(j)
  BY <1>2, Zenon DEF Expected, Busy
<1>7. \A j \in Slots : ThreadInv(sess'[j]) /\ Sorted(sess'[j], Expected(j)')
  BY <1>1, <1>3, <1>4, <1>6, Zenon
<1>8. Unseen'
  <2>1. Busy' <=> Busy
    BY Zenon DEF Busy
  <2>2. Busy /\ ~media.frame => Where(media.unit.nr)' = {}
    BY <1>1, <1>2 DEF Unseen
  <2> QED BY <2>1, <2>2, Zenon DEF Unseen
<1>9. SessInv'
  BY <1>1, <1>2, <1>5, <1>7, <1>8, Zenon DEF SessInv, Slots
<1>10. ASSUME losses' = losses, ChainInv, \A j \in Slots : j # i => (Taking(j)' => Taking(j))
       PROVE  ChainInv'
  <2> SUFFICES ASSUME losses = 0
               PROVE  /\ ~media.gap /\ ~media.flag
                      /\ \A j \in Slots : Chained(sess'[j], Expected(j)', Taking(j)')
    BY <1>10, Zenon DEF ChainInv, Slots
  <2>1. /\ ~media.gap /\ ~media.flag
        /\ \A j \in Slots : Chained(sess[j], Expected(j), Taking(j))
    BY <1>10, Zenon DEF ChainInv
  <2>2. Chained(t, Expected(i), Taking(i)')
    <3>1. ~GoesOn(t)
      BY DEF GoesOn
    <3>2. Expected(i) \in Nat /\ Taking(i)' \in BOOLEAN
      BY ExpectedIs, Zenon DEF Taking
    <3> QED BY <1>4, <3>1, <3>2, NoChain, Zenon
  <2>3. ASSUME NEW j \in Slots, j # i PROVE Chained(sess[j], Expected(j), Taking(j)')
    BY <1>10, <2>1, <2>3, FewerTaken, Zenon
  <2> QED BY <1>3, <1>6, <2>1, <2>2, <2>3, Zenon
<1> QED BY <1>2, <1>9, <1>10, Zenon

LEMMA NoSessionIs ==
  ASSUME NEW e \in Nat, NEW s \in {NoSession, NewSession}
  PROVE  /\ Good(s, e) /\ Fresh(s) /\ \A n : ~Holds(s, n)
         /\ s.queue = <<>> /\ s.batch = <<>> /\ s.state = "new"
<1>1. /\ NoSession \in Session /\ NoSession.at = "done" /\ NoSession.mem = "none"
      /\ NoSession.queue = <<>> /\ NoSession.batch = <<>> /\ NoSession.state = "new"
      /\ ~NoSession.connected /\ ~NoSession.finished /\ ~NoSession.answer /\ ~NoSession.got
  BY StreamAssumption DEF NoSession, Session, Spots, States
<1>2. /\ NewSession \in Session /\ NewSession.at = "top" /\ NewSession.mem = "live"
      /\ NewSession.queue = <<>> /\ NewSession.batch = <<>> /\ NewSession.state = "new"
      /\ ~NewSession.connected /\ ~NewSession.finished /\ ~NewSession.answer /\ ~NewSession.got
  <2>1. "top" \in Spots
    BY DEF Spots
  <2> QED BY <1>1, <2>1, Zenon DEF NewSession, Session
<1>3. ThreadInv(NewSession) /\ ThreadInv(NoSession) /\ Fresh(NewSession) /\ Fresh(NoSession)
  BY <1>1, <1>2 DEF ThreadInv, Fresh
<1>4. s \in Session /\ s.queue = <<>> /\ s.batch = <<>> /\ s.state = "new" /\ ThreadInv(s) /\ Fresh(s)
  BY <1>1, <1>2, <1>3, Zenon
<1>5. Sorted(s, e) /\ \A n : ~Holds(s, n)
  BY <1>4, NoFrames, Zenon
<1> QED BY <1>4, <1>5, Zenon DEF Good

LEMMA CreateKeeps ==
  ASSUME CountingLaws, RefsInv, NEW i \in Slots, Create(i)
  PROVE  RefsInv' /\ (ChainInv => ChainInv')
<1>1. /\ main.at = "loop" /\ ~table[i] /\ sess' = [sess EXCEPT ![i] = NewSession]
      /\ main' = [at |-> "insert", slot |-> i] /\ table' = table /\ slock' = slock
      /\ media' = media /\ refs' = refs /\ losses' = losses /\ force_idr' = force_idr
      /\ media_active' = media_active
  BY Zenon DEF Create, Set
<1>2. MediaInv /\ MainInv /\ TableInv /\ refs \in Seq(Int) /\ sess \in [Slots -> Session]
  BY Zenon DEF RefsInv
<1>3. sess[i] = NoSession
  BY <1>1, <1>2 DEF TableInv, InHand
<1>4. /\ Good(NewSession, Expected(i)) /\ NewSession.queue = <<>> /\ NewSession.batch = <<>>
      /\ NewSession.state = "new" /\ Fresh(NewSession) /\ NewSession.mem = "live"
      /\ \A n : ~Holds(NewSession, n) /\ ~Holds(NoSession, n)
  <2>1. NewSession.mem = "live"
    BY Zenon DEF NewSession, NoSession
  <2> QED BY <2>1, NoSessionIs, ExpectedIs, Zenon
<1>5. GivesBack(sess[i], NewSession, <<>>) /\ refs' = Unref(<<>>)
  BY <1>1, <1>2, <1>3, <1>4, GivesNone, UnrefNone, Zenon
<1>6. sess'[i] = NewSession /\ \A j \in Slots : j # i => sess'[j] = sess[j]
  BY <1>1, <1>2, Zenon
<1>7. \A j \in Slots : j # i => (Taking(j)' => Taking(j))
  BY <1>1, <1>6, Zenon DEF Taking
<1>8. SessInv' /\ (ChainInv => ChainInv') /\ Len(refs') = Len(refs)
  BY <1>1, <1>4, <1>5, <1>7, SlotKeeps, Zenon
<1>9. main'.at = "insert" /\ main'.slot = i
  BY <1>1, Zenon
<1>10. MediaInv'
  <2>1. media.at # "done"
    BY <1>1, <1>2 DEF MediaInv
  <2> QED BY <1>1, <1>2, <2>1, Zenon DEF MediaInv, Busy, Slots
<1>11. MainInv'
  BY <1>1, <1>9, StreamAssumption DEF MainInv, Slots
<1>12. TableInv'
  <2>1. \A j \in Slots : ~InHand(j) /\ (InHand(j)' <=> j = i)
    BY <1>1, <1>9 DEF InHand
  <2>2. \A j \in Slots :
          /\ table[j] \/ j = i => sess'[j].mem = "live"
          /\ ~table[j] /\ j # i => sess'[j] = NoSession
          /\ j = i => Fresh(sess'[j])
    BY <1>2, <1>4, <1>6, <2>1, Zenon DEF TableInv
  <2>3. table' \in [Slots -> BOOLEAN]
    BY <1>1, <1>2, Zenon DEF TableInv
  <2> QED BY <1>1, <1>9, <2>1, <2>2, <2>3, Zenon DEF TableInv, Slots
<1>13. RefsInv'
  BY <1>1, <1>8, <1>10, <1>11, <1>12, Zenon DEF RefsInv, SessInv, Slots
<1> QED BY <1>8, <1>13

LEMMA DestroyKeeps ==
  ASSUME CountingLaws, RefsInv, NEW i \in Slots, Destroy(i), media' = media, losses' = losses,
         \A j \in Slots : j # i => table'[j] = table[j]
  PROVE  /\ SessInv' /\ (ChainInv => ChainInv') /\ Len(refs') = Len(refs)
         /\ sess'[i] = NoSession /\ \A j \in Slots : j # i => sess'[j] = sess[j]
<1>1. sess[i].at = "done" /\ refs' = Unref(sess[i].queue) /\ sess' = [sess EXCEPT ![i] = NoSession]
  BY Zenon DEF Destroy, DestroyRefs, Set
<1>2. sess \in [Slots -> Session] /\ Sorted(sess[i], Expected(i)) /\ ThreadInv(sess[i])
  BY Zenon DEF RefsInv
<1>3. sess[i].batch = <<>>
  BY <1>1, <1>2 DEF ThreadInv
<1>4. /\ Good(NoSession, Expected(i)) /\ NoSession.queue = <<>> /\ NoSession.batch = <<>>
      /\ NoSession.state = "new" /\ \A n : ~Holds(NoSession, n)
  BY NoSessionIs, ExpectedIs, Zenon
<1>5. GivesBack(sess[i], NoSession, sess[i].queue)
  BY <1>2, <1>3, <1>4, GivesQueue, Zenon
<1>6. sess'[i] = NoSession /\ \A j \in Slots : j # i => sess'[j] = sess[j]
  BY <1>1, <1>2, Zenon
<1>7. \A j \in Slots : j # i => (Taking(j)' => Taking(j))
  BY <1>6, Zenon DEF Taking
<1>8. SessInv' /\ (ChainInv => ChainInv') /\ Len(refs') = Len(refs)
  BY <1>1, <1>4, <1>5, <1>7, SlotKeeps, Zenon
<1> QED BY <1>6, <1>8

LEMMA ReapDestroyKeeps ==
  ASSUME CountingLaws, RefsInv, ReapDestroy
  PROVE  RefsInv' /\ (ChainInv => ChainInv')
<1>1. /\ main.at = "destroy" /\ Destroy(main.slot) /\ main' = [at |-> "loop", slot |-> 0]
      /\ media_active' \in BOOLEAN /\ table' = table /\ slock' = slock /\ media' = media
      /\ losses' = losses /\ force_idr' = force_idr
  BY Zenon DEF ReapDestroy
<1>2. MediaInv /\ MainInv /\ TableInv /\ force_idr \in BOOLEAN
  BY Zenon DEF RefsInv
<1>3. main.slot \in Slots /\ ~table[main.slot]
  BY <1>1, <1>2 DEF MainInv
<1>4. /\ SessInv' /\ (ChainInv => ChainInv') /\ Len(refs') = Len(refs)
      /\ sess'[main.slot] = NoSession /\ \A j \in Slots : j # main.slot => sess'[j] = sess[j]
  BY <1>1, <1>3, DestroyKeeps, Zenon
<1>5. main'.at = "loop" /\ main'.slot = 0
  BY <1>1, Zenon
<1>6. MediaInv'
  <2>1. media.at # "done"
    BY <1>1, <1>2 DEF MediaInv
  <2> QED BY <1>1, <1>2, <1>4, <2>1, Zenon DEF MediaInv, Busy, Slots
<1>7. MainInv'
  BY <1>1, <1>5, StreamAssumption DEF MainInv
<1>8. TableInv'
  <2>1. \A j \in Slots : ~InHand(j)' /\ (InHand(j) <=> j = main.slot)
    BY <1>1, <1>5 DEF InHand
  <2>2. \A j \in Slots :
          /\ table[j] => sess'[j].mem = "live"
          /\ ~table[j] => sess'[j] = NoSession
    BY <1>2, <1>3, <1>4, <2>1, Zenon DEF TableInv
  <2>3. table' \in [Slots -> BOOLEAN] /\ main'.at # "insert"
    BY <1>1, <1>2, <1>5 DEF TableInv
  <2> QED BY <1>1, <2>1, <2>2, <2>3, Zenon DEF TableInv, Slots
<1>9. RefsInv'
  BY <1>1, <1>2, <1>4, <1>6, <1>7, <1>8, Zenon DEF RefsInv, SessInv, Slots
<1> QED BY <1>4, <1>9

LEMMA QuitDestroyKeeps ==
  ASSUME CountingLaws, RefsInv, QuitDestroy
  PROVE  RefsInv' /\ (ChainInv => ChainInv')
<1> DEFINE i == main.slot
<1>1. /\ main.at = "quit" /\ i \in Slots /\ main' = [main EXCEPT !.slot = i + 1]
      /\ slock' = slock /\ media' = media /\ losses' = losses /\ force_idr' = force_idr
      /\ media_active' = media_active
  BY Zenon DEF QuitDestroy
<1>2. /\ MediaInv /\ MainInv /\ TableInv /\ force_idr \in BOOLEAN /\ media_active \in BOOLEAN
      /\ SessInv /\ i \in Nat /\ table \in [Slots -> BOOLEAN]
  <2>1. i \in Nat
    BY <1>1, StreamAssumption DEF Slots
  <2> QED BY <2>1, Zenon DEF RefsInv, SessInv, TableInv
<1>3. main'.at = "quit" /\ main'.slot = i + 1
  BY <1>1, <1>2 DEF MainInv
<1>4. /\ SessInv' /\ (ChainInv => ChainInv') /\ Len(refs') = Len(refs)
      /\ sess'[i] = NoSession /\ (\A j \in Slots : j # i => sess'[j] = sess[j])
      /\ table' = [table EXCEPT ![i] = FALSE]
  <2>1. CASE table[i]
    <3>1. Destroy(i) /\ table' = [table EXCEPT ![i] = FALSE]
      BY <2>1, Zenon DEF QuitDestroy
    <3>2. \A j \in Slots : j # i => table'[j] = table[j]
      BY <1>2, <3>1, Zenon DEF TableInv
    <3> QED BY <1>1, <3>1, <3>2, DestroyKeeps, Zenon
  <2>2. CASE ~table[i]
    <3>1. table' = table /\ sess' = sess /\ refs' = refs
      BY <2>2, Zenon DEF QuitDestroy
    <3>2. table' = [table EXCEPT ![i] = FALSE]
      BY <1>1, <1>2, <2>2, <3>1 DEF TableInv
    <3>3. sess'[i] = NoSession
      BY <1>1, <1>2, <2>2, <3>1 DEF TableInv, InHand
    <3>4. SessInv' /\ (ChainInv => ChainInv')
      BY <1>1, <1>2, <3>1, Zenon DEF SessInv, ChainInv, Counted, Unseen, Where, Busy, Expected,
                                     Taking, Units, Slots
    <3> QED BY <3>1, <3>2, <3>3, <3>4, Zenon
  <2> QED BY <2>1, <2>2
<1>5. /\ table'[i] = FALSE /\ (\A j \in Slots : j # i => table'[j] = table[j])
      /\ table' \in [Slots -> BOOLEAN]
  BY <1>1, <1>2, <1>4, Zenon DEF TableInv
<1>6. media.at = "done"
  BY <1>1, <1>2 DEF MainInv
<1>7. MediaInv'
  BY <1>1, <1>2, <1>3, <1>4, <1>6 DEF MediaInv, Busy
<1>8. MainInv'
  <2>1. \A j \in Slots : j < i + 1 => ~table'[j]
    <3>1. \A j \in Slots : j < i => ~table[j]
      BY <1>1, <1>2 DEF MainInv
    <3>2. \A j \in Slots : j < i + 1 => j < i \/ j = i
      BY <1>2 DEF Slots
    <3> QED BY <1>5, <3>1, <3>2
  <2>2. main' \in [at: {"loop", "insert", "destroy", "join_media", "quit"}, slot: 0..MaxSlots + 1]
    <3>1. i + 1 \in 0..MaxSlots + 1
      BY <1>1, StreamAssumption DEF Slots
    <3> QED BY <1>1, <1>2, <3>1 DEF MainInv
  <2> QED BY <1>1, <1>3, <1>6, <2>1, <2>2 DEF MainInv, Slots
<1>9. TableInv'
  <2>1. \A j \in Slots : ~InHand(j)' /\ ~InHand(j)
    BY <1>1, <1>3 DEF InHand
  <2>2. \A j \in Slots :
          /\ table'[j] => sess'[j].mem = "live"
          /\ ~table'[j] => sess'[j] = NoSession
    BY <1>2, <1>4, <1>5, <2>1, Zenon DEF TableInv
  <2>3. main'.at # "insert"
    BY <1>3
  <2> QED BY <1>5, <2>1, <2>2, <2>3, Zenon DEF TableInv, Slots
<1>10. RefsInv'
  BY <1>1, <1>2, <1>4, <1>7, <1>8, <1>9, Zenon DEF RefsInv, SessInv, Slots
<1> QED BY <1>4, <1>10

(* The sessions stay as they are.                                              *)
LEMMA SameSessions ==
  ASSUME RefsInv, sess' = sess, refs' = refs, media' = media
  PROVE  SessInv' /\ \A j \in Slots : Expected(j)' = Expected(j)
<1>1. \A j \in Slots : Expected(j)' = Expected(j)
  BY Zenon DEF Expected, Busy
<1>2. Counted' /\ Unseen'
  BY Zenon DEF RefsInv, Counted, Unseen, Where, Busy, Units, Slots
<1>3. SessInv'
  BY <1>1, <1>2, Zenon DEF RefsInv, SessInv, Slots
<1> QED BY <1>1, <1>3

LEMMA InsertKeeps ==
  ASSUME RefsInv, Insert
  PROVE  RefsInv' /\ (ChainInv => ChainInv')
<1>0. PICK i : i = main.slot
  OBVIOUS
<1>1. /\ main.at = "insert" /\ slock = "free" /\ table' = [table EXCEPT ![i] = TRUE]
      /\ media_active' = TRUE /\ main' = [at |-> "loop", slot |-> 0] /\ sess' = sess
      /\ slock' = slock /\ media' = media /\ refs' = refs /\ losses' = losses
      /\ force_idr' = force_idr
  BY <1>0, Zenon DEF Insert
<1>2. /\ MediaInv /\ MainInv /\ TableInv /\ force_idr \in BOOLEAN /\ table \in [Slots -> BOOLEAN]
      /\ sess \in [Slots -> Session]
  BY Zenon DEF RefsInv, TableInv
<1>3. i \in Slots /\ ~table[i]
  BY <1>0, <1>1, <1>2 DEF MainInv
<1>4. SessInv' /\ \A j \in Slots : Expected(j)' = Expected(j)
  BY <1>1, SameSessions, Zenon
<1>5. /\ main'.at = "loop" /\ main'.slot = 0
      /\ table' \in [Slots -> BOOLEAN] /\ table'[i] /\ \A j \in Slots : j # i => table'[j] = table[j]
  BY <1>1, <1>2, <1>3, Zenon
<1>6. ~Busy /\ media.at # "done"
  BY <1>1, <1>2 DEF MediaInv
<1>7. MediaInv'
  BY <1>1, <1>2, <1>6 DEF MediaInv, Busy
<1>8. MainInv'
  BY <1>1, <1>5, StreamAssumption DEF MainInv
<1>9. TableInv'
  <2>1. \A j \in Slots : ~InHand(j)' /\ (InHand(j) <=> j = i)
    BY <1>0, <1>1, <1>5 DEF InHand
  <2>2. \A j \in Slots :
          /\ table'[j] => sess[j].mem = "live"
          /\ ~table'[j] => sess[j] = NoSession
    BY <1>2, <1>3, <1>5, <2>1, Zenon DEF TableInv
  <2>3. main'.at # "insert"
    BY <1>5
  <2> QED BY <1>1, <1>5, <2>1, <2>2, <2>3, Zenon DEF TableInv, Slots
<1>10. RefsInv'
  BY <1>1, <1>2, <1>4, <1>7, <1>8, <1>9, Zenon DEF RefsInv, SessInv, Slots
<1>11. ASSUME ChainInv PROVE ChainInv'
  <2> SUFFICES ASSUME losses = 0
               PROVE  /\ ~media.gap /\ ~media.flag
                      /\ \A j \in Slots : Chained(sess[j], Expected(j), Taking(j)')
    BY <1>1, <1>4, <1>11, Zenon DEF ChainInv, Slots
  <2>1. /\ ~media.gap /\ ~media.flag
        /\ \A j \in Slots : Chained(sess[j], Expected(j), Taking(j))
    BY <1>11, Zenon DEF ChainInv
  <2>2. Fresh(sess[i])
    BY <1>0, <1>1, <1>2, <1>3, Zenon DEF TableInv
  <2>3. sess[i].queue = <<>> /\ ~GoesOn(sess[i])
    BY <2>2 DEF Fresh, GoesOn
  <2>4. Chained(sess[i], Expected(i), Taking(i)')
    BY <1>3, <2>1, <2>3, Zenon DEF Chained
  <2>5. ASSUME NEW j \in Slots, j # i PROVE Chained(sess[j], Expected(j), Taking(j)')
    <3>1. Taking(j)' => Taking(j)
      BY <1>1, <1>5, <2>5, Zenon DEF Taking
    <3>2. Chained(sess[j], Expected(j), Taking(j))
      BY <2>1, Zenon
    <3> QED BY <3>1, <3>2, FewerTaken, Zenon
  <2> QED BY <2>1, <2>4, <2>5, Zenon
<1> QED BY <1>10, <1>11

LEMMA ReapRemoveKeeps ==
  ASSUME RefsInv, NEW i \in Slots, ReapRemove(i)
  PROVE  RefsInv' /\ (ChainInv => ChainInv')
<1>1. /\ main.at = "loop" /\ table[i] /\ slock = "free" /\ table' = [table EXCEPT ![i] = FALSE]
      /\ main' = [at |-> "destroy", slot |-> i] /\ sess' = sess /\ slock' = slock
      /\ media' = media /\ refs' = refs /\ losses' = losses
      /\ force_idr' = force_idr /\ media_active' = media_active
  BY Zenon DEF ReapRemove, MayRemove
<1>2. /\ MediaInv /\ MainInv /\ TableInv /\ force_idr \in BOOLEAN /\ table \in [Slots -> BOOLEAN]
      /\ media_active \in BOOLEAN
  BY Zenon DEF RefsInv, TableInv
<1>3. SessInv' /\ \A j \in Slots : Expected(j)' = Expected(j)
  BY <1>1, SameSessions, Zenon
<1>4. /\ main'.at = "destroy" /\ main'.slot = i
      /\ table' \in [Slots -> BOOLEAN] /\ ~table'[i] /\ \A j \in Slots : j # i => table'[j] = table[j]
  BY <1>1, <1>2, Zenon
<1>5. ~Busy /\ media.at # "done"
  BY <1>1, <1>2 DEF MediaInv
<1>6. MediaInv'
  BY <1>1, <1>2, <1>5 DEF MediaInv, Busy
<1>7. MainInv'
  BY <1>1, <1>4, StreamAssumption DEF MainInv, Slots
<1>8. TableInv'
  <2>1. \A j \in Slots : ~InHand(j) /\ (InHand(j)' <=> j = i)
    BY <1>1, <1>4 DEF InHand
  <2>2. \A j \in Slots :
          /\ table'[j] \/ j = i => sess[j].mem = "live"
          /\ ~table'[j] /\ j # i => sess[j] = NoSession
    BY <1>1, <1>2, <1>4, <2>1, Zenon DEF TableInv
  <2>3. main'.at # "insert"
    BY <1>4
  <2> QED BY <1>1, <1>4, <2>1, <2>2, <2>3, Zenon DEF TableInv, Slots
<1>9. RefsInv'
  BY <1>1, <1>2, <1>3, <1>6, <1>7, <1>8, Zenon DEF RefsInv, SessInv, Slots
<1>10. ASSUME ChainInv PROVE ChainInv'
  <2>1. \A j \in Slots : Taking(j)' => Taking(j)
    BY <1>1, <1>4, Zenon DEF Taking
  <2>2. ASSUME losses = 0, NEW j \in Slots PROVE Chained(sess[j], Expected(j), Taking(j)')
    BY <1>10, <2>1, <2>2, FewerTaken, Zenon DEF ChainInv
  <2> QED BY <1>1, <1>3, <1>10, <2>2, Zenon DEF ChainInv, Slots
<1> QED BY <1>9, <1>10

LEMMA QuitKeeps ==
  ASSUME CountingLaws, RefsInv, Quit
  PROVE  RefsInv' /\ (ChainInv => ChainInv')
<1>1. /\ main.at = "loop" /\ main' = [at |-> "join_media", slot |-> 0]
      /\ sess' = [j \in Slots |-> IF table[j] THEN [sess[j] EXCEPT !.stop = TRUE] ELSE sess[j]]
      /\ table' = table /\ slock' = slock /\ media' = media /\ refs' = refs /\ losses' = losses
      /\ force_idr' = force_idr /\ media_active' = media_active
  BY Zenon DEF Quit
<1>2. /\ MediaInv /\ MainInv /\ TableInv /\ force_idr \in BOOLEAN /\ table \in [Slots -> BOOLEAN]
      /\ media_active \in BOOLEAN /\ sess \in [Slots -> Session] /\ refs \in Seq(Int)
      /\ Len(refs) <= MaxUnits /\ Counted /\ Unseen
  BY Zenon DEF RefsInv, TableInv
<1>3. \A j \in Slots : Expected(j)' = Expected(j)
  BY <1>1, Zenon DEF Expected, Busy
<1>4. ASSUME NEW j \in Slots
      PROVE  /\ sess'[j] = sess[j] \/ Follows(sess[j], sess'[j], Expected(j), <<>>)
             /\ sess'[j].queue = sess[j].queue /\ sess'[j].batch = sess[j].batch
             /\ ~table[j] => sess'[j] = sess[j]
  <2>1. CASE table[j]
    <3>1. PICK t : t = [sess[j] EXCEPT !.stop = TRUE]
      BY Zenon
    <3>2. sess'[j] = t
      BY <1>1, <2>1, <3>1, Zenon
    <3>3. Follows(sess[j], t, Expected(j), <<>>)
      BY <3>1, StopFollows, ExpectedIs, GoodNow, Zenon
    <3>4. t.queue = sess[j].queue /\ t.batch = sess[j].batch
      BY <1>2, <3>1, Zenon DEF Session
    <3> QED BY <2>1, <3>2, <3>3, <3>4, Zenon
  <2>2. CASE ~table[j]
    BY <1>1, <2>2, Zenon
  <2> QED BY <2>1, <2>2
<1>5. ASSUME NEW j \in Slots
      PROVE  Good(sess'[j], Expected(j)) /\ sess'[j].mem = sess[j].mem
  BY <1>4, GoodNow, Zenon DEF Follows
<1>6. sess' \in [Slots -> Session]
  <2>1. \A j \in Slots : sess'[j] \in Session
    BY <1>5, Zenon DEF Good
  <2> QED BY <1>1, <2>1, Zenon
<1>7. \A n : Where(n)' = Where(n)
  <2>1. \A n : \A j \in Slots : Holds(sess'[j], n) <=> Holds(sess[j], n)
    BY <1>4, Zenon DEF Holds
  <2> QED BY <2>1, Zenon DEF Where, Slots
<1>8. Counted' /\ Unseen'
  <2>1. Counted'
    BY <1>1, <1>2, <1>7, Zenon DEF Counted, Units
  <2>2. Where(media.unit.nr)' = Where(media.unit.nr)
    BY <1>1, <1>7, Zenon
  <2>3. Unseen'
    BY <1>1, <1>2, <2>2, Zenon DEF Unseen, Busy
  <2> QED BY <2>1, <2>3
<1>9. \A j \in Slots : ThreadInv(sess'[j]) /\ Sorted(sess'[j], Expected(j)')
  BY <1>3, <1>5, Zenon DEF Good
<1>10. main'.at = "join_media" /\ main'.slot = 0
  BY <1>1, Zenon
<1>11. MediaInv'
  <2>1. media.at # "done"
    BY <1>1, <1>2 DEF MediaInv
  <2> QED BY <1>1, <1>2, <2>1, Zenon DEF MediaInv, Busy, Slots
<1>12. MainInv'
  BY <1>1, <1>10, StreamAssumption DEF MainInv
<1>13. TableInv'
  <2>1. \A j \in Slots : ~InHand(j)' /\ ~InHand(j)
    BY <1>1, <1>10 DEF InHand
  <2>2. \A j \in Slots :
          /\ table[j] => sess'[j].mem = "live"
          /\ ~table[j] => sess'[j] = NoSession
    BY <1>2, <1>4, <1>5, <2>1, Zenon DEF TableInv
  <2>3. main'.at # "insert"
    BY <1>10
  <2> QED BY <1>1, <1>2, <2>1, <2>2, <2>3, Zenon DEF TableInv, Slots
<1>14. RefsInv'
  BY <1>1, <1>2, <1>6, <1>8, <1>9, <1>11, <1>12, <1>13, Zenon DEF RefsInv, Slots
<1>15. ASSUME ChainInv, losses = 0, NEW j \in Slots PROVE Chained(sess'[j], Expected(j), Taking(j)')
  <2>1. Chained(sess[j], Expected(j), Taking(j))
    BY <1>15, Zenon DEF ChainInv
  <2>2. Taking(j) \in BOOLEAN /\ (Taking(j) => ~sess[j].stop)
    BY Zenon DEF Taking
  <2>3. Chained(sess'[j], Expected(j), Taking(j))
    BY <1>4, <2>1, <2>2, Zenon DEF Follows
  <2>4. Taking(j)' => Taking(j)
    BY <1>1, <1>4, Zenon DEF Taking, Follows
  <2> QED BY <2>3, <2>4, FewerTaken, Zenon
<1>16. ChainInv => ChainInv'
  BY <1>1, <1>3, <1>15, Zenon DEF ChainInv, Slots
<1> QED BY <1>14, <1>16

LEMMA JoinMediaKeeps ==
  ASSUME RefsInv, JoinMedia
  PROVE  RefsInv' /\ (ChainInv => ChainInv')
<1>1. /\ main.at = "join_media" /\ media.at = "done" /\ main' = [at |-> "quit", slot |-> 1]
      /\ table' = table /\ sess' = sess /\ slock' = slock /\ media' = media /\ refs' = refs
      /\ losses' = losses /\ force_idr' = force_idr /\ media_active' = media_active
  BY Zenon DEF JoinMedia
<1>2. MediaInv /\ MainInv /\ TableInv /\ force_idr \in BOOLEAN /\ media_active \in BOOLEAN
  BY Zenon DEF RefsInv
<1>3. SessInv' /\ \A j \in Slots : Expected(j)' = Expected(j)
  BY <1>1, SameSessions, Zenon
<1>4. main'.at = "quit" /\ main'.slot = 1
  BY <1>1, Zenon
<1>5. MediaInv'
  BY <1>1, <1>2, <1>4 DEF MediaInv, Busy
<1>6. MainInv'
  BY <1>1, <1>4, StreamAssumption DEF MainInv, Slots
<1>7. TableInv'
  <2>1. \A j \in Slots : ~InHand(j)' /\ ~InHand(j)
    BY <1>1, <1>4 DEF InHand
  <2>2. main'.at # "insert"
    BY <1>4
  <2> QED BY <1>1, <1>2, <2>1, <2>2, Zenon DEF TableInv, Slots
<1>8. RefsInv'
  BY <1>1, <1>2, <1>3, <1>5, <1>6, <1>7, Zenon DEF RefsInv, SessInv, Slots
<1>9. \A j \in Slots : Taking(j)' <=> Taking(j)
  BY <1>1, Zenon DEF Taking
<1>10. ASSUME ChainInv, losses = 0, NEW j \in Slots PROVE Chained(sess[j], Expected(j), Taking(j)')
  BY <1>9, <1>10, FewerTaken, Zenon DEF ChainInv
<1>11. ChainInv => ChainInv'
  BY <1>1, <1>3, <1>10, Zenon DEF ChainInv, Slots
<1> QED BY <1>8, <1>11

-----------------------------------------------------------------------------
(* The media thread *)

(* What was in order for one unit is for a later one; who does not take frames *)
(* does not mind which comes next.                                             *)
LEMMA Later ==
  ASSUME NEW s, NEW e \in Nat, NEW f \in Nat, e <= f, Sorted(s, e)
  PROVE  Sorted(s, f)
<1>1. \A n \in 1..e - 1 : n \in 1..f - 1
  OBVIOUS
<1> QED BY <1>1, Zenon DEF Sorted

LEMMA NotTaken ==
  ASSUME NEW s, NEW e, NEW f, NEW open, ~open, Chained(s, e, open)
  PROVE  Chained(s, f, open)
BY Zenon DEF Chained

LEMMA HeldBefore ==
  ASSUME NEW s, NEW e \in Nat, Sorted(s, e), NEW n, Holds(s, n)
  PROVE  n \in Int /\ n < e
<1>1. n \in 1..e - 1
  BY Zenon DEF Holds, Sorted
<1> QED BY <1>1

LEMMA MediaFrame ==
  ASSUME RefsInv, table' = table, main' = main, sess' = sess, media.at # "done"
  PROVE  MainInv' /\ TableInv'
<1>1. MainInv /\ TableInv
  BY Zenon DEF RefsInv
<1>2. main.at # "quit"
  BY <1>1 DEF MainInv
<1>3. MainInv'
  BY <1>1, <1>2, Zenon DEF MainInv, Slots
<1>4. TableInv'
  BY <1>1, Zenon DEF TableInv, InHand, Slots
<1> QED BY <1>3, <1>4

LEMMA PopKeeps ==
  ASSUME CountingLaws, RefsInv, Pop
  PROVE  RefsInv' /\ (ChainInv => ChainInv')
<1>1. /\ media.at = "poll" /\ Len(refs) < MaxUnits /\ refs' = Append(refs, 0) /\ force_idr' = FALSE
      /\ table' = table /\ sess' = sess /\ slock' = slock /\ main' = main
      /\ media_active' = media_active
  BY Zenon DEF Pop
<1>2. \/ \E b \in BOOLEAN : /\ losses' = losses
                             /\ media' = [media EXCEPT !.at = "lock", !.unit = [nr |-> Len(refs) + 1, idr |-> b],
                                                       !.flag = media.gap, !.gap = FALSE]
      \/ losses' = losses + 1 /\ media' = [media EXCEPT !.gap = TRUE]
  BY Zenon DEF Pop
<1>3. /\ MediaInv /\ sess \in [Slots -> Session] /\ refs \in Seq(Int) /\ Counted
      /\ media_active \in BOOLEAN
      /\ \A j \in Slots : ThreadInv(sess[j]) /\ Sorted(sess[j], Expected(j))
  BY Zenon DEF RefsInv
<1>4. /\ Len(refs) \in Nat /\ Len(refs') = Len(refs) + 1 /\ refs' \in Seq(Int)
      /\ DOMAIN refs = 1..Len(refs) /\ DOMAIN refs' = 1..Len(refs) + 1
      /\ refs'[Len(refs) + 1] = 0 /\ \A n \in DOMAIN refs : refs'[n] = refs[n]
  BY <1>1, <1>3
<1>5. ~Busy /\ ~media.frame /\ slock = "free"
  BY <1>1, <1>3 DEF MediaInv, Busy
<1>6. \A j \in Slots : Expected(j) = Len(refs) + 1
  BY <1>1, <1>5 DEF Expected
<1>7. /\ media' \in MediaRecord
      /\ ~media'.frame
      /\ \/ media'.at = "poll"
         \/ media'.at = "lock" /\ media'.unit.nr = Len(refs) + 1
  <2>1. media \in MediaRecord
    BY <1>3, Zenon DEF MediaInv
  <2>2. CASE media' = [media EXCEPT !.gap = TRUE]
    BY <1>1, <1>5, <2>1, <2>2, Zenon DEF MediaRecord
  <2>3. CASE \E b \in BOOLEAN : media' = [media EXCEPT !.at = "lock", !.unit = [nr |-> Len(refs) + 1, idr |-> b],
                                                       !.flag = media.gap, !.gap = FALSE]
    <3>1. PICK b \in BOOLEAN : media' = [media EXCEPT !.at = "lock", !.unit = [nr |-> Len(refs) + 1, idr |-> b],
                                                     !.flag = media.gap, !.gap = FALSE]
      BY <2>3, Zenon
    <3>2. PICK u : u = [nr |-> Len(refs) + 1, idr |-> b]
      BY Zenon
    <3>3. u \in Unit /\ u.nr = Len(refs) + 1
      BY <1>4, <3>2 DEF Unit
    <3>4. media' = [media EXCEPT !.at = "lock", !.unit = u, !.flag = media.gap, !.gap = FALSE]
      BY <3>1, <3>2, Zenon
    <3> QED BY <1>5, <2>1, <3>3, <3>4, Zenon DEF MediaRecord
  <2> QED BY <1>2, <2>2, <2>3, Zenon
<1>8. ~Busy'
  BY <1>7 DEF Busy
<1>9. MediaInv'
  <2>1. slock' = IF Busy' THEN "media" ELSE "free"
    BY <1>1, <1>5, <1>8
  <2>2. media'.at = "lock" => media'.unit.nr = Len(refs') /\ media'.unit.nr \in 1..MaxUnits
    BY <1>1, <1>4, <1>7, StreamAssumption
  <2>3. media'.at \notin {"slot", "resync", "push", "done"}
    BY <1>7
  <2> QED BY <1>7, <1>8, <2>1, <2>2, <2>3, Zenon DEF MediaInv, Slots
<1>10. \A j \in Slots : Expected(j)' \in Nat /\ Expected(j)' >= Len(refs) + 1
                        /\ (media'.at = "lock" => Expected(j)' = Len(refs) + 1)
  BY <1>4, <1>7, <1>8 DEF Expected
<1>11. \A j \in Slots : ThreadInv(sess'[j]) /\ Sorted(sess'[j], Expected(j)')
  <2>1. ASSUME NEW j \in Slots PROVE Sorted(sess[j], Expected(j)')
    <3>1. Sorted(sess[j], Len(refs) + 1) /\ Len(refs) + 1 \in Nat
      BY <1>3, <1>4, <1>6
    <3>2. Len(refs) + 1 <= Expected(j)' /\ Expected(j)' \in Nat
      BY <1>4, <1>10
    <3> QED BY <3>1, <3>2, Later, Zenon
  <2> QED BY <1>1, <1>3, <2>1, Zenon
<1>12. \A n : Where(n)' = Where(n)
  BY <1>1, Zenon DEF Where, Slots
<1>13. Where(Len(refs) + 1) = {}
  <2>1. ASSUME NEW j \in Slots PROVE ~Holds(sess[j], Len(refs) + 1)
    <3>1. Sorted(sess[j], Len(refs) + 1) /\ Len(refs) + 1 \in Nat
      BY <1>3, <1>4, <1>6
    <3>2. Holds(sess[j], Len(refs) + 1) => Len(refs) + 1 < Len(refs) + 1
      BY <3>1, HeldBefore, Zenon
    <3> QED BY <1>4, <3>2
  <2> QED BY <2>1 DEF Where
<1>14. Counted'
  <2>1. SUFFICES ASSUME NEW n \in DOMAIN refs' PROVE refs'[n] = Cardinality(Where(n)) + 0
    BY <1>7, <1>12, Zenon DEF Counted, Units
  <2>2. CASE n \in DOMAIN refs
    BY <1>3, <1>4, <1>5, <2>2 DEF Counted, Units
  <2>3. CASE n = Len(refs) + 1
    <3>1. Cardinality(Where(n)) = 0
      BY <1>13, <2>3, Zenon DEF CountingLaws
    <3> QED BY <1>4, <2>3, <3>1
  <2> QED BY <1>4, <2>2, <2>3
<1>15. Unseen'
  BY <1>8, Zenon DEF Unseen
<1>16. MainInv' /\ TableInv'
  BY <1>1, MediaFrame
<1>17. RefsInv'
  <2>1. Len(refs') <= MaxUnits
    BY <1>1, <1>4, StreamAssumption
  <2>2. force_idr' \in BOOLEAN /\ sess' \in [Slots -> Session]
    BY <1>1, <1>3, Zenon
  <2> QED BY <1>1, <1>3, <1>4, <1>9, <1>11, <1>14, <1>15, <1>16, <2>1, <2>2, Zenon DEF RefsInv, Slots
<1>18. ASSUME ChainInv PROVE ChainInv'
  <2>1. losses \in Nat /\ losses' \in Nat
    <3>1. losses \in Nat
      BY <1>18, Zenon DEF ChainInv
    <3>2. losses + 1 \in Nat
      BY <3>1
    <3> QED BY <1>2, <3>1, <3>2, Zenon
  <2>2. ASSUME losses' = 0
        PROVE  /\ ~media'.gap /\ ~media'.flag
               /\ \A j \in Slots : Chained(sess[j], Expected(j)', Taking(j)')
    <3>1. losses' # losses + 1
      BY <2>1, <2>2
    <3>2. PICK b \in BOOLEAN : media' = [media EXCEPT !.at = "lock", !.unit = [nr |-> Len(refs) + 1, idr |-> b],
                                                     !.flag = media.gap, !.gap = FALSE]
      BY <1>2, <3>1, Zenon
    <3>3. losses = 0
      BY <1>2, <2>2, <3>1, Zenon
    <3>4. ~media.gap /\ \A j \in Slots : Chained(sess[j], Expected(j), Taking(j))
      BY <1>18, <3>3, Zenon DEF ChainInv
    <3>5. media'.at = "lock" /\ media'.flag = media.gap /\ media'.gap = FALSE
      BY <1>3, <3>2, Zenon DEF MediaInv, MediaRecord
    <3>6. \A j \in Slots : Expected(j)' = Expected(j) /\ (Taking(j)' <=> Taking(j))
      BY <1>1, <1>6, <1>10, <3>5, Zenon DEF Taking
    <3>7. ASSUME NEW j \in Slots PROVE Chained(sess[j], Expected(j)', Taking(j)')
      <4>1. Chained(sess[j], Expected(j), Taking(j)')
        BY <3>4, <3>6, FewerTaken, Zenon
      <4> QED BY <3>6, <4>1, Zenon
    <3> QED BY <3>4, <3>5, <3>7, Zenon
  <2> QED BY <1>1, <2>1, <2>2, Zenon DEF ChainInv, Slots
<1> QED BY <1>17, <1>18

(* A step of the media thread that leaves the sessions alone.                  *)
LEMMA MediaKeeps ==
  ASSUME RefsInv, sess' = sess, table' = table, main' = main, media.at # "done",
         force_idr' = force_idr, media_active' = media_active,
         MediaInv', Counted', Unseen', refs' \in Seq(Int), Len(refs') = Len(refs),
         \A j \in Slots : Expected(j)' \in Nat /\ Expected(j) <= Expected(j)'
  PROVE  RefsInv'
<1>1. /\ sess \in [Slots -> Session] /\ Len(refs) <= MaxUnits
      /\ force_idr \in BOOLEAN /\ media_active \in BOOLEAN
      /\ \A j \in Slots : ThreadInv(sess[j]) /\ Sorted(sess[j], Expected(j))
  BY Zenon DEF RefsInv
<1>2. ASSUME NEW j \in Slots PROVE Sorted(sess[j], Expected(j)')
  <2>1. Expected(j) \in Nat
    BY ExpectedIs, Zenon
  <2> QED BY <1>1, <2>1, Later, Zenon
<1>3. MainInv' /\ TableInv'
  BY MediaFrame
<1> QED BY <1>1, <1>2, <1>3, Zenon DEF RefsInv, Slots

LEMMA MediaChains ==
  ASSUME ChainInv, sess' = sess, table' = table, losses' \in {losses, losses + 1},
         losses' = losses => /\ media'.gap = media.gap /\ (media'.flag => media.flag)
                             /\ \A j \in Slots : Expected(j)' = Expected(j) \/ ~Taking(j)
  PROVE  ChainInv'
<1>1. losses \in Nat /\ losses' \in Nat
  <2>1. losses \in Nat
    BY Zenon DEF ChainInv
  <2> QED BY <2>1
<1>2. \A j \in Slots : Taking(j)' <=> Taking(j)
  BY Zenon DEF Taking
<1>3. ASSUME losses' = 0
      PROVE  /\ ~media'.gap /\ ~media'.flag
             /\ \A j \in Slots : Chained(sess[j], Expected(j)', Taking(j)')
  <2>1. losses' = losses /\ losses = 0
    BY <1>1, <1>3
  <2>2. /\ ~media.gap /\ ~media.flag
        /\ \A j \in Slots : Chained(sess[j], Expected(j), Taking(j))
    BY <2>1, Zenon DEF ChainInv
  <2>3. ASSUME NEW j \in Slots PROVE Chained(sess[j], Expected(j)', Taking(j)')
    <3>1. Chained(sess[j], Expected(j), Taking(j)')
      BY <1>2, <2>2, FewerTaken, Zenon
    <3>2. CASE Expected(j)' = Expected(j)
      BY <3>1, <3>2, Zenon
    <3>3. CASE ~Taking(j)
      BY <1>2, <3>1, <3>3, NotTaken, Zenon
    <3> QED BY <2>1, <3>2, <3>3, Zenon
  <2> QED BY <2>1, <2>2, <2>3, Zenon
<1> QED BY <1>1, <1>3, Zenon DEF ChainInv, Slots

LEMMA MediaLockKeeps ==
  ASSUME RefsInv, MediaLock
  PROVE  RefsInv' /\ (ChainInv => ChainInv')
<1>1. /\ media.at = "lock" /\ slock = "free" /\ slock' = "media"
      /\ media' = [media EXCEPT !.at = "slot", !.slot = 1, !.frame = FALSE]
      /\ table' = table /\ sess' = sess /\ main' = main /\ refs' = refs /\ losses' = losses
      /\ force_idr' = force_idr /\ media_active' = media_active
  BY Zenon DEF MediaLock
<1>2. /\ MediaInv /\ Counted /\ refs \in Seq(Int) /\ Len(refs) \in Nat
      /\ \A j \in Slots : Sorted(sess[j], Expected(j))
  BY DEF RefsInv
<1>3. media \in MediaRecord /\ ~media.frame /\ media.unit.nr = Len(refs) /\ media.unit.nr \in 1..MaxUnits
  BY <1>1, <1>2 DEF MediaInv, MediaRecord, Busy
<1>4. 1 \in 0..MaxSlots + 1
  BY StreamAssumption
<1>5. media' \in MediaRecord
  BY <1>1, <1>3, <1>4, Zenon DEF MediaRecord
<1>6. /\ media'.at = "slot" /\ media'.slot = 1 /\ media'.frame = FALSE
      /\ media'.unit = media.unit /\ media'.flag = media.flag /\ media'.gap = media.gap
  BY <1>1, <1>3, Zenon DEF MediaRecord
<1>7. Busy'
  BY <1>6 DEF Busy
<1>8. MediaInv'
  BY <1>1, <1>3, <1>5, <1>6, <1>7 DEF MediaInv, MediaRecord
<1>9. \A j \in Slots : Expected(j) = media.unit.nr /\ Expected(j)' = media.unit.nr
  <2>1. \A j \in Slots : 1 <= j
    BY DEF Slots
  <2> QED BY <1>1, <1>6, <1>7, <2>1, Zenon DEF Expected
<1>10. Counted'
  BY <1>1, <1>2, <1>3, <1>6, Zenon DEF Counted, Where, Units, Slots
<1>11. Unseen'
  <2>1. ASSUME NEW j \in Slots PROVE ~Holds(sess[j], media.unit.nr)
    <3>1. Sorted(sess[j], media.unit.nr) /\ media.unit.nr \in Nat
      BY <1>2, <1>3, <1>9
    <3>2. Holds(sess[j], media.unit.nr) => media.unit.nr < media.unit.nr
      BY <3>1, HeldBefore, Zenon
    <3> QED BY <3>1, <3>2
  <2> QED BY <1>1, <1>6, <2>1, Zenon DEF Unseen, Where, Slots
<1>12. RefsInv'
  <2>1. media.unit.nr \in Nat /\ media.unit.nr <= media.unit.nr
    BY <1>3
  <2>2. \A j \in Slots : Expected(j)' \in Nat /\ Expected(j) <= Expected(j)'
    BY <1>9, <2>1, Zenon
  <2>3. refs' \in Seq(Int) /\ Len(refs') = Len(refs) /\ media.at # "done"
    BY <1>1, <1>2
  <2> QED BY <1>1, <1>8, <1>10, <1>11, <2>2, <2>3, MediaKeeps
<1>13. ChainInv => ChainInv'
  <2>1. losses' \in {losses, losses + 1} /\ \A j \in Slots : Expected(j)' = Expected(j)
    BY <1>1, <1>9
  <2> QED BY <1>1, <1>6, <2>1, MediaChains
<1> QED BY <1>12, <1>13

LEMMA MediaStopKeeps ==
  ASSUME RefsInv, MediaStop
  PROVE  RefsInv' /\ (ChainInv => ChainInv')
<1>1. /\ media.at = "poll" /\ main.at = "join_media" /\ slock' = slock
      /\ media' = [media EXCEPT !.at = "done"]
      /\ table' = table /\ sess' = sess /\ main' = main /\ refs' = refs /\ losses' = losses
      /\ force_idr' = force_idr /\ media_active' = media_active
  BY Zenon DEF MediaStop
<1>2. MediaInv /\ Counted /\ refs \in Seq(Int) /\ Len(refs) \in Nat
  BY DEF RefsInv
<1>3. media \in MediaRecord /\ ~media.frame /\ slock = "free" /\ ~Busy
  BY <1>1, <1>2 DEF MediaInv, MediaRecord, Busy
<1>4. media' \in MediaRecord
  BY <1>1, <1>3, Zenon DEF MediaRecord
<1>5. /\ media'.at = "done" /\ media'.slot = media.slot /\ media'.frame = media.frame
      /\ media'.unit = media.unit /\ media'.flag = media.flag /\ media'.gap = media.gap
  BY <1>1, <1>3, Zenon DEF MediaRecord
<1>6. ~Busy'
  BY <1>5 DEF Busy
<1>7. MediaInv'
  BY <1>1, <1>3, <1>4, <1>5, <1>6 DEF MediaInv, MediaRecord
<1>8. \A j \in Slots : Expected(j) = Len(refs) + 1 /\ Expected(j)' = Len(refs) + 1
  BY <1>1, <1>3, <1>5, <1>6 DEF Expected
<1>9. Counted'
  BY <1>1, <1>2, <1>5, Zenon DEF Counted, Where, Units, Slots
<1>10. Unseen'
  BY <1>6, Zenon DEF Unseen
<1>11. RefsInv'
  <2>1. Len(refs) + 1 \in Nat /\ Len(refs) + 1 <= Len(refs) + 1
    BY <1>2
  <2>2. \A j \in Slots : Expected(j)' \in Nat /\ Expected(j) <= Expected(j)'
    BY <1>8, <2>1, Zenon
  <2>3. refs' \in Seq(Int) /\ Len(refs') = Len(refs) /\ media.at # "done"
    BY <1>1, <1>2
  <2> QED BY <1>1, <1>7, <1>9, <1>10, <2>2, <2>3, MediaKeeps
<1>12. ChainInv => ChainInv'
  <2>1. losses' \in {losses, losses + 1} /\ \A j \in Slots : Expected(j)' = Expected(j)
    BY <1>1, <1>8
  <2> QED BY <1>1, <1>5, <2>1, MediaChains
<1> QED BY <1>11, <1>12

LEMMA MediaSlotKeeps ==
  ASSUME CountingLaws, RefsInv, MediaSlot
  PROVE  RefsInv' /\ (ChainInv => ChainInv')
<1> DEFINE m == media.slot
           u == media.unit.nr
<1>1. /\ media.at = "slot" /\ m \in Slots /\ slock' = slock
      /\ table' = table /\ sess' = sess /\ main' = main
      /\ force_idr' = force_idr /\ media_active' = media_active
  BY Zenon DEF MediaSlot
<1>2. /\ MediaInv /\ Counted /\ Unseen /\ refs \in Seq(Int) /\ Len(refs) \in Nat
      /\ m \in Nat /\ m # 0 /\ m <= MaxSlots
  BY <1>1, StreamAssumption DEF RefsInv, Slots
<1>3. /\ media \in MediaRecord /\ slock = "media" /\ Busy /\ u = Len(refs) /\ u \in 1..MaxUnits
      /\ \A j \in Slots : Expected(j) = IF m <= j THEN u ELSE Len(refs) + 1
  BY <1>1, <1>2 DEF MediaInv, MediaRecord, Busy, Expected
<1>4. CASE /\ ~table[m] \/ sess[m].finished
           /\ media' = [media EXCEPT !.slot = m + 1] /\ refs' = refs /\ losses' = losses
  <2>1. m + 1 \in 0..MaxSlots + 1
    BY <1>2, StreamAssumption
  <2>2. media' \in MediaRecord
    BY <1>3, <1>4, <2>1, Zenon DEF MediaRecord
  <2>3. /\ media'.at = "slot" /\ media'.slot = m + 1 /\ media'.frame = media.frame
        /\ media'.unit = media.unit /\ media'.flag = media.flag /\ media'.gap = media.gap
    BY <1>1, <1>3, <1>4, Zenon DEF MediaRecord
  <2>4. Busy'
    BY <2>3 DEF Busy
  <2>5. MediaInv'
    BY <1>1, <1>2, <1>3, <1>4, <2>2, <2>3, <2>4 DEF MediaInv, MediaRecord
  <2>6. \A j \in Slots : Expected(j)' = IF m + 1 <= j THEN u ELSE Len(refs) + 1
    BY <1>4, <2>3, <2>4 DEF Expected
  <2>7. \A j \in Slots : /\ Expected(j)' \in Nat /\ Expected(j) <= Expected(j)'
                         /\ j # m => Expected(j)' = Expected(j)
    BY <1>2, <1>3, <2>6 DEF Slots
  <2>8. Counted'
    BY <1>1, <1>2, <1>4, <2>3, Zenon DEF Counted, Where, Units, Slots
  <2>9. Unseen'
    BY <1>1, <1>2, <1>3, <1>4, <2>3, Zenon DEF Unseen, Where, Slots
  <2>10. RefsInv'
    BY <1>1, <1>2, <1>4, <2>5, <2>7, <2>8, <2>9, MediaKeeps
  <2>11. ~Taking(m)
    BY <1>4, Zenon DEF Taking
  <2>12. losses' \in {losses, losses + 1} /\ \A j \in Slots : Expected(j)' = Expected(j) \/ ~Taking(j)
    BY <1>4, <2>7, <2>11, Zenon
  <2>13. ChainInv => ChainInv'
    BY <1>1, <1>4, <2>3, <2>12, MediaChains
  <2> QED BY <2>10, <2>13
<1>5. CASE /\ table[m] /\ losses' = losses
           /\ media' = [media EXCEPT !.frame = TRUE, !.at = IF media.flag THEN "resync" ELSE "push"]
           /\ refs' = IF media.frame THEN refs ELSE [refs EXCEPT ![u] = 1]
  <2>1. PICK x \in {"resync", "push"} : x = IF media.flag THEN "resync" ELSE "push"
    OBVIOUS
  <2>2. media' = [media EXCEPT !.frame = TRUE, !.at = x]
    BY <1>5, <2>1, Zenon
  <2>3. media' \in MediaRecord
    BY <1>3, <2>2, Zenon DEF MediaRecord
  <2>4. /\ media'.at = x /\ media'.slot = m /\ media'.frame = TRUE
        /\ media'.unit = media.unit /\ media'.flag = media.flag /\ media'.gap = media.gap
    BY <1>3, <2>2, Zenon DEF MediaRecord
  <2>5. Busy'
    BY <2>4 DEF Busy
  <2>6. u \in DOMAIN refs /\ DOMAIN refs = 1..Len(refs)
    BY <1>2, <1>3
  <2>7. /\ refs' \in Seq(Int) /\ Len(refs') = Len(refs) /\ DOMAIN refs' = DOMAIN refs
        /\ \A n \in DOMAIN refs : refs'[n] = IF n = u /\ ~media.frame THEN 1 ELSE refs[n]
    BY <1>2, <1>5, <2>6
  <2>8. MediaInv'
    BY <1>1, <1>2, <1>3, <1>5, <2>3, <2>4, <2>5, <2>7 DEF MediaInv, MediaRecord
  <2>9. \A j \in Slots : Expected(j)' = Expected(j)
    BY <1>3, <2>1, <2>4, <2>5, <2>7 DEF Expected
  <2>10. Counted'
    <3>1. \A n : Where(n)' = Where(n)
      BY <1>1, Zenon DEF Where, Slots
    <3>2. SUFFICES ASSUME NEW n \in DOMAIN refs
                   PROVE  refs'[n] = Cardinality(Where(n)) + IF u = n THEN 1 ELSE 0
      BY <2>4, <2>7, <3>1, Zenon DEF Counted, Units
    <3>3. refs[n] = Cardinality(Where(n)) + IF media.frame /\ u = n THEN 1 ELSE 0
      BY <1>2, Zenon DEF Counted, Units
    <3>4. CASE media.frame \/ n # u
      BY <2>7, <3>3, <3>4
    <3>5. CASE ~media.frame /\ n = u
      <4>1. Where(n) = {}
        BY <1>2, <1>3, <3>5, Zenon DEF Unseen
      <4>2. Cardinality(Where(n)) = 0
        BY <4>1, Zenon DEF CountingLaws
      <4> QED BY <2>7, <3>5, <4>2
    <3> QED BY <3>4, <3>5
  <2>11. Unseen'
    BY <2>4, Zenon DEF Unseen
  <2>12. RefsInv'
    <3>1. \A j \in Slots : Expected(j)' \in Nat /\ Expected(j) <= Expected(j)'
      BY <1>2, <1>3, <2>9
    <3> QED BY <1>1, <2>7, <2>8, <2>10, <2>11, <3>1, MediaKeeps
  <2>13. ChainInv => ChainInv'
    <3>1. losses' \in {losses, losses + 1}
      BY <1>5
    <3> QED BY <1>1, <2>4, <2>9, <3>1, MediaChains
  <2> QED BY <2>12, <2>13
<1>6. CASE /\ losses' = losses + 1 /\ media' = [media EXCEPT !.slot = MaxSlots + 1]
           /\ refs' = refs /\ ~media.frame
  <2>1. MaxSlots + 1 \in 0..MaxSlots + 1
    BY StreamAssumption
  <2>2. media' \in MediaRecord
    BY <1>3, <1>6, <2>1, Zenon DEF MediaRecord
  <2>3. /\ media'.at = "slot" /\ media'.slot = MaxSlots + 1 /\ media'.frame = media.frame
        /\ media'.unit = media.unit /\ media'.flag = media.flag /\ media'.gap = media.gap
    BY <1>1, <1>3, <1>6, Zenon DEF MediaRecord
  <2>4. Busy'
    BY <2>3 DEF Busy
  <2>5. MediaInv'
    BY <1>1, <1>2, <1>3, <1>6, <2>2, <2>3, <2>4, StreamAssumption DEF MediaInv, MediaRecord
  <2>6. \A j \in Slots : Expected(j)' = Len(refs) + 1
    BY <1>6, <2>3, <2>4, StreamAssumption DEF Expected, Slots
  <2>7. \A j \in Slots : Expected(j)' \in Nat /\ Expected(j) <= Expected(j)'
    BY <1>2, <1>3, <2>6
  <2>8. Counted'
    BY <1>1, <1>2, <1>6, <2>3, Zenon DEF Counted, Where, Units, Slots
  <2>9. Unseen'
    BY <1>1, <1>2, <1>3, <1>6, <2>3, Zenon DEF Unseen, Where, Slots
  <2>10. RefsInv'
    BY <1>1, <1>2, <1>6, <2>5, <2>7, <2>8, <2>9, MediaKeeps
  <2>11. ChainInv => losses' # losses
    BY <1>6 DEF ChainInv
  <2>12. losses' \in {losses, losses + 1}
    BY <1>6
  <2>13. ChainInv => ChainInv'
    BY <1>1, <2>11, <2>12, MediaChains
  <2> QED BY <2>10, <2>13
<1> QED BY <1>4, <1>5, <1>6, Zenon DEF MediaSlot

LEMMA MediaUnlockKeeps ==
  ASSUME CountingLaws, RefsInv, MediaUnlock
  PROVE  RefsInv' /\ (ChainInv => ChainInv')
<1>1. /\ media.at = "slot" /\ media.slot \notin Slots /\ slock' = "free"
      /\ refs' = IF media.frame THEN Unref(<<media.unit>>) ELSE refs
      /\ media' = [media EXCEPT !.at = "poll", !.slot = 0, !.unit = NoUnit,
                                !.flag = FALSE, !.frame = FALSE]
      /\ table' = table /\ sess' = sess /\ main' = main /\ losses' = losses
      /\ force_idr' = force_idr /\ media_active' = media_active
  BY Zenon DEF MediaUnlock
<1>2. MediaInv /\ Counted /\ Unseen /\ refs \in Seq(Int) /\ Len(refs) \in Nat
  BY DEF RefsInv
<1>3. media \in MediaRecord /\ Busy /\ media.slot # 0 /\ media.unit \in Unit
  BY <1>1, <1>2 DEF MediaInv, MediaRecord, Busy
<1>4. NoUnit \in Unit /\ 0 \in 0..MaxSlots + 1
  BY StreamAssumption DEF NoUnit, Unit
<1>5. media' \in MediaRecord
  BY <1>1, <1>3, <1>4, Zenon DEF MediaRecord
<1>6. /\ media'.at = "poll" /\ media'.slot = 0 /\ media'.frame = FALSE
      /\ media'.unit = NoUnit /\ media'.flag = FALSE /\ media'.gap = media.gap
  BY <1>1, <1>3, Zenon DEF MediaRecord
<1>7. ~Busy'
  BY <1>6 DEF Busy
<1>8. \A j \in Slots : ~(media.slot <= j)
  <2>1. media.slot \in 0..MaxSlots + 1
    BY <1>3, Zenon DEF MediaRecord
  <2> QED BY <1>1, <1>3, <2>1, StreamAssumption DEF Slots
<1> DEFINE C(n) == Cardinality({k \in DOMAIN <<media.unit>> : <<media.unit>>[k].nr = n})
<1>9. \A n : C(n) = IF media.unit.nr = n THEN 1 ELSE 0
  <2>1. <<media.unit>> \in Seq(Unit) /\ DOMAIN <<media.unit>> = {1} /\ <<media.unit>>[1] = media.unit
    BY <1>3
  <2>2. \A j, k \in DOMAIN <<media.unit>> : j < k => <<media.unit>>[j].nr < <<media.unit>>[k].nr
    BY <2>1
  <2>3. ASSUME NEW n PROVE C(n) = IF \E k \in DOMAIN <<media.unit>> : <<media.unit>>[k].nr = n
                                  THEN 1 ELSE 0
    BY <2>1, <2>2, CountOnce, Zenon
  <2>4. \A n : (\E k \in DOMAIN <<media.unit>> : <<media.unit>>[k].nr = n) <=> media.unit.nr = n
    BY <2>1, Zenon
  <2> HIDE DEF C
  <2> QED BY <2>3, <2>4, Zenon
<1>10. \A n : C(n) \in Int
  <2>1. 0 \in Int /\ 1 \in Int
    OBVIOUS
  <2> QED BY <1>9, <2>1, Zenon
<1>11. /\ refs' \in Seq(Int) /\ Len(refs') = Len(refs) /\ DOMAIN refs' = DOMAIN refs
       /\ \A n \in DOMAIN refs : refs'[n] = IF media.frame THEN refs[n] - C(n) ELSE refs[n]
  <2>1. CASE media.frame
    BY <1>1, <1>2, <1>10, <2>1, UnrefIs, Zenon
  <2>2. CASE ~media.frame
    BY <1>1, <1>2, <2>2, Zenon
  <2> QED BY <2>1, <2>2, Zenon
<1>12. MediaInv'
  BY <1>1, <1>5, <1>6, <1>7 DEF MediaInv, MediaRecord
<1>13. \A j \in Slots : Expected(j) = Len(refs) + 1 /\ Expected(j)' = Len(refs) + 1
  BY <1>1, <1>6, <1>7, <1>8, <1>11 DEF Expected
<1>14. Counted'
  <2>1. \A n : Where(n)' = Where(n)
    BY <1>1, Zenon DEF Where, Slots
  <2>2. SUFFICES ASSUME NEW n \in DOMAIN refs PROVE refs'[n] = Cardinality(Where(n)) + 0
    BY <1>6, <1>11, <2>1, Zenon DEF Counted, Units
  <2>3. refs[n] = Cardinality(Where(n)) + IF media.frame /\ media.unit.nr = n THEN 1 ELSE 0
    BY <1>2, Zenon DEF Counted, Units
  <2>4. Cardinality(Where(n)) \in Nat
    BY WhereCounts
  <2>5. refs'[n] = IF media.frame THEN refs[n] - C(n) ELSE refs[n]
    BY <1>11, Zenon
  <2>6. C(n) = IF media.unit.nr = n THEN 1 ELSE 0
    BY <1>9, Zenon
  <2> HIDE DEF C
  <2> QED BY <2>3, <2>4, <2>5, <2>6
<1>15. Unseen'
  BY <1>7, Zenon DEF Unseen
<1>16. RefsInv'
  <2>1. Len(refs) + 1 \in Nat /\ Len(refs) + 1 <= Len(refs) + 1
    BY <1>2
  <2>2. \A j \in Slots : Expected(j)' \in Nat /\ Expected(j) <= Expected(j)'
    BY <1>13, <2>1, Zenon
  <2> QED BY <1>1, <1>11, <1>12, <1>14, <1>15, <2>2, MediaKeeps
<1>17. ChainInv => ChainInv'
  <2>1. losses' \in {losses, losses + 1} /\ \A j \in Slots : Expected(j)' = Expected(j)
    BY <1>1, <1>13
  <2> QED BY <1>1, <1>6, <2>1, MediaChains
<1> QED BY <1>16, <1>17

(* lp_session_resync on a session in the table.                                *)
LEMMA ResyncKeeps ==
  ASSUME CountingLaws, RefsInv, Resync
  PROVE  RefsInv' /\ (ChainInv => ChainInv')
<1>1. PICK i, s, t : i = media.slot /\ s = sess[i] /\ t = [s EXCEPT !.resync = TRUE]
  BY Zenon
<1>2. /\ media.at = "resync" /\ sess' = [sess EXCEPT ![i] = t] /\ media' = [media EXCEPT !.at = "push"]
      /\ table' = table /\ slock' = slock /\ main' = main /\ refs' = refs /\ losses' = losses
      /\ force_idr' = force_idr /\ media_active' = media_active
  BY <1>1, Zenon DEF Resync, Set
<1>3. /\ MediaInv /\ MainInv /\ TableInv /\ sess \in [Slots -> Session] /\ refs \in Seq(Int)
      /\ Len(refs) <= MaxUnits /\ Counted /\ force_idr \in BOOLEAN /\ media_active \in BOOLEAN
      /\ \A j \in Slots : ThreadInv(sess[j]) /\ Sorted(sess[j], Expected(j))
  BY Zenon DEF RefsInv
<1>4. media \in MediaRecord /\ i \in Slots /\ table[i] /\ media.frame /\ slock = "media" /\ Busy
  BY <1>1, <1>2, <1>3 DEF MediaInv, MediaRecord, Busy
<1>5. media' \in MediaRecord
  BY <1>2, <1>4, Zenon DEF MediaRecord
<1>6. /\ media'.at = "push" /\ media'.slot = media.slot /\ media'.frame = media.frame
      /\ media'.unit = media.unit /\ media'.flag = media.flag /\ media'.gap = media.gap
  BY <1>2, <1>4, Zenon DEF MediaRecord
<1>7. Busy'
  BY <1>6 DEF Busy
<1>8. Good(s, Expected(i)) /\ Expected(i) \in Nat /\ s \in Session
  BY <1>1, <1>3, <1>4, GoodNow, ExpectedIs, Zenon
<1>9. Follows(s, t, Expected(i), <<>>)
  <2>1. t \in Session
    BY <1>1, <1>8, Zenon DEF Session
  <2>2. /\ t.at = s.at /\ t.queue = s.queue /\ t.batch = s.batch /\ t.last = s.last
        /\ t.waiting = s.waiting /\ t.mem = s.mem /\ t.stop = s.stop
        /\ t.finished = s.finished /\ t.state = s.state /\ t.connected = s.connected
        /\ t.resync = TRUE
    BY <1>1, <1>8, Zenon DEF Session
  <2>3. ThreadInv(s)
    BY <1>8, Zenon DEF Good
  <2>4. ThreadInv(t)
    BY <2>2, <2>3, Zenon DEF ThreadInv
  <2>5. ~GoesOn(t)
    BY <2>2, Zenon DEF GoesOn
  <2> QED BY <1>8, <2>1, <2>2, <2>4, <2>5, LeavesFrames, Zenon
<1>10. sess'[i] = t /\ \A j \in Slots : j # i => sess'[j] = sess[j]
  BY <1>2, <1>3, <1>4, Zenon
<1>11. /\ Counted' /\ Len(refs') = Len(refs)
  <2>1. GivesBack(sess[i], t, <<>>) /\ refs' = Unref(<<>>)
    BY <1>1, <1>2, <1>3, <1>9, UnrefNone, Zenon DEF Follows
  <2> QED BY <1>2, <1>3, <1>4, <1>6, <2>1, Recount, Zenon
<1>12. t \in Session /\ ThreadInv(t) /\ Sorted(t, Expected(i)) /\ t.mem = s.mem
  BY <1>9, Zenon DEF Follows, Good
<1>13. sess' \in [Slots -> Session]
  BY <1>2, <1>3, <1>12, Zenon
<1>14. \A j \in Slots : Expected(j)' = Expected(j)
  BY <1>2, <1>4, <1>6, <1>7 DEF Expected
<1>15. \A j \in Slots : ThreadInv(sess'[j]) /\ Sorted(sess'[j], Expected(j)')
  BY <1>3, <1>10, <1>12, <1>14, Zenon
<1>16. MediaInv'
  BY <1>1, <1>2, <1>3, <1>4, <1>5, <1>6, <1>7 DEF MediaInv, MediaRecord, Busy
<1>17. MainInv'
  <2>1. main.at # "quit"
    BY <1>2, <1>3 DEF MainInv
  <2> QED BY <1>2, <1>3, <2>1, Zenon DEF MainInv, Slots
<1>18. TableInv'
  <2>1. \A j \in Slots : sess'[j].mem = sess[j].mem /\ (j # i => sess'[j] = sess[j])
    BY <1>1, <1>10, <1>12, Zenon
  <2>2. main.at \in {"insert", "destroy"} => main.slot # i
    BY <1>3, <1>4 DEF MainInv
  <2>3. main.at = "insert" => main.slot # i
    BY <2>2
  <2> QED BY <1>2, <1>3, <1>4, <2>1, <2>3, Zenon DEF TableInv, InHand, Slots
<1>19. Unseen'
  BY <1>4, <1>6, Zenon DEF Unseen
<1>20. RefsInv'
  BY <1>2, <1>3, <1>11, <1>13, <1>15, <1>16, <1>17, <1>18, <1>19, Zenon DEF RefsInv, Slots
<1>21. ASSUME ChainInv, losses = 0, NEW j \in Slots PROVE Chained(sess'[j], Expected(j), Taking(j)')
  <2>1. Chained(sess[j], Expected(j), Taking(j))
    BY <1>21, Zenon DEF ChainInv
  <2>2. Taking(j) \in BOOLEAN /\ (Taking(j) => ~sess[j].stop)
    BY Zenon DEF Taking
  <2>3. Chained(sess'[j], Expected(j), Taking(j))
    BY <1>1, <1>9, <1>10, <2>1, <2>2, Zenon DEF Follows
  <2>4. Taking(j)' => Taking(j)
    BY <1>1, <1>2, <1>9, <1>10, Zenon DEF Taking, Follows
  <2> QED BY <2>3, <2>4, FewerTaken, Zenon
<1>22. ChainInv => ChainInv'
  BY <1>2, <1>6, <1>14, <1>21, Zenon DEF ChainInv, Slots
<1> QED BY <1>20, <1>22

\* The frames a full mailbox loses, and what a push of u makes of s.
Displaced(s, n) == FullMailbox(s) /\ \E k \in DOMAIN s.queue : s.queue[k].nr = n
Times(fs, n) == Cardinality({k \in DOMAIN fs : fs[k].nr = n})
Flushes(s, fs) == \A n : Times(fs, n) = IF Displaced(s, n) THEN 1 ELSE 0
Gains(s, t, u) ==
    /\ ~Holds(s, u.nr)
    /\ \A n : Holds(t, n) <=> n = u.nr \/ (Holds(s, n) /\ ~Displaced(s, n))

LEMMA FlushedIs ==
  ASSUME CountingLaws, NEW s \in Session, NEW e, Sorted(s, e)
  PROVE  Flushes(s, IF FullMailbox(s) THEN s.queue ELSE <<>>)
<1>1. CASE FullMailbox(s)
  <2>1. s.queue \in Seq(Unit)
    BY Zenon DEF Session
  <2>2. ASSUME NEW n PROVE Times(s.queue, n) = IF Displaced(s, n) THEN 1 ELSE 0
    <3>1. Times(s.queue, n) = IF \E k \in DOMAIN s.queue : s.queue[k].nr = n THEN 1 ELSE 0
      BY <2>1, CountOnce, Zenon DEF Sorted, Times
    <3>2. Displaced(s, n) <=> \E k \in DOMAIN s.queue : s.queue[k].nr = n
      BY <1>1, Zenon DEF Displaced
    <3> QED BY <3>1, <3>2, Zenon
  <2> QED BY <1>1, <2>2, Zenon DEF Flushes
<1>2. CASE ~FullMailbox(s)
  <2>1. ASSUME NEW n PROVE Times(<<>>, n) = 0 /\ ~Displaced(s, n)
    <3>1. {k \in DOMAIN <<>> : <<>>[k].nr = n} = {}
      BY EmptyIs, Zenon
    <3>2. Times(<<>>, n) = 0
      BY <3>1, Zenon DEF CountingLaws, Times
    <3> QED BY <1>2, <3>2, Zenon DEF Displaced
  <2> QED BY <1>2, <2>1, Zenon DEF Flushes
<1> QED BY <1>1, <1>2

(* The counts after a push.                                                    *)
LEMMA PushRefsIs ==
  ASSUME refs \in Seq(Int), NEW fs, \A n : Times(fs, n) \in Int, media.unit.nr \in DOMAIN refs
  PROVE  /\ PushRefs(fs) \in Seq(Int) /\ Len(PushRefs(fs)) = Len(refs)
         /\ DOMAIN PushRefs(fs) = DOMAIN refs
         /\ \A n \in DOMAIN refs :
              PushRefs(fs)[n] = refs[n] - Times(fs, n) + IF n = media.unit.nr THEN 1 ELSE 0
<1>1. PICK back : back = Unref(fs)
  BY Zenon
<1>2. /\ back \in Seq(Int) /\ Len(back) = Len(refs) /\ DOMAIN back = DOMAIN refs
      /\ \A n \in DOMAIN refs : back[n] = refs[n] - Times(fs, n)
  BY <1>1, UnrefIs, Zenon DEF Times
<1>3. PICK m : m = media.unit.nr
  BY Zenon
<1>4. PICK new : new = [back EXCEPT ![m] = back[m] + 1]
  BY Zenon
<1>5. PushRefs(fs) = new
  BY <1>1, <1>3, <1>4, Zenon DEF PushRefs
<1>6. m \in DOMAIN back
  BY <1>2, <1>3, Zenon
<1>7. /\ new \in Seq(Int) /\ Len(new) = Len(back) /\ DOMAIN new = DOMAIN back
      /\ \A n \in DOMAIN back : new[n] = IF n = m THEN back[n] + 1 ELSE back[n]
  BY <1>2, <1>4, <1>6
<1>8. ASSUME NEW n \in DOMAIN refs
      PROVE  new[n] = refs[n] - Times(fs, n) + IF n = m THEN 1 ELSE 0
  <2>1. refs[n] \in Int /\ Times(fs, n) \in Int
    OBVIOUS
  <2>2. new[n] = IF n = m THEN back[n] + 1 ELSE back[n]
    BY <1>2, <1>7, Zenon
  <2>3. back[n] = refs[n] - Times(fs, n)
    BY <1>2, Zenon
  <2> QED BY <2>1, <2>2, <2>3
<1> QED BY <1>2, <1>3, <1>5, <1>7, <1>8, Zenon

\* Who holds a frame after a push.
WhereShifts(fs, u) ==
    \A n : Cardinality(Where(n)')
             = Cardinality(Where(n)) - Times(fs, n) + IF n = u.nr THEN 1 ELSE 0

LEMMA WherePushed ==
  ASSUME CountingLaws, NEW i \in Slots, NEW t, NEW u, NEW fs, sess \in [Slots -> Session],
         sess' = [sess EXCEPT ![i] = t], Gains(sess[i], t, u), Flushes(sess[i], fs)
  PROVE  WhereShifts(fs, u)
<1> SUFFICES ASSUME NEW n
             PROVE  Cardinality(Where(n)')
                      = Cardinality(Where(n)) - Times(fs, n) + IF n = u.nr THEN 1 ELSE 0
  BY Zenon DEF WhereShifts
<1>1. sess'[i] = t /\ \A j \in Slots : j # i => sess'[j] = sess[j]
  BY Zenon
<1>2. Where(n)' = {j \in Slots : Holds(sess'[j], n)}
  BY DEF Where, Slots
<1>3. Cardinality(Where(n)) \in Nat /\ Where(n) \in SUBSET Slots
  BY WhereCounts
<1>4. Times(fs, n) = IF Displaced(sess[i], n) THEN 1 ELSE 0
  BY Zenon DEF Flushes
<1>5. PICK W, V : W = Where(n) /\ V = Where(n)'
  BY Zenon
<1>6. CASE n = u.nr
  <2>1. i \notin W /\ ~Displaced(sess[i], n)
    BY <1>5, <1>6, Zenon DEF Where, Holds, Gains, Displaced
  <2>2. V = W \cup {i}
    BY <1>1, <1>2, <1>5, <1>6, Zenon DEF Where, Gains
  <2>3. Cardinality(V) = Cardinality(W) + 1
    BY <1>3, <1>5, <2>1, <2>2, Zenon DEF CountingLaws
  <2>4. Times(fs, n) = 0
    BY <1>4, <2>1, Zenon
  <2> QED BY <1>3, <1>5, <1>6, <2>3, <2>4
<1>7. CASE n # u.nr /\ Displaced(sess[i], n)
  <2>1. i \in W
    BY <1>5, <1>7, Zenon DEF Where, Holds, Displaced
  <2>2. V = W \ {i}
    BY <1>1, <1>2, <1>5, <1>7, Zenon DEF Where, Gains
  <2>3. Cardinality(V) = Cardinality(W) - 1
    BY <1>3, <1>5, <2>1, <2>2, Zenon DEF CountingLaws
  <2>4. Times(fs, n) = 1
    BY <1>4, <1>7, Zenon
  <2> QED BY <1>3, <1>5, <1>7, <2>3, <2>4
<1>8. CASE n # u.nr /\ ~Displaced(sess[i], n)
  <2>1. V = W
    BY <1>1, <1>2, <1>5, <1>8, Zenon DEF Where, Gains
  <2>2. Times(fs, n) = 0
    BY <1>4, <1>8, Zenon
  <2> QED BY <1>3, <1>5, <1>8, <2>1, <2>2
<1> QED BY <1>6, <1>7, <1>8, Zenon

LEMMA PushCounts ==
  ASSUME CountingLaws, NEW i \in Slots, NEW t, NEW fs, sess \in [Slots -> Session],
         sess' = [sess EXCEPT ![i] = t], refs \in Seq(Int), refs' = PushRefs(fs), Counted,
         Gains(sess[i], t, media.unit), Flushes(sess[i], fs), media.unit.nr \in DOMAIN refs,
         media.frame, media'.frame, media'.unit = media.unit
  PROVE  Counted' /\ refs' \in Seq(Int) /\ Len(refs') = Len(refs)
<1>0. WhereShifts(fs, media.unit)
  BY WherePushed, Zenon
<1>1. \A n : Times(fs, n) \in Int
  <2>1. 0 \in Int /\ 1 \in Int
    OBVIOUS
  <2> QED BY <2>1, Zenon DEF Flushes
<1>2. /\ refs' \in Seq(Int) /\ Len(refs') = Len(refs) /\ DOMAIN refs' = DOMAIN refs
      /\ \A n \in DOMAIN refs :
            refs'[n] = refs[n] - Times(fs, n) + IF n = media.unit.nr THEN 1 ELSE 0
  BY <1>1, PushRefsIs, Zenon
<1>3. ASSUME NEW n \in DOMAIN refs
      PROVE  refs'[n] = Cardinality(Where(n)') + IF media.unit.nr = n THEN 1 ELSE 0
  <2>1. refs[n] = Cardinality(Where(n)) + IF media.unit.nr = n THEN 1 ELSE 0
    BY Zenon DEF Counted, Units
  <2>2. Cardinality(Where(n)) \in Nat
    BY WhereCounts
  <2>3. refs'[n] = refs[n] - Times(fs, n) + IF n = media.unit.nr THEN 1 ELSE 0
    BY <1>2, Zenon
  <2>4. Cardinality(Where(n)')
          = Cardinality(Where(n)) - Times(fs, n) + IF n = media.unit.nr THEN 1 ELSE 0
    BY <1>0, Zenon DEF WhereShifts
  <2>5. Times(fs, n) \in Int
    BY <1>1
  <2> QED BY <2>1, <2>2, <2>3, <2>4, <2>5
<1>4. ASSUME NEW n \in DOMAIN refs'
      PROVE  refs'[n] = Cardinality(Where(n)') + IF media'.frame /\ media'.unit.nr = n THEN 1 ELSE 0
  <2>1. refs'[n] = Cardinality(Where(n)') + IF media.unit.nr = n THEN 1 ELSE 0
    BY <1>2, <1>3, Zenon
  <2> QED BY <2>1, Zenon
<1>5. Counted'
  BY <1>4, Zenon DEF Counted, Units
<1> QED BY <1>2, <1>5

\* What lp_session_push_frame makes of the session that takes the frame of u.
PushTo(s, t, u) ==
    t = [s EXCEPT !.queue = Append(Spared(s), u),
                  !.resync = ResyncAfterFlush(s)]
Pushes(s, t, u) ==
    /\ Good(t, u.nr + 1) /\ Gains(s, t, u)
    /\ t.mem = s.mem /\ t.stop = s.stop /\ t.finished = s.finished
    /\ Chained(s, u.nr, TRUE) => Chained(t, u.nr + 1, TRUE)

LEMMA PushIs ==
  ASSUME NEW s \in Session, NEW t, NEW u \in Unit, PushTo(s, t, u)
  PROVE  /\ t \in Session
         /\ t.queue = Append(Spared(s), u)
         /\ t.resync = ResyncAfterFlush(s)
         /\ t.batch = s.batch /\ t.last = s.last /\ t.waiting = s.waiting /\ t.at = s.at
         /\ t.state = s.state /\ t.connected = s.connected
         /\ t.mem = s.mem /\ t.stop = s.stop /\ t.finished = s.finished
<1>1. PICK q : q = Append(Spared(s), u)
  BY Zenon
<1>2. PICK r : r = ResyncAfterFlush(s)
  BY Zenon
<1>3. t = [s EXCEPT !.queue = q, !.resync = r]
  BY <1>1, <1>2, Zenon DEF PushTo
<1>4. s.queue \in Seq(Unit) /\ s.resync \in BOOLEAN
  BY Zenon DEF Session
<1>5. q \in Seq(Unit)
  <2>1. Spared(s) \in Seq(Unit)
    BY <1>4, EmptyIs, Zenon DEF Spared
  <2> QED BY <1>1, <2>1, AppendTo, Zenon
<1>6. r \in BOOLEAN
  BY <1>2, <1>4, Zenon DEF ResyncAfterFlush, FullMailbox
<1> HIDE <1>1, <1>2
<1>7. /\ t \in Session /\ t.queue = q /\ t.resync = r
      /\ t.batch = s.batch /\ t.last = s.last /\ t.waiting = s.waiting /\ t.at = s.at
      /\ t.state = s.state /\ t.connected = s.connected
      /\ t.mem = s.mem /\ t.stop = s.stop /\ t.finished = s.finished
  BY <1>3, <1>5, <1>6, Zenon DEF Session
<1> QED BY <1>1, <1>2, <1>7, Zenon

LEMMA PushFollows ==
  ASSUME NEW s, NEW t, NEW u \in Unit, u.nr # 0, Good(s, u.nr), PushTo(s, t, u)
  PROVE  Pushes(s, t, u)
<1>1. s \in Session /\ ThreadInv(s) /\ Sorted(s, u.nr)
  BY Zenon DEF Good
<1>2. /\ t \in Session
      /\ t.queue = Append(Spared(s), u)
      /\ t.resync = ResyncAfterFlush(s)
      /\ t.batch = s.batch /\ t.last = s.last /\ t.waiting = s.waiting /\ t.at = s.at
      /\ t.state = s.state /\ t.connected = s.connected
      /\ t.mem = s.mem /\ t.stop = s.stop /\ t.finished = s.finished
  BY <1>1, PushIs, Zenon
<1>3. ThreadInv(t)
  BY <1>1, <1>2, Zenon DEF ThreadInv
<1>4. Sorted(t, u.nr + 1) /\ Gains(s, t, u)
  BY <1>1, <1>2, PushedFrames, Zenon DEF Gains, Displaced
<1>5. Chained(s, u.nr, TRUE) => Chained(t, u.nr + 1, TRUE)
  BY <1>1, <1>2, PushedChain, Zenon
<1> QED BY <1>2, <1>3, <1>4, <1>5, Zenon DEF Pushes, Good

LEMMA PushKeeps ==
  ASSUME CountingLaws, RefsInv, Push
  PROVE  RefsInv' /\ (ChainInv => ChainInv')
<1>1. PICK i, s, u : i = media.slot /\ s = sess[i] /\ u = media.unit
  BY Zenon
<1>2. PICK fs : fs = IF FullMailbox(s) THEN s.queue ELSE <<>>
  BY Zenon
<1>3. /\ media.at = "push" /\ table' = table /\ slock' = slock /\ main' = main /\ losses' = losses
      /\ media' = [media EXCEPT !.at = "slot", !.slot = i + 1]
      /\ force_idr' = force_idr /\ media_active' = media_active
  BY <1>1, Zenon DEF Push
<1>4. \/ (s.stop \/ s.finished) /\ sess' = sess /\ refs' = refs
      \/ /\ ~s.stop /\ ~s.finished /\ refs' = PushRefs(fs)
         /\ \E t : PushTo(s, t, u) /\ sess' = [sess EXCEPT ![i] = t]
  BY <1>1, <1>2, Zenon DEF Push, Set, PushTo, Spared
<1>5. /\ MediaInv /\ MainInv /\ TableInv /\ sess \in [Slots -> Session] /\ refs \in Seq(Int)
      /\ Len(refs) <= MaxUnits /\ Counted /\ force_idr \in BOOLEAN /\ media_active \in BOOLEAN
      /\ \A j \in Slots : ThreadInv(sess[j]) /\ Sorted(sess[j], Expected(j))
  BY Zenon DEF RefsInv
<1>6. /\ media \in MediaRecord /\ i \in Slots /\ table[i] /\ media.frame /\ slock = "media" /\ Busy
      /\ u.nr = Len(refs) /\ u.nr \in 1..MaxUnits /\ u \in Unit
  BY <1>1, <1>3, <1>5 DEF MediaInv, MediaRecord, Busy
<1>7. i \in Nat /\ i # 0 /\ i + 1 \in 0..MaxSlots + 1 /\ Len(refs) \in Nat
  BY <1>5, <1>6, StreamAssumption DEF Slots
<1>8. media' \in MediaRecord
  BY <1>3, <1>6, <1>7, Zenon DEF MediaRecord
<1>9. /\ media'.at = "slot" /\ media'.slot = i + 1 /\ media'.frame = media.frame
      /\ media'.unit = media.unit /\ media'.flag = media.flag /\ media'.gap = media.gap
  BY <1>3, <1>6, Zenon DEF MediaRecord
<1>10. Busy'
  BY <1>9 DEF Busy
<1>11. Unseen'
  BY <1>6, <1>9, Zenon DEF Unseen
<1>12. ASSUME Len(refs') = Len(refs)
       PROVE  /\ MediaInv'
              /\ \A j \in Slots : /\ Expected(j) = IF i <= j THEN u.nr ELSE Len(refs) + 1
                                  /\ Expected(j)' = IF i + 1 <= j THEN u.nr ELSE Len(refs) + 1
  <2>1. MediaInv'
    BY <1>1, <1>3, <1>5, <1>6, <1>7, <1>8, <1>9, <1>10, <1>12 DEF MediaInv, MediaRecord, Busy
  <2>2. ASSUME NEW j \in Slots
        PROVE  /\ Expected(j) = IF i <= j THEN u.nr ELSE Len(refs) + 1
               /\ Expected(j)' = IF i + 1 <= j THEN u.nr ELSE Len(refs) + 1
    BY <1>1, <1>3, <1>6, <1>9, <1>10, <1>12 DEF Expected
  <2> QED BY <2>1, <2>2
<1>13. ASSUME Len(refs') = Len(refs)
       PROVE  /\ Expected(i) = u.nr /\ Expected(i)' = u.nr + 1
              /\ \A j \in Slots : /\ Expected(j)' \in Nat /\ Expected(j) <= Expected(j)'
                                  /\ j # i => Expected(j)' = Expected(j)
  BY <1>6, <1>7, <1>12, <1>13 DEF Slots
<1>14. CASE (s.stop \/ s.finished) /\ sess' = sess /\ refs' = refs
  <2>1. Len(refs') = Len(refs) /\ refs' \in Seq(Int)
    BY <1>5, <1>14, Zenon
  <2>2. Counted'
    BY <1>5, <1>9, <1>14, Zenon DEF Counted, Where, Units, Slots
  <2>3. media.at # "done"
    BY <1>3
  <2>4. RefsInv'
    BY <1>3, <1>11, <1>12, <1>13, <1>14, <2>1, <2>2, <2>3, MediaKeeps
  <2>5. ~Taking(i)
    BY <1>1, <1>14, Zenon DEF Taking
  <2>6. losses' \in {losses, losses + 1} /\ \A j \in Slots : Expected(j)' = Expected(j) \/ ~Taking(j)
    BY <1>3, <1>13, <2>1, <2>5, Zenon
  <2>7. ChainInv => ChainInv'
    BY <1>3, <1>9, <1>14, <2>6, MediaChains
  <2> QED BY <2>4, <2>7
<1>15. CASE /\ ~s.stop /\ ~s.finished /\ refs' = PushRefs(fs)
            /\ \E t : PushTo(s, t, u) /\ sess' = [sess EXCEPT ![i] = t]
  <2>1. PICK t : PushTo(s, t, u) /\ sess' = [sess EXCEPT ![i] = t]
    BY <1>15, Zenon
  <2>2. Good(s, u.nr) /\ u.nr # 0
    <3>1. Expected(i) = u.nr
      BY <1>1, <1>3, <1>6, <1>7 DEF Expected
    <3> QED BY <1>1, <1>6, <3>1, GoodNow
  <2>3. Pushes(s, t, u)
    BY <1>6, <2>1, <2>2, PushFollows, Zenon
  <2>4. /\ Good(t, u.nr + 1) /\ Gains(s, t, u)
        /\ t.mem = s.mem /\ t.stop = s.stop /\ t.finished = s.finished
    BY <2>3, Zenon DEF Pushes
  <2>5. Flushes(s, fs)
    BY <1>2, <2>2, FlushedIs, Zenon DEF Good
  <2>6. u.nr \in DOMAIN refs
    BY <1>5, <1>6
  <2>7. Counted' /\ refs' \in Seq(Int) /\ Len(refs') = Len(refs)
    <3>1. Gains(sess[i], t, media.unit) /\ Flushes(sess[i], fs) /\ media.unit.nr \in DOMAIN refs
      BY <1>1, <2>4, <2>5, <2>6, Zenon
    <3> QED BY <1>5, <1>6, <1>9, <1>15, <2>1, <3>1, PushCounts, Zenon
  <2>8. sess'[i] = t /\ \A j \in Slots : j # i => sess'[j] = sess[j]
    BY <1>5, <1>6, <2>1, Zenon
  <2>9. t \in Session /\ ThreadInv(t) /\ Sorted(t, u.nr + 1)
    BY <2>4, Zenon DEF Good
  <2>10. sess' \in [Slots -> Session]
    BY <1>5, <2>1, <2>9, Zenon
  <2>11. \A j \in Slots : ThreadInv(sess'[j]) /\ Sorted(sess'[j], Expected(j)')
    BY <1>5, <1>13, <2>7, <2>8, <2>9, Zenon
  <2>12. MainInv'
    <3>1. main.at # "quit"
      BY <1>3, <1>5 DEF MainInv
    <3> QED BY <1>3, <1>5, <3>1, Zenon DEF MainInv, Slots
  <2>13. TableInv'
    <3>1. \A j \in Slots : sess'[j].mem = sess[j].mem /\ (j # i => sess'[j] = sess[j])
      BY <1>1, <2>4, <2>8, Zenon
    <3>2. main.at \in {"insert", "destroy"} => main.slot # i
      BY <1>5, <1>6 DEF MainInv
    <3>3. main.at = "insert" => main.slot # i
      BY <3>2
    <3> QED BY <1>3, <1>5, <1>6, <3>1, <3>3, Zenon DEF TableInv, InHand, Slots
  <2>14. RefsInv'
    <3>1. Len(refs') <= MaxUnits
      BY <1>5, <2>7, Zenon
    <3> QED BY <1>3, <1>5, <1>11, <1>12, <2>7, <2>10, <2>11, <2>12, <2>13, <3>1, Zenon DEF RefsInv, Slots
  <2>15. ASSUME ChainInv, losses = 0, NEW j \in Slots PROVE Chained(sess'[j], Expected(j)', Taking(j)')
    <3>1. Chained(sess[j], Expected(j), Taking(j))
      BY <2>15, Zenon DEF ChainInv
    <3>2. CASE j # i
      <4>1. Taking(j)' => Taking(j)
        BY <1>3, <2>8, <3>2, Zenon DEF Taking
      <4>2. Chained(sess[j], Expected(j), Taking(j)')
        BY <3>1, <4>1, FewerTaken, Zenon
      <4> QED BY <1>13, <2>7, <2>8, <3>2, <4>2, Zenon
    <3>3. CASE j = i
      <4>1. Taking(i) = TRUE
        BY <1>1, <1>6, <1>15, Zenon DEF Taking
      <4>2. Chained(s, u.nr, TRUE)
        BY <1>1, <1>13, <2>7, <3>1, <3>3, <4>1, Zenon
      <4>3. Chained(t, u.nr + 1, TRUE)
        BY <2>3, <4>2, Zenon DEF Pushes
      <4>4. Taking(i)' => TRUE
        OBVIOUS
      <4>5. Chained(t, u.nr + 1, Taking(i)')
        BY <4>3, <4>4, FewerTaken, Zenon
      <4> QED BY <1>13, <2>7, <2>8, <3>3, <4>5, Zenon
    <3> QED BY <3>2, <3>3
  <2>16. ChainInv => ChainInv'
    BY <1>3, <1>9, <2>15, Zenon DEF ChainInv, Slots
  <2> QED BY <2>14, <2>16
<1> QED BY <1>4, <1>14, <1>15, Zenon

-----------------------------------------------------------------------------
(* The invariants hold *)

LEMMA InitKeeps == Init => RefsInv /\ ChainInv
<1> SUFFICES ASSUME Init PROVE RefsInv /\ ChainInv
  OBVIOUS
<1>1. /\ table = [i \in Slots |-> FALSE] /\ sess = [i \in Slots |-> NoSession] /\ slock = "free"
      /\ media = [at |-> "poll", slot |-> 0, unit |-> NoUnit, flag |-> FALSE,
                  frame |-> FALSE, gap |-> FALSE]
      /\ main = [at |-> "loop", slot |-> 0] /\ refs = <<>> /\ losses = 0
      /\ force_idr = FALSE /\ media_active = FALSE
  BY Zenon DEF Init
<1>2. /\ refs \in Seq(Int) /\ Len(refs) = 0 /\ DOMAIN refs = {} /\ 0 <= MaxUnits
      /\ 0 \in 0..MaxSlots + 1 /\ NoUnit \in Unit
  BY <1>1, StreamAssumption DEF NoUnit, Unit
<1>3. media \in MediaRecord
  BY <1>1, <1>2, Zenon DEF MediaRecord
<1>4. /\ media.at = "poll" /\ ~media.frame /\ ~media.flag /\ ~media.gap
      /\ main.at = "loop" /\ main.slot = 0
  BY <1>1, Zenon
<1>5. ~Busy
  BY <1>4 DEF Busy
<1>6. MediaInv
  BY <1>1, <1>3, <1>4, <1>5 DEF MediaInv
<1>7. MainInv
  BY <1>1, <1>2, <1>4 DEF MainInv
<1>8. ASSUME NEW i \in Slots
      PROVE  /\ Good(sess[i], Expected(i)) /\ ~table[i] /\ sess[i] = NoSession
             /\ Chained(sess[i], Expected(i), FALSE)
  <2>1. sess[i] = NoSession /\ ~table[i]
    BY <1>1, Zenon
  <2>2. Expected(i) \in Nat
    BY <1>2, <1>4, <1>5 DEF Expected
  <2>3. Good(NoSession, Expected(i)) /\ NoSession.queue = <<>> /\ NoSession.batch = <<>>
    BY <2>2, NoSessionIs
  <2>4. Chained(NoSession, Expected(i), FALSE)
    BY <2>2, <2>3, NoChain, Zenon DEF Good
  <2> QED BY <2>1, <2>3, <2>4, Zenon
<1>9. TableInv
  <2>1. main.at \notin {"insert", "destroy"} /\ main.at # "insert"
    BY <1>4
  <2>2. table \in [Slots -> BOOLEAN]
    BY <1>1, Zenon
  <2> QED BY <1>8, <2>1, <2>2, Zenon DEF TableInv, InHand
<1>10. sess \in [Slots -> Session]
  <2>1. NoSession \in Session
    BY NoSessionIs DEF Good
  <2> QED BY <1>1, <2>1, Zenon
<1>11. Counted /\ Unseen
  BY <1>2, <1>5, Zenon DEF Counted, Unseen, Units
<1>12. RefsInv
  <2>1. Len(refs) <= MaxUnits
    BY <1>2, Zenon
  <2>2. force_idr \in BOOLEAN /\ media_active \in BOOLEAN
    BY <1>1, Zenon
  <2> QED BY <1>2, <1>6, <1>7, <1>8, <1>9, <1>10, <1>11, <2>1, <2>2, Zenon DEF RefsInv, Good
<1>13. ChainInv
  <2>1. losses \in Nat
    BY <1>1
  <2>2. ASSUME NEW i \in Slots PROVE Chained(sess[i], Expected(i), Taking(i))
    <3>1. ~Taking(i)
      BY <1>8, Zenon DEF Taking
    <3> QED BY <1>8, <3>1, FewerTaken, Zenon
  <2> QED BY <1>4, <2>1, <2>2, Zenon DEF ChainInv
<1> QED BY <1>12, <1>13

LEMMA NextKeeps ==
  ASSUME CountingLaws, RefsInv, [Next]_vars
  PROVE  RefsInv' /\ (ChainInv => ChainInv')
<1>1. CASE Media
  BY <1>1, PopKeeps, MediaLockKeeps, MediaSlotKeeps, ResyncKeeps, PushKeeps, MediaUnlockKeeps,
     MediaStopKeeps, Zenon DEF Media
<1>2. CASE Main
  BY <1>2, InsertKeeps, ReapDestroyKeeps, JoinMediaKeeps, QuitDestroyKeeps, ReapRemoveKeeps,
     Zenon DEF Main
<1>3. CASE Quit
  BY <1>3, QuitKeeps, Zenon
<1>4. CASE \E i \in Slots : Thread(i) \/ Create(i) \/ Answer(i) \/ Close(i) \/ Tick(i)
  BY <1>4, ThreadKeeps, CreateKeeps, SessionKeeps, Zenon
<1>5. CASE UNCHANGED vars
  <2>1. /\ table' = table /\ sess' = sess /\ slock' = slock /\ media' = media /\ main' = main
        /\ refs' = refs /\ losses' = losses /\ force_idr' = force_idr
        /\ media_active' = media_active
    BY <1>5, Zenon DEF vars
  <2>2. SessInv' /\ \A j \in Slots : Expected(j)' = Expected(j)
    BY <2>1, SameSessions, Zenon
  <2>3. MediaInv' /\ MainInv' /\ TableInv'
    BY <2>1, Zenon DEF RefsInv, MediaInv, MainInv, TableInv, InHand, Busy, Slots
  <2>4. RefsInv'
    BY <2>1, <2>2, <2>3, Zenon DEF RefsInv, SessInv, Slots
  <2>5. \A j \in Slots : Taking(j)' <=> Taking(j)
    BY <2>1, Zenon DEF Taking
  <2>6. ASSUME ChainInv, losses = 0, NEW j \in Slots PROVE Chained(sess[j], Expected(j)', Taking(j)')
    BY <2>2, <2>5, <2>6, FewerTaken, Zenon DEF ChainInv
  <2>7. ChainInv => ChainInv'
    BY <2>1, <2>6, Zenon DEF ChainInv, Slots
  <2> QED BY <2>4, <2>7
<1> QED BY <1>1, <1>2, <1>3, <1>4, <1>5, Zenon DEF Next, Done

-----------------------------------------------------------------------------
(* What is handed to libpeer *)

\* Nothing is handed over by a step on the session of slot i.
Silent(i) == \E t : sess' = [sess EXCEPT ![i] = t] /\ t.last \in {0, sess[i].last}

LEMMA ThreadSilent ==
  ASSUME NEW i \in Slots, sess[i] \in Session, Thread(i), ~ThSend(i)
  PROVE  Silent(i)
<1> DEFINE s == sess[i]
<1>1. s \in Session
  OBVIOUS
<1>2. ASSUME ThTop(i) PROVE Silent(i)
  <2>1. PICK t : t = [s EXCEPT !.at =
                  IF s.stop THEN "end"
                  ELSE IF s.state = "new" THEN "wait"
                  ELSE IF s.state \in {"checking", "connected"} THEN "loop"
                  ELSE "end"]
    BY Zenon
  <2>2. sess' = [sess EXCEPT ![i] = t]
    BY <1>2, <2>1, Zenon DEF ThTop, Set
  <2>3. t.last = s.last
    BY <1>1, <2>1, Zenon DEF Session
  <2> QED BY <2>2, <2>3, Zenon DEF Silent
<1>3. ASSUME ThWait(i) PROVE Silent(i)
  <2>1. PICK t : t = [s EXCEPT !.at = "drop", !.got = s.answer, !.answer = FALSE]
    BY Zenon
  <2>2. sess' = [sess EXCEPT ![i] = t]
    BY <1>3, <2>1, Zenon DEF ThWait, Set
  <2>3. t.last = s.last
    BY <1>1, <2>1, Zenon DEF Session
  <2> QED BY <2>2, <2>3, Zenon DEF Silent
<1>4. ASSUME ThLoop(i) PROVE Silent(i)
  <2>1. PICK st : sess' = [sess EXCEPT ![i] = [s EXCEPT !.at = "after", !.state = st]]
    BY <1>4, Zenon DEF ThLoop, Set
  <2>2. PICK t : t = [s EXCEPT !.at = "after", !.state = st]
    BY Zenon
  <2>3. t.last = s.last
    BY <1>1, <2>2, Zenon DEF Session
  <2> QED BY <2>1, <2>2, <2>3, Zenon DEF Silent
<1>5. ASSUME ThSent(i) PROVE Silent(i)
  <2>1. PICK t : t = [s EXCEPT !.at = "top"]
    BY Zenon
  <2>2. sess' = [sess EXCEPT ![i] = t]
    BY <1>5, <2>1, Zenon DEF ThSent, Set
  <2>3. t.last = s.last
    BY <1>1, <2>1, Zenon DEF Session
  <2> QED BY <2>2, <2>3, Zenon DEF Silent
<1>6. ASSUME ThFinish(i) PROVE Silent(i)
  <2>1. PICK t : t = [s EXCEPT !.at = "done", !.finished = TRUE]
    BY Zenon
  <2>2. sess' = [sess EXCEPT ![i] = t]
    BY <1>6, <2>1, Zenon DEF ThFinish, Set
  <2>3. t.last = s.last
    BY <1>1, <2>1, Zenon DEF Session
  <2> QED BY <2>2, <2>3, Zenon DEF Silent
<1>7. PICK m : m = Emptied(s)
  BY Zenon
<1>8. m \in Session /\ m.last = s.last
  BY <1>1, <1>7, EmptiedIs, Zenon
<1>9. ASSUME ThAnswer(i) PROVE Silent(i)
  <2>1. PICK w : w = [Emptied(s) EXCEPT !.got = FALSE]
    BY Zenon
  <2>2. w \in Session /\ w.last = s.last
    BY <1>1, <2>1, WaitedIs, Zenon
  <2>3. CASE s.got
    <3>1. PICK st, a : sess' = [sess EXCEPT ![i] = [w EXCEPT !.at = "top", !.state = st, !.age = a]]
      BY <1>9, <2>1, <2>3, Zenon DEF ThAnswer, Set
    <3>2. PICK t : t = [w EXCEPT !.at = "top", !.state = st, !.age = a]
      BY Zenon
    <3>3. t.last = s.last
      BY <2>2, <3>2, Zenon DEF Session
    <3> QED BY <3>1, <3>2, <3>3, Zenon DEF Silent
  <2>4. CASE ~s.got
    <3>1. PICK x : sess' = [sess EXCEPT ![i] = [w EXCEPT !.at = x]]
      BY <1>9, <2>1, <2>4, Zenon DEF ThAnswer, Set
    <3>2. PICK t : t = [w EXCEPT !.at = x]
      BY Zenon
    <3>3. t.last = s.last
      BY <2>2, <3>2, Zenon DEF Session
    <3> QED BY <3>1, <3>2, <3>3, Zenon DEF Silent
  <2> QED BY <2>3, <2>4
<1>10. ASSUME ThTake(i) PROVE Silent(i)
  <2>1. PICK t : t = [m EXCEPT !.at = "send", !.batch = s.queue,
                             !.connected = TRUE, !.waiting = NowWaiting(s)]
    BY Zenon
  <2>2. sess' = [sess EXCEPT ![i] = t]
    BY <1>10, <1>7, <2>1, Zenon DEF ThTake, Set
  <2>3. t.last = s.last
    BY <1>8, <2>1, Zenon DEF Session
  <2> QED BY <2>2, <2>3, Zenon DEF Silent
<1>11. ASSUME ThNotConnected(i) PROVE Silent(i)
  <2>1. PICK t : t = [m EXCEPT !.at = IF ConnectExpired(s) THEN "end" ELSE "top"]
    BY Zenon
  <2>2. sess' = [sess EXCEPT ![i] = t]
    BY <1>11, <1>7, <2>1, Zenon DEF ThNotConnected, Set
  <2>3. t.last = s.last
    BY <1>8, <2>1, Zenon DEF Session
  <2> QED BY <2>2, <2>3, Zenon DEF Silent
<1>12. ASSUME ThEnd(i) PROVE Silent(i)
  <2>1. PICK t : t = [m EXCEPT !.at = "finish"]
    BY Zenon
  <2>2. sess' = [sess EXCEPT ![i] = t]
    BY <1>12, <1>7, <2>1, Zenon DEF ThEnd, Set
  <2>3. t.last = s.last
    BY <1>8, <2>1, Zenon DEF Session
  <2> QED BY <2>2, <2>3, Zenon DEF Silent
<1> QED BY <1>2, <1>3, <1>4, <1>5, <1>6, <1>9, <1>10, <1>11, <1>12, Zenon DEF Thread

(* Nor by the answer, the end or the clock of a session, nor by its beginning. *)
LEMMA SessionSilent ==
  ASSUME NEW i \in Slots, sess[i] \in Session, Answer(i) \/ Close(i) \/ Tick(i) \/ Create(i)
  PROVE  Silent(i)
<1> DEFINE s == sess[i]
<1>1. s \in Session
  OBVIOUS
<1>2. PICK t : t = Stopped(s)
  BY Zenon
<1>3. t.last = s.last
  BY <1>1, <1>2, Zenon DEF Session, Stopped
<1>4. CASE Answer(i)
  <2>1. PICK r : r = SetAnswer(s)
    BY Zenon
  <2>2. r.last = s.last
    <3>1. PICK w : w = [s EXCEPT !.answer = TRUE, !.taken = TRUE]
      BY Zenon
    <3>2. w.last = s.last
      BY <1>1, <3>1, Zenon DEF Session
    <3> QED BY <2>1, <3>1, <3>2, Zenon DEF SetAnswer
  <2>3. sess' = [sess EXCEPT ![i] = r] \/ sess' = [sess EXCEPT ![i] = t]
    BY <1>2, <1>4, <2>1, Zenon DEF Answer, Set
  <2> QED BY <1>3, <2>2, <2>3, Zenon DEF Silent
<1>5. CASE Close(i)
  BY <1>2, <1>3, <1>5, Zenon DEF Close, Set, Silent
<1>6. CASE Tick(i)
  <2>1. PICK w : w = [s EXCEPT !.age = s.age + 1]
    BY Zenon
  <2>2. w.last = s.last
    BY <1>1, <2>1, Zenon DEF Session
  <2> QED BY <1>6, <2>1, <2>2, Zenon DEF Tick, Set, Silent
<1>7. CASE Create(i)
  <2>1. NewSession.last = 0
    BY Zenon DEF NewSession, NoSession
  <2> QED BY <1>7, <2>1, Zenon DEF Create, Set, Silent
<1> QED BY <1>4, <1>5, <1>6, <1>7

(* Silence on one slot is silence on all.                                      *)
LEMMA SilentAll ==
  ASSUME NEW i \in Slots, sess \in [Slots -> Session], Silent(i)
  PROVE  \A j \in Slots : sess'[j].last \in {0, sess[j].last}
BY Zenon DEF Silent

(* The media thread and the rest of the main thread hand nothing over.         *)
LEMMA OthersSilent ==
  ASSUME RefsInv, Media \/ Main \/ Quit
  PROVE  \A j \in Slots : sess'[j].last \in {0, sess[j].last}
<1>1. sess \in [Slots -> Session] /\ MediaInv /\ MainInv
  BY Zenon DEF RefsInv
<1>2. CASE sess' = sess
  BY <1>2, Zenon
<1>3. NoSession.last = 0
  BY Zenon DEF NoSession
<1>4. CASE Resync
  <2>1. media.slot \in Slots
    BY <1>1, <1>4 DEF MediaInv, Resync
  <2>2. PICK i \in Slots : i = media.slot
    BY <2>1, Zenon
  <2>3. PICK t : t = [sess[i] EXCEPT !.resync = TRUE]
    BY Zenon
  <2>4. t.last = sess[i].last
    BY <1>1, <2>3, Zenon DEF Session
  <2>5. Silent(i)
    BY <1>4, <2>2, <2>3, <2>4, Zenon DEF Resync, Set, Silent
  <2> QED BY <1>1, <2>5, SilentAll, Zenon
<1>5. CASE Push /\ sess' # sess
  <2>1. media.slot \in Slots /\ media.unit \in Unit
    BY <1>1, <1>5 DEF MediaInv, MediaRecord, Push
  <2>2. PICK i \in Slots : i = media.slot
    BY <2>1, Zenon
  <2>3. PICK t : PushTo(sess[i], t, media.unit) /\ sess' = [sess EXCEPT ![i] = t]
    BY <1>5, <2>2, Zenon DEF Push, Set, PushTo, Spared
  <2>4. t.last = sess[i].last
    <3>1. sess[i] \in Session
      BY <1>1, Zenon
    <3>2. PushTo(sess[i], t, media.unit)
      BY <2>3, Zenon
    <3>3. PICK s \in Session, u \in Unit : s = sess[i] /\ u = media.unit
      BY <2>1, <3>1, Zenon
    <3>4. PushTo(s, t, u)
      BY <3>2, <3>3, Zenon
    <3> HIDE <1>1, <1>5
    <3>5. t.last = s.last
      BY <3>4, PushIs, Zenon
    <3> QED BY <3>3, <3>5, Zenon
  <2>5. Silent(i)
    BY <2>3, <2>4, Zenon DEF Silent
  <2> QED BY <1>1, <2>5, SilentAll, Zenon
<1>6. CASE ReapDestroy
  <2>1. main.slot \in Slots
    BY <1>1, <1>6 DEF MainInv, ReapDestroy
  <2>2. PICK i \in Slots : i = main.slot
    BY <2>1, Zenon
  <2>3. Silent(i)
    BY <1>3, <1>6, <2>2, Zenon DEF ReapDestroy, Destroy, Set, Silent
  <2> QED BY <1>1, <2>3, SilentAll, Zenon
<1>7. CASE QuitDestroy /\ sess' # sess
  <2>1. main.slot \in Slots
    BY <1>7, Zenon DEF QuitDestroy
  <2>2. PICK i \in Slots : i = main.slot
    BY <2>1, Zenon
  <2>3. Silent(i)
    BY <1>3, <1>7, <2>2, Zenon DEF QuitDestroy, Destroy, Set, Silent
  <2> QED BY <1>1, <2>3, SilentAll, Zenon
<1>8. CASE Quit
  <2>1. ASSUME NEW j \in Slots PROVE sess'[j].last = sess[j].last
    <3>1. PICK t : t = [sess[j] EXCEPT !.stop = TRUE]
      BY Zenon
    <3>2. t.last = sess[j].last
      BY <1>1, <3>1, Zenon DEF Session
    <3>3. sess'[j] \in {t, sess[j]}
      BY <1>8, <3>1, Zenon DEF Quit
    <3> QED BY <3>2, <3>3, Zenon
  <2> QED BY <2>1, Zenon
<1>9. CASE Pop \/ MediaLock \/ MediaSlot \/ MediaUnlock \/ MediaStop
  BY <1>2, <1>9, Zenon DEF Pop, MediaLock, MediaSlot, MediaUnlock, MediaStop
<1>10. CASE Insert \/ JoinMedia \/ \E i \in Slots : ReapRemove(i)
  BY <1>2, <1>10, Zenon DEF Insert, JoinMedia, ReapRemove
<1> QED BY <1>2, <1>4, <1>5, <1>6, <1>7, <1>8, <1>9, <1>10, Zenon DEF Media, Main

(* send_frames hands over an IDR, or what follows the last frame.              *)
LEMMA SendInOrder ==
  ASSUME RefsInv, ChainInv, losses = 0, NEW i \in Slots, ThSend(i)
  PROVE  \A j \in Slots : \/ sess'[j].last \in {0, sess[j].last}
                          \/ Head(sess[j].batch).idr
                          \/ sess'[j].last = sess[j].last + 1
<1> DEFINE s == sess[i]
<1>1. sess \in [Slots -> Session] /\ s \in Session /\ s.batch \in Seq(Unit)
  BY DEF RefsInv, Session
<1>2. PICK t : t = [s EXCEPT !.batch = Tail(@), !.waiting = Skips(s), !.last = LastSent(s)]
  BY Zenon
<1>3. s.batch # <<>> /\ sess' = [sess EXCEPT ![i] = t]
  BY <1>2, Zenon DEF ThSend, Set, Skips, LastSent
<1>4. t.last = LastSent(s)
  BY <1>1, <1>2, Zenon DEF Session
<1>5. sess'[i] = t /\ \A j \in Slots : j # i => sess'[j] = sess[j]
  BY <1>1, <1>3, Zenon
<1>6. Chained(s, Expected(i), Taking(i))
  BY Zenon DEF ChainInv
<1>7. Head(s.batch) = s.batch[1]
  BY <1>1, <1>3
<1>8. s.waiting \/ Head(s.batch).nr = s.last + 1
  BY <1>3, <1>6, <1>7, Zenon DEF Chained
<1>9. \/ t.last = s.last \/ Head(s.batch).idr \/ t.last = s.last + 1
  BY <1>4, <1>8, Zenon DEF LastSent, Skips
<1> QED BY <1>5, <1>9, Zenon

LEMMA NextInOrder ==
  ASSUME RefsInv, ChainInv, [Next]_vars, losses = 0
  PROVE  \A j \in Slots : \/ sess'[j].last \in {0, sess[j].last}
                          \/ Head(sess[j].batch).idr
                          \/ sess'[j].last = sess[j].last + 1
<1>1. sess \in [Slots -> Session]
  BY Zenon DEF RefsInv
<1>2. CASE Media \/ Main \/ Quit
  BY <1>2, OthersSilent, Zenon
<1>3. ASSUME NEW i \in Slots, Thread(i) \/ Create(i) \/ Answer(i) \/ Close(i) \/ Tick(i), ~ThSend(i)
      PROVE  \A j \in Slots : sess'[j].last \in {0, sess[j].last}
  <2>1. Silent(i)
    BY <1>1, <1>3, ThreadSilent, SessionSilent, Zenon
  <2> QED BY <1>1, <2>1, SilentAll, Zenon
<1>4. CASE \E i \in Slots : Thread(i) \/ Create(i) \/ Answer(i) \/ Close(i) \/ Tick(i)
  BY <1>3, <1>4, SendInOrder, Zenon
<1>5. CASE UNCHANGED vars
  BY <1>5, Zenon DEF vars
<1> QED BY <1>2, <1>4, <1>5, Zenon DEF Next, Done

-----------------------------------------------------------------------------
(* The theorems.  Counting the places is counting the slots. *)

INSTANCE FiniteSetTheorems

LEMMA SlotsAreFinite == ASSUME NEW S \in SUBSET Slots PROVE IsFiniteSet(S)
<1>1. IsFiniteSet(Slots)
  BY FS_Interval, StreamAssumption DEF Slots
<1> QED BY <1>1, FS_Subset, Zenon

LEMMA CountingWorks == CountingLaws
<1>1. ASSUME NEW S \in SUBSET Slots PROVE Cardinality(S) \in Nat
  BY SlotsAreFinite, FS_CardinalityType, Zenon
<1>2. ASSUME NEW S \in SUBSET Slots, NEW x \in Slots, x \notin S
      PROVE  Cardinality(S \cup {x}) = Cardinality(S) + 1
  BY <1>2, SlotsAreFinite, FS_AddElement, Zenon
<1>3. ASSUME NEW S \in SUBSET Slots, NEW x \in Slots, x \in S
      PROVE  Cardinality(S \ {x}) = Cardinality(S) - 1
  BY <1>3, SlotsAreFinite, FS_RemoveElement, Zenon
<1>4. Cardinality({}) = 0 /\ \A x : Cardinality({x}) = 1
  BY FS_EmptySet, FS_Singleton, Zenon
<1> QED BY <1>1, <1>2, <1>3, <1>4, Zenon DEF CountingLaws

(* lp_session.h: "A viewer starts, and restarts after any loss, on an IDR      *)
(* frame".  For every number of viewers and units and every size of the        *)
(* mailbox, a frame handed to libpeer is an IDR or directly follows the frame  *)
(* handed over before it, however mailboxes overflow and whenever the viewer   *)
(* connects (push_frame, take_frames, send_frames).                            *)
THEOREM RestartsOnKeyframes == Spec => RestartsOnIdr
<1>1. RefsInv /\ ChainInv /\ [Next]_vars => RefsInv' /\ ChainInv'
  BY CountingWorks, NextKeeps, Zenon
<1>2. RefsInv /\ ChainInv /\ [Next]_vars
        => [\A i \in Slots :
               losses = 0 /\ sess'[i].last \notin {0, sess[i].last}
                 => Head(sess[i].batch).idr \/ sess'[i].last = sess[i].last + 1]_vars
  BY NextInOrder, Zenon
<1> QED BY <1>1, <1>2, InitKeeps, PTL DEF Spec, RestartsOnIdr


(* A session has the frame of a unit at one place at most.                     *)
LEMMA OnePlace ==
  ASSUME NEW s \in Session, NEW e, Sorted(s, e), NEW n
  PROVE  /\ \A j, k \in DOMAIN s.queue : s.queue[j].nr = n /\ s.queue[k].nr = n => j = k
         /\ \A j, k \in DOMAIN s.batch : s.batch[j].nr = n /\ s.batch[k].nr = n => j = k
         /\ \A j \in DOMAIN s.batch, k \in DOMAIN s.queue : ~(s.batch[j].nr = n /\ s.queue[k].nr = n)
<1>1. s.queue \in Seq(Unit) /\ s.batch \in Seq(Unit)
  BY Zenon DEF Session
<1>2. ASSUME NEW fs \in Seq(Unit), \A j, k \in DOMAIN fs : j < k => fs[j].nr < fs[k].nr,
             NEW j \in DOMAIN fs, NEW k \in DOMAIN fs, fs[j].nr = n, fs[k].nr = n
      PROVE  j = k
  <2>1. j \in Nat /\ k \in Nat /\ fs[j] \in Unit
    OBVIOUS
  <2>2. n \in Nat
    BY <1>2, <2>1, Zenon DEF Unit
  <2>3. ~(n < n)
    BY <2>2
  <2>4. ~(j < k) /\ ~(k < j)
    BY <1>2, <2>3, Zenon
  <2> QED BY <2>1, <2>4
<1>3. ASSUME NEW j \in DOMAIN s.batch, NEW k \in DOMAIN s.queue, s.batch[j].nr = n, s.queue[k].nr = n
      PROVE  FALSE
  <2>1. n < n
    BY <1>3, Zenon DEF Sorted
  <2>2. s.batch[j] \in Unit
    BY <1>1
  <2>3. n \in Nat
    BY <1>3, <2>2, Zenon DEF Unit
  <2> QED BY <2>1, <2>3
<1> QED BY <1>1, <1>2, <1>3, Zenon DEF Sorted

LEMMA PlacesAreSlots ==
  ASSUME sess \in [Slots -> Session], NEW n,
         \A i \in Slots : \E e : Sorted(sess[i], e)
  PROVE  Cardinality(Places(n)) = Cardinality(Where(n))
<1> DEFINE Boxes == Slots \X {"queue", "batch"} \X (1..Mailbox)
           At(p) == p[3] \in DOMAIN Kept(p[1], p[2]) /\ Kept(p[1], p[2])[p[3]].nr = n
<1>1. \A i \in Slots : Kept(i, "queue") = sess[i].queue /\ Kept(i, "batch") = sess[i].batch
  BY DEF Kept
<1>2. ASSUME NEW p \in Places(n)
      PROVE  /\ p[1] \in Slots /\ p[2] \in {"queue", "batch"} /\ p = <<p[1], p[2], p[3]>> /\ At(p)
  BY DEF Places
<1>3. ASSUME NEW i \in Slots, NEW box \in {"queue", "batch"}, NEW k \in DOMAIN Kept(i, box),
             Kept(i, box)[k].nr = n
      PROVE  <<i, box, k>> \in Places(n)
  <2>1. Kept(i, box) \in Seq(Unit) /\ Len(Kept(i, box)) <= Mailbox
    <3>1. /\ sess[i].queue \in Seq(Unit) /\ sess[i].batch \in Seq(Unit)
          /\ Len(sess[i].queue) <= Mailbox /\ Len(sess[i].batch) <= Mailbox
      BY Zenon DEF Session, Sorted
    <3> QED BY <3>1 DEF Kept
  <2>2. k \in 1..Mailbox
    BY <2>1, StreamAssumption
  <2> QED BY <1>3, <2>2 DEF Places
<1> DEFINE f == [p \in Places(n) |-> p[1]]
<1>4. ASSUME NEW p \in Places(n) PROVE p[1] \in Where(n)
  <2>1. p[1] \in Slots /\ p[2] \in {"queue", "batch"} /\ At(p)
    BY <1>2
  <2>2. Holds(sess[p[1]], n)
    BY <1>1, <2>1 DEF Holds
  <2> QED BY <2>1, <2>2 DEF Where
<1>5. ASSUME NEW p \in Places(n), NEW q \in Places(n), p[1] = q[1] PROVE p = q
  <2>1. PICK i, a, b, j, k :
          /\ i \in Slots /\ p = <<i, a, j>> /\ q = <<i, b, k>>
          /\ a \in {"queue", "batch"} /\ b \in {"queue", "batch"}
          /\ j \in DOMAIN Kept(i, a) /\ Kept(i, a)[j].nr = n
          /\ k \in DOMAIN Kept(i, b) /\ Kept(i, b)[k].nr = n
    BY <1>2, <1>5
  <2>2. PICK e : Sorted(sess[i], e)
    BY <2>1, Zenon
  <2>3. a = b /\ j = k
    <3>1. sess[i] \in Session
      BY <2>1
    <3>2. /\ \A x, y \in DOMAIN sess[i].queue :
                sess[i].queue[x].nr = n /\ sess[i].queue[y].nr = n => x = y
          /\ \A x, y \in DOMAIN sess[i].batch :
                sess[i].batch[x].nr = n /\ sess[i].batch[y].nr = n => x = y
          /\ \A x \in DOMAIN sess[i].batch, y \in DOMAIN sess[i].queue :
                ~(sess[i].batch[x].nr = n /\ sess[i].queue[y].nr = n)
      BY <2>2, <3>1, OnePlace, Zenon
    <3>3. CASE a = "queue" /\ b = "queue"
      BY <1>1, <2>1, <3>2, <3>3, Zenon
    <3>4. CASE a = "batch" /\ b = "batch"
      BY <1>1, <2>1, <3>2, <3>4, Zenon
    <3>5. CASE a = "queue" /\ b = "batch"
      BY <1>1, <2>1, <3>2, <3>5, Zenon
    <3>6. CASE a = "batch" /\ b = "queue"
      BY <1>1, <2>1, <3>2, <3>6, Zenon
    <3> QED BY <2>1, <3>3, <3>4, <3>5, <3>6
  <2> QED BY <2>1, <2>3
<1>6. ASSUME NEW i \in Where(n) PROVE \E p \in Places(n) : p[1] = i
  <2>1. i \in Slots /\ Holds(sess[i], n)
    BY DEF Where
  <2>2. PICK box \in {"queue", "batch"} : \E k \in DOMAIN Kept(i, box) : Kept(i, box)[k].nr = n
    BY <1>1, <2>1 DEF Holds
  <2>3. PICK k \in DOMAIN Kept(i, box) : Kept(i, box)[k].nr = n
    BY <2>2
  <2>4. <<i, box, k>> \in Places(n)
    BY <1>3, <2>1, <2>3
  <2> QED BY <2>4
<1>7. f \in [Places(n) -> Where(n)]
  BY <1>4
<1>8. f \in Injection(Places(n), Where(n))
  BY <1>5, <1>7, Zenon DEF Injection, IsInjective
<1>9. f \in Surjection(Places(n), Where(n))
  BY <1>6, <1>7, Zenon DEF Surjection
<1>10. IsFiniteSet(Where(n))
  <2>1. Where(n) \in SUBSET Slots
    BY Zenon DEF Where
  <2> QED BY <2>1, SlotsAreFinite, Zenon
<1> HIDE DEF f
<1> QED BY <1>8, <1>9, <1>10, FS_Injection, Zenon

(* When lp_server_run returns, nobody holds anything.                          *)
LEMMA NothingLeft ==
  ASSUME RefsInv, main = [at |-> "quit", slot |-> MaxSlots + 1]
  PROVE  /\ \A i \in Slots : sess[i].mem = "none"
         /\ \A n \in Units : refs[n] = 0
<1>1. MainInv /\ TableInv /\ MediaInv /\ Counted
  BY Zenon DEF RefsInv
<1>2. main.at = "quit" /\ main.slot = MaxSlots + 1
  OBVIOUS
<1>3. ASSUME NEW i \in Slots PROVE sess[i] = NoSession
  <2>1. i < MaxSlots + 1
    BY StreamAssumption DEF Slots
  <2>2. ~table[i]
    BY <1>1, <1>2, <2>1, Zenon DEF MainInv
  <2>3. main.at \notin {"insert", "destroy"}
    BY <1>2
  <2> QED BY <1>1, <2>2, <2>3, Zenon DEF TableInv, InHand
<1>4. ASSUME NEW i \in Slots PROVE sess[i].mem = "none"
  <2>1. NoSession.mem = "none"
    BY Zenon DEF NoSession
  <2> QED BY <1>3, <2>1, Zenon
<1>5. ~media.frame
  BY <1>1, <1>2 DEF MainInv, MediaInv, Busy
<1>6. ASSUME NEW n \in Units PROVE refs[n] = 0
  <2>1. \A k : ~Holds(NoSession, k)
    <3>1. 0 \in Nat
      OBVIOUS
    <3> QED BY <3>1, NoSessionIs
  <2>2. Where(n) = {}
    BY <1>3, <2>1, Zenon DEF Where
  <2>3. Cardinality(Where(n)) = 0
    BY <2>2, FS_EmptySet, Zenon
  <2>4. refs[n] = Cardinality(Where(n)) + 0
    BY <1>1, <1>5, Zenon DEF Counted
  <2> QED BY <2>3, <2>4
<1> QED BY <1>4, <1>6

LEMMA RefsAreExact ==
  ASSUME RefsInv, AnswersAreSafe
  PROVE  RefsExact
<1>1. /\ sess \in [Slots -> Session] /\ refs \in Seq(Int) /\ MediaInv /\ TableInv /\ Counted
      /\ force_idr \in BOOLEAN /\ media_active \in BOOLEAN
      /\ \A i \in Slots : Sorted(sess[i], Expected(i))
  BY Zenon DEF RefsInv
<1>2. ASSUME NEW n \in Units
      PROVE  refs[n] = Holders(n) /\ refs[n] \in Nat
  <2>1. Cardinality(Places(n)) = Cardinality(Where(n))
    BY <1>1, PlacesAreSlots, Zenon
  <2>2. refs[n] = Cardinality(Where(n)) + IF media.frame /\ media.unit.nr = n THEN 1 ELSE 0
    BY <1>1, Zenon DEF Counted
  <2>3. Cardinality(Where(n)) \in Nat
    BY CountingWorks, WhereCounts
  <2>4. refs[n] \in Nat
    BY <2>2, <2>3
  <2> QED BY <2>1, <2>2, <2>4, Zenon DEF Holders
<1>3. refs \in Seq(Nat)
  BY <1>1, <1>2 DEF Units
<1>4. slock \in {"free", "media"}
  BY <1>1 DEF MediaInv
<1>5. ASSUME NEW i \in Slots
      PROVE  /\ sess[i].mem \in {"none", "live"}
             /\ sess[i].at \in {"top", "wait", "drop", "loop", "after", "send",
                                "end", "finish", "done"}
             /\ sess[i].state \in {"new", "checking", "connected", "failed", "closed"}
             /\ Len(sess[i].queue) <= Mailbox /\ Len(sess[i].batch) <= Mailbox
             /\ sess[i].last \in 0..MaxUnits
  <2>1. sess[i] \in Session /\ Sorted(sess[i], Expected(i))
    BY <1>1, Zenon
  <2> QED BY <2>1, Zenon DEF Session, Sorted, States, Spots
<1>6. TypeOK
  <2>1. table \in [Slots -> BOOLEAN]
    BY <1>1, Zenon DEF TableInv
  <2> QED BY <1>1, <1>3, <1>4, <1>5, <2>1, Zenon DEF TypeOK
<1>7. media.at \in {"resync", "push"} => sess[media.slot].mem = "live"
  <2>1. media.at \in {"resync", "push"} => media.slot \in Slots /\ table[media.slot]
    BY <1>1, Zenon DEF MediaInv
  <2> QED BY <1>1, <2>1, Zenon DEF TableInv
<1>8. main = [at |-> "quit", slot |-> MaxSlots + 1]
         => /\ \A i \in Slots : sess[i].mem = "none"
            /\ \A n \in Units : refs[n] = 0
  BY NothingLeft, Zenon
<1> QED BY <1>2, <1>6, <1>7, <1>8, Zenon DEF RefsExact

(* For every number of slots, viewers and units and every size of the mailbox, *)
(* the count of a frame is exactly the number of mailboxes, batches and        *)
(* threads that hold it, through flushes, closes and shutdown (lp_frame_ref,   *)
(* lp_frame_unref); the media thread never has a session that was freed        *)
(* (reap_sessions); and when lp_server_run returns, every session and every    *)
(* frame is gone.  What the answers' parser promises of the posted answers is  *)
(* a fact about data, which the run evaluates.                                 *)
THEOREM SharedFramesAreCounted == AnswersAreSafe => (Spec => []RefsExact)
<1> SUFFICES ASSUME AnswersAreSafe PROVE Spec => []RefsExact
  OBVIOUS
<1>1. RefsInv /\ [Next]_vars => RefsInv'
  BY CountingWorks, NextKeeps, Zenon
<1>2. RefsInv => RefsExact
  BY RefsAreExact, Zenon
<1>3. Init => RefsInv
  BY InitKeeps, Zenon
<1> QED BY <1>1, <1>2, <1>3, PTL DEF Spec
=============================================================================
