--------------------------- MODULE RtpSenderProofs ---------------------------
(***************************************************************************)
(* The retransmission cache of RtpSender, for every size of the cache that *)
(* divides the space of sequence numbers, every stream of access units,    *)
(* any packets that cannot be protected and any RTCP in between.           *)
(*                                                                         *)
(* CacheIsCurrent says what the cache holds for a sequence number.  It is  *)
(* not inductive: the number alone does not say which round a packet is    *)
(* of.  CacheInv says it of the packets themselves, counted without wrap:  *)
(* a slot in use holds a packet that left and belongs there, under its own *)
(* number, and every packet that left is in its slot or overwritten by a   *)
(* later one.  The rest is arithmetic of remainders.                       *)
(*                                                                         *)
(* On the cache stands what a NACK is answered with (AnswerInv).  The      *)
(* round trip shown and the clocks of a sender report (TimeInv) come       *)
(* after it: readings of clocks that wrap, and what two roundings lose.    *)
(***************************************************************************)
EXTENDS RtpSender, TLAPS

(* Remainders *)

\* A number is its quotient times the divisor plus its remainder: what the slot
\* sequence % RETX_CACHE_SIZE rests on.
LEMMA Division ==
  ASSUME NEW n \in Nat, NEW k \in Nat, k > 0
  PROVE  n = k * (n \div k) + (n % k) /\ n % k \in 0..(k - 1) /\ n \div k \in Nat
OBVIOUS

\* There is only one way to write a number so.
LEMMA DivisionIsUnique ==
  ASSUME NEW k \in Nat, k > 0, NEW q \in Int, NEW p \in Int,
         NEW r \in 0..(k - 1), NEW s \in 0..(k - 1), k * q + r = k * p + s
  PROVE  q = p /\ r = s
<1>1. k * (q - p) = s - r
  OBVIOUS
<1>2. ~(q - p >= 1)
  <2>1. ASSUME q - p >= 1 PROVE k * (q - p) >= k
    BY <2>1
  <2> QED BY <2>1, <1>1
<1>3. ~(q - p <= -1)
  <2>1. ASSUME q - p <= -1 PROVE k * (q - p) <= -k
    BY <2>1
  <2> QED BY <2>1, <1>1
<1> QED BY <1>2, <1>3

\* So a remainder in range is the remainder.
LEMMA RemainderIs ==
  ASSUME NEW k \in Nat, k > 0, NEW n \in Nat, NEW q \in Int, NEW r \in 0..(k - 1),
         n = k * q + r
  PROVE  n % k = r
<1>1. n = k * (n \div k) + (n % k) /\ n % k \in 0..(k - 1) /\ n \div k \in Nat
  BY Division, Zenon
<1> QED BY <1>1, DivisionIsUnique

\* Adding one to a number that wraps, as ++p->sequence does, wraps with it.
LEMMA WrapsWithIt ==
  ASSUME NEW n \in Nat, NEW k \in Nat, k > 0
  PROVE  ((n % k) + 1) % k = (n + 1) % k
<1> DEFINE q == n \div k
           r == n % k
           m == n + 1
<1>1. n = k * q + r /\ r \in 0..(k - 1) /\ q \in Nat
  BY Division, Zenon
<1> HIDE DEF q, r
<1>2. CASE r + 1 < k
  <2>1. m = k * q + (r + 1) /\ r + 1 \in 0..(k - 1) /\ q \in Int /\ m \in Nat
    BY <1>1, <1>2
  <2>2. m % k = r + 1
    <3> HIDE DEF m
    <3> QED BY <2>1, RemainderIs, Zenon
  <2>3. r + 1 = k * 0 + (r + 1) /\ r + 1 \in Nat /\ 0 \in Int
    BY <1>1
  <2>4. (r + 1) % k = r + 1
    BY <2>1, <2>3, RemainderIs, Zenon
  <2> QED BY <2>2, <2>4, Zenon DEF r
<1>3. CASE r + 1 = k
  <2> DEFINE p == q + 1
  <2>1. m = k * p + 0 /\ 0 \in 0..(k - 1) /\ p \in Int /\ m \in Nat
    BY <1>1, <1>3
  <2>2. m % k = 0
    <3> HIDE DEF m, p
    <3> QED BY <2>1, RemainderIs, Zenon
  <2>3. r + 1 = k * 1 + 0 /\ r + 1 \in Nat /\ 1 \in Int
    BY <1>1, <1>3
  <2>4. (r + 1) % k = 0
    BY <2>1, <2>3, RemainderIs, Zenon
  <2> QED BY <2>2, <2>4, Zenon DEF r
<1> QED BY <1>1, <1>2, <1>3 DEF r

\* The slot of a packet does not depend on how often the sequence number has come
\* round, because the size of the cache divides 2^16.
LEMMA RoundsShareSlots ==
  ASSUME NEW n \in Nat, NEW k \in Nat, k > 0, NEW c \in Nat, c > 0, k % c = 0
  PROVE  (n % k) % c = n % c
<1> DEFINE q == n \div k
           r == n % k
           d == k \div c
           p == r \div c
           s == r % c
           z == d * q + p
<1>1. n = k * q + r /\ r \in Nat /\ q \in Nat
  BY Division
<1>2. k = c * d /\ d \in Nat
  BY Division
<1>3. r = c * p + s /\ s \in 0..(c - 1) /\ p \in Nat
  BY <1>1, Division, Zenon
<1> HIDE DEF q, r, d, p, s
<1>4. n = c * z + s /\ z \in Int
  BY <1>1, <1>2, <1>3, SMT
<1> HIDE DEF z
<1>5. n % c = s
  BY <1>3, <1>4, RemainderIs, Zenon
<1> QED BY <1>5, Zenon DEF s, r

\* Two packets less than the size of the cache apart do not share a slot.
LEMMA NeighboursDoNot ==
  ASSUME NEW c \in Nat, c > 0, NEW n \in Nat, NEW m \in Nat, n <= m, m < n + c,
         n % c = m % c
  PROVE  n = m
<1> DEFINE q == n \div c
           p == m \div c
           r == n % c
           e == m - n
<1>1. n = c * q + r /\ q \in Nat /\ r \in 0..(c - 1)
  BY Division, Zenon
<1>2. m = c * p + r /\ p \in Nat
  BY Division, Zenon
<1> HIDE DEF q, p, r
<1>3. /\ c * (p - q) + 0 = c * 0 + e /\ e \in 0..(c - 1) /\ 0 \in 0..(c - 1)
      /\ p - q \in Int /\ 0 \in Int
  BY <1>1, <1>2, SMT
<1>4. e = 0
  <2> HIDE DEF e
  <2> QED BY <1>3, DivisionIsUnique
<1> QED BY <1>4

-----------------------------------------------------------------------------
(* The invariant *)

Place(n) == Slot(n % SeqSpace)

CacheTypes ==
    /\ count \in Nat /\ sent \subseteq 1..count
    /\ sequence = count % SeqSpace
    /\ retx_seq \in [CacheSlots -> Nat]
    /\ retx_len \in [CacheSlots -> {0, 1}]
    /\ retx_data \in [CacheSlots -> Nat]

\* A slot in use holds a packet that left and belongs there, under its number.
Belongs ==
    \A i \in CacheSlots :
        retx_len[i] # 0 => /\ retx_data[i] \in sent
                           /\ Place(retx_data[i]) = i
                           /\ retx_seq[i] = retx_data[i] % SeqSpace

\* The slot of a packet that left holds that packet or a later one.
NotOlder == \A n \in sent : retx_len[Place(n)] # 0 /\ n <= retx_data[Place(n)]

CacheInv == CacheTypes /\ Belongs /\ NotOlder

-----------------------------------------------------------------------------
\* Every packet has a slot in rtp_packet_sink's cache.
LEMMA PlaceIsASlot ==
  ASSUME NEW n \in Nat
  PROVE  Place(n) \in CacheSlots
<1>1. n % SeqSpace \in Nat
  BY CacheAssumption, Division
<1>2. (n % SeqSpace) % CacheSize \in 0..(CacheSize - 1)
  BY <1>1, CacheAssumption, Division
<1> QED BY <1>2, Zenon DEF Place, Slot, CacheSlots

\* Two packets that left, the earlier among the last CacheSize: in one slot of the
\* cache they are one packet.
LEMMA SlotsAreApart ==
  ASSUME NEW n \in Nat, NEW m \in Nat, n <= m, m < n + CacheSize, Place(n) = Place(m)
  PROVE  n = m
<1>1. SeqSpace \in Nat /\ SeqSpace > 0 /\ CacheSize \in Nat /\ CacheSize > 0
        /\ SeqSpace % CacheSize = 0
  BY CacheAssumption
<1>2. (n % SeqSpace) % CacheSize = n % CacheSize
  BY <1>1, RoundsShareSlots, Zenon
<1>3. (m % SeqSpace) % CacheSize = m % CacheSize
  BY <1>1, RoundsShareSlots, Zenon
<1>4. n % CacheSize = m % CacheSize
  BY <1>2, <1>3, Zenon DEF Place, Slot
<1> QED BY <1>1, <1>4, NeighboursDoNot, Zenon

\* The empty cache rtc_session_create makes.
LEMMA CacheStarts == Init => CacheInv
<1> SUFFICES ASSUME Init PROVE CacheInv
  BY Zenon
<1>1. 0 % SeqSpace = 0
  <2>1. 0 = SeqSpace * 0 + 0 /\ 0 \in 0..(SeqSpace - 1) /\ 0 \in Int /\ 0 \in Nat
           /\ SeqSpace \in Nat /\ SeqSpace > 0
    BY CacheAssumption
  <2> QED BY <2>1, RemainderIs, Zenon
<1>2. CacheTypes
  BY <1>1, Zenon DEF Init, CacheTypes
<1>3. Belongs /\ NotOlder
  BY Zenon DEF Init, Belongs, NotOlder
<1> QED BY <1>2, <1>3, Zenon DEF CacheInv

\* ++p->sequence is the number of the next packet.
LEMMA NextSeqIs == CacheTypes => NextSeq = (count + 1) % SeqSpace
<1>1. SeqSpace \in Nat /\ SeqSpace > 0
  BY CacheAssumption
<1> QED BY <1>1, WrapsWithIt, Zenon DEF CacheTypes, NextSeq

\* rtp_packet_sink stores the packet it sent.
LEMMA SinkKeeps == CacheInv /\ Sink => CacheInv'
<1> SUFFICES ASSUME CacheInv, Sink PROVE CacheInv'
  BY Zenon
<1> DEFINE n == count + 1
           i == Place(n)
<1>1. CacheTypes /\ Belongs /\ NotOlder
  BY Zenon DEF CacheInv
<1>2. n \in Nat /\ i \in CacheSlots /\ NextSeq = n % SeqSpace /\ Slot(NextSeq) = i
  BY <1>1, PlaceIsASlot, NextSeqIs DEF CacheTypes, Place
<1>3. count' = n /\ sequence' = n % SeqSpace /\ sent' = sent \cup {n}
  BY <1>2, Zenon DEF Sink, Emit
<1>4. /\ retx_data' = [retx_data EXCEPT ![i] = n]
      /\ retx_len' = [retx_len EXCEPT ![i] = 1]
      /\ retx_seq' = [retx_seq EXCEPT ![i] = n % SeqSpace]
  BY <1>2, Zenon DEF Sink
<1>5. n % SeqSpace \in Nat
  BY <1>2, CacheAssumption, Division
<1>6. CacheTypes'
  <2>1. sent' \subseteq 1..count'
    BY <1>1, <1>3 DEF CacheTypes
  <2>2. /\ retx_seq' \in [CacheSlots -> Nat]
        /\ retx_len' \in [CacheSlots -> {0, 1}]
        /\ retx_data' \in [CacheSlots -> Nat]
    BY <1>1, <1>2, <1>4, <1>5, Zenon DEF CacheTypes
  <2> QED BY <1>2, <1>3, <2>1, <2>2, Zenon DEF CacheTypes
<1>7. \A j \in CacheSlots :
         /\ retx_data'[j] = IF j = i THEN n ELSE retx_data[j]
         /\ retx_len'[j] = IF j = i THEN 1 ELSE retx_len[j]
         /\ retx_seq'[j] = IF j = i THEN n % SeqSpace ELSE retx_seq[j]
  BY <1>1, <1>4, Zenon DEF CacheTypes
<1>8. Belongs'
  <2> SUFFICES ASSUME NEW j \in CacheSlots, retx_len'[j] # 0
               PROVE  /\ retx_data'[j] \in sent'
                      /\ Place(retx_data'[j]) = j
                      /\ retx_seq'[j] = retx_data'[j] % SeqSpace
    BY Zenon DEF Belongs, Place, Slot
  <2>1. CASE j = i
    BY <1>3, <1>7, <2>1, Zenon
  <2>2. CASE j # i
    BY <1>1, <1>3, <1>7, <2>2, Zenon DEF Belongs
  <2> QED BY <2>1, <2>2, Zenon
<1>9. NotOlder'
  <2> SUFFICES ASSUME NEW m \in sent'
               PROVE  retx_len'[Place(m)] # 0 /\ m <= retx_data'[Place(m)]
    BY Zenon DEF NotOlder, Place, Slot
  <2>1. m \in Nat /\ m <= n /\ (m # n => m \in sent)
    BY <1>1, <1>3 DEF CacheTypes
  <2>2. Place(m) \in CacheSlots
    BY <2>1, PlaceIsASlot, Zenon
  <2>3. CASE Place(m) = i
    BY <1>7, <2>1, <2>2, <2>3
  <2>4. CASE Place(m) # i
    <3>1. m \in sent
      BY <2>1, <2>4, Zenon
    <3>2. retx_len[Place(m)] # 0 /\ m <= retx_data[Place(m)]
      BY <1>1, <3>1, Zenon DEF NotOlder
    <3> QED BY <1>7, <2>2, <2>4, <3>2, SMTT(30)
  <2> QED BY <2>3, <2>4, Zenon
<1> QED BY <1>6, <1>8, <1>9, Zenon DEF CacheInv

\* A packet that could not be protected leaves a gap in the numbers and the cache
\* as it was.
LEMMA SinkFailsKeeps == CacheInv /\ SinkFails => CacheInv'
<1> SUFFICES ASSUME CacheInv, SinkFails PROVE CacheInv'
  BY Zenon
<1>1. CacheTypes /\ Belongs /\ NotOlder
  BY Zenon DEF CacheInv
<1>2. /\ count' = count + 1 /\ sequence' = (count + 1) % SeqSpace
      /\ sent' = sent /\ retx_seq' = retx_seq /\ retx_len' = retx_len
      /\ retx_data' = retx_data
  BY <1>1, NextSeqIs, Zenon DEF SinkFails, Emit, cache
<1>3. CacheTypes'
  BY <1>1, <1>2 DEF CacheTypes
<1>4. Belongs' /\ NotOlder'
  BY <1>1, <1>2, Zenon DEF Belongs, NotOlder, Place, Slot
<1> QED BY <1>3, <1>4, Zenon DEF CacheInv

\* Nothing else touches the cache or the numbers.
LEMMA QuietKeeps == CacheInv /\ UNCHANGED <<cache, numbers>> => CacheInv'
BY Zenon DEF CacheInv, CacheTypes, Belongs, NotOlder, Place, Slot, cache, numbers

\* Every step of the session keeps the cache current.
LEMMA StepKeeps == CacheInv /\ [Next]_vars => CacheInv'
<1> SUFFICES ASSUME CacheInv, [Next]_vars PROVE CacheInv'
  BY Zenon
<1>1. ASSUME NEW u \in Units, SendAccessUnit(u) PROVE CacheInv'
  BY <1>1, QuietKeeps, Zenon DEF SendAccessUnit
<1>2. CASE SkipEmpty
  BY <1>2, QuietKeeps, Zenon DEF SkipEmpty
<1>3. CASE Sink
  BY <1>3, SinkKeeps, Zenon
<1>4. CASE SinkFails
  BY <1>4, SinkFailsKeeps, Zenon
<1>5. CASE Return
  BY <1>5, QuietKeeps, Zenon DEF Return
<1>6. ASSUME NEW delay \in Delays, SenderReport(delay) PROVE CacheInv'
  BY <1>6, QuietKeeps, Zenon DEF SenderReport
<1>7. ASSUME NEW d \in Datagrams, OnRtcp(d.arrival.compound, d.arrival.trip, d.read)
      PROVE  CacheInv'
  BY <1>7, QuietKeeps, Zenon DEF OnRtcp
<1>8. CASE UNCHANGED vars
  BY <1>8, QuietKeeps, Zenon DEF vars
<1> QED BY <1>1, <1>2, <1>3, <1>4, <1>5, <1>6, <1>7, <1>8, SMTT(30) DEF Next

\* From the packets to the numbers the peer asks for.
LEMMA CurrentFromInv == CacheInv => CacheIsCurrent
<1> SUFFICES ASSUME CacheInv PROVE CacheIsCurrent
  BY Zenon
<1>1. CacheTypes /\ Belongs /\ NotOlder
  BY Zenon DEF CacheInv
<1>2. ASSUME NEW seq \in 0..(SeqSpace - 1), Cached(seq)
      PROVE  /\ retx_data[Slot(seq)] \in sent
             /\ retx_data[Slot(seq)] % SeqSpace = seq
             /\ \A n \in sent : n % SeqSpace = seq => n <= retx_data[Slot(seq)]
  <2>1. Slot(seq) \in CacheSlots
    <3>1. seq \in Nat /\ CacheSize \in Nat /\ CacheSize > 0
      BY CacheAssumption
    <3> QED BY <3>1, Division, Zenon DEF Slot, CacheSlots
  <2>2. retx_len[Slot(seq)] # 0 /\ retx_seq[Slot(seq)] = seq
    BY <1>2, Zenon DEF Cached
  <2>3. retx_data[Slot(seq)] \in sent /\ retx_data[Slot(seq)] % SeqSpace = seq
    BY <1>1, <2>1, <2>2, Zenon DEF Belongs
  <2>4. ASSUME NEW n \in sent, n % SeqSpace = seq PROVE n <= retx_data[Slot(seq)]
    BY <1>1, <2>4, Zenon DEF NotOlder, Place
  <2> QED BY <2>3, <2>4, Zenon
<1>3. ASSUME NEW n \in sent, n > count - CacheSize
      PROVE  Cached(n % SeqSpace) /\ retx_data[Slot(n % SeqSpace)] = n
  <2> DEFINE m == retx_data[Place(n)]
  <2>1. n \in Nat /\ Place(n) \in CacheSlots
    BY <1>1, PlaceIsASlot DEF CacheTypes
  <2>2. retx_len[Place(n)] # 0 /\ n <= m
    BY <1>1, Zenon DEF NotOlder
  <2>3. m \in sent /\ Place(m) = Place(n) /\ retx_seq[Place(n)] = m % SeqSpace
    BY <1>1, <2>1, <2>2, Zenon DEF Belongs
  <2>4. m \in Nat /\ m < n + CacheSize
    BY <1>1, <1>3, <2>1, <2>3, CacheAssumption DEF CacheTypes
  <2> HIDE DEF m
  <2>5. n = m
    BY <2>1, <2>2, <2>3, <2>4, SlotsAreApart, Zenon
  <2> QED BY <2>2, <2>3, <2>5, Zenon DEF m, Cached, Place
<1> QED BY <1>2, <1>3, Zenon DEF CacheIsCurrent

\* Whatever a NACK asks for, handle_nacks finds in the cache the latest packet with
\* that sequence number or nothing, and finds every packet that left among the
\* last RETX_CACHE_SIZE.
THEOREM CacheStaysCurrent == Spec => []CacheIsCurrent
<1>1. Init => CacheInv
  BY CacheStarts, Zenon
<1>2. CacheInv /\ [Next]_vars => CacheInv'
  BY StepKeeps, Zenon
<1>3. CacheInv => CacheIsCurrent
  BY CurrentFromInv, Zenon
<1> QED BY <1>1, <1>2, <1>3, PTL DEF Spec

-----------------------------------------------------------------------------
(* What a NACK is answered with *)

\* Nothing is answered while an access unit is sent: RTCP comes between them.
Settled == unit # <<>> => compound = <<>> /\ resent = {}

\* The packets sent again, against the numbers the peer named.
Resent ==
    \A m \in resent :
        /\ m \in sent /\ m % SeqSpace \in Asked(compound)
        /\ \A n \in sent : n % SeqSpace = m % SeqSpace => n <= m

NoneForgotten ==
    ~SaidBye(compound) /\ unit = <<>> /\ compound # <<>> =>
        \A n \in sent : n > count - CacheSize /\ n % SeqSpace \in Asked(compound)
                           => n \in resent

AnswerInv == Settled /\ Resent /\ NoneForgotten

\* handle_nacks with the numbers rtcp_parse read.
LEMMA AnswersAreRight ==
  ASSUME CacheIsCurrent, NEW nacks, Range(nacks) \subseteq 0..(SeqSpace - 1),
         sent \subseteq Nat
  PROVE  /\ \A m \in Answers(nacks) :
               /\ m \in sent /\ m % SeqSpace \in Range(nacks)
               /\ \A n \in sent : n % SeqSpace = m % SeqSpace => n <= m
         /\ \A n \in sent : n > count - CacheSize /\ n % SeqSpace \in Range(nacks)
                               => n \in Answers(nacks)
<1>1. ASSUME NEW m \in Answers(nacks)
      PROVE  /\ m \in sent /\ m % SeqSpace \in Range(nacks)
             /\ \A n \in sent : n % SeqSpace = m % SeqSpace => n <= m
  <2>1. PICK seq \in Range(nacks) : Cached(seq) /\ m = retx_data[Slot(seq)]
    BY <1>1, Zenon DEF Answers
  <2>2. seq \in 0..(SeqSpace - 1)
    BY <2>1, Zenon
  <2>3. /\ m \in sent /\ m % SeqSpace = seq
        /\ \A n \in sent : n % SeqSpace = seq => n <= m
    BY <2>1, <2>2, Zenon DEF CacheIsCurrent
  <2> QED BY <2>1, <2>3, Zenon
<1>2. ASSUME NEW n \in sent, n > count - CacheSize, n % SeqSpace \in Range(nacks)
      PROVE  n \in Answers(nacks)
  <2>1. Cached(n % SeqSpace) /\ retx_data[Slot(n % SeqSpace)] = n
    BY <1>2, Zenon DEF CacheIsCurrent
  <2> QED BY <1>2, <2>1, Zenon DEF Answers
<1> QED BY <1>1, <1>2, Zenon

\* dtls_on_rtcp answers right after it has parsed the datagram.
LEMMA OnRtcpAnswers ==
  ASSUME ParsedAsMeant, CacheInv, AnswerInv, NEW d \in Datagrams,
         OnRtcp(d.arrival.compound, d.arrival.trip, d.read)
  PROVE  AnswerInv'
<1> DEFINE f == d.read
           c == d.arrival.compound
<1>1. /\ f.bye <=> SaidBye(c)
      /\ Range(f.nacks) = Asked(c) /\ Asked(c) \subseteq 0..(SeqSpace - 1)
  BY Zenon DEF ParsedAsMeant
<1>2. compound' = c /\ unit' = unit /\ unit = <<>> /\ sent' = sent /\ count' = count
  BY Zenon DEF OnRtcp, loop, numbers
<1>3. sent \subseteq Nat
  BY DEF CacheInv, CacheTypes
<1>4. CacheIsCurrent
  BY CurrentFromInv, Zenon
<1>5. CASE f.bye
  <2>1. resent' = {}
    BY <1>5, Zenon DEF OnRtcp
  <2> QED BY <1>1, <1>2, <1>5, <2>1, Zenon DEF AnswerInv, Settled, Resent, NoneForgotten
<1>6. CASE ~f.bye
  <2>1. resent' = Answers(f.nacks)
    BY <1>6, Zenon DEF OnRtcp
  <2>2. /\ \A m \in Answers(f.nacks) :
               /\ m \in sent /\ m % SeqSpace \in Asked(c)
               /\ \A n \in sent : n % SeqSpace = m % SeqSpace => n <= m
        /\ \A n \in sent : n > count - CacheSize /\ n % SeqSpace \in Asked(c)
                               => n \in Answers(f.nacks)
    BY <1>1, <1>3, <1>4, AnswersAreRight, Zenon
  <2> QED BY <1>2, <2>1, <2>2, Zenon DEF AnswerInv, Settled, Resent, NoneForgotten
<1> QED BY <1>5, <1>6, Zenon

\* Every other step either leaves the answer alone or sends what has none.
LEMMA AnswerKept == ParsedAsMeant /\ CacheInv /\ AnswerInv /\ [Next]_vars => AnswerInv'
<1> SUFFICES ASSUME ParsedAsMeant, CacheInv, AnswerInv, [Next]_vars PROVE AnswerInv'
  BY Zenon
<1>a. ASSUME compound' = compound, resent' = resent, unit' = unit, sent' = sent,
             count' = count
      PROVE  AnswerInv'
  BY <1>a, Zenon DEF AnswerInv, Settled, Resent, NoneForgotten
<1>b. ASSUME compound' = compound, resent' = resent, unit # <<>>
      PROVE  AnswerInv'
  <2>1. compound' = <<>> /\ resent' = {}
    BY <1>b, Zenon DEF AnswerInv, Settled
  <2> QED BY <2>1, Zenon DEF AnswerInv, Settled, Resent, NoneForgotten
<1>1. ASSUME NEW u \in Units, SendAccessUnit(u) PROVE AnswerInv'
  BY <1>1, Zenon DEF SendAccessUnit, AnswerInv, Settled, Resent, NoneForgotten
<1>2. CASE SkipEmpty
  <2>1. compound' = compound /\ resent' = resent /\ unit # <<>>
    BY <1>2, Zenon DEF SkipEmpty, InLoop, feedback
  <2> QED BY <1>b, <2>1, Zenon
<1>3. CASE Sink
  <2>1. compound' = compound /\ resent' = resent /\ unit # <<>>
    BY <1>3, Zenon DEF Sink, Emit, InLoop, feedback
  <2> QED BY <1>b, <2>1, Zenon
<1>4. CASE SinkFails
  <2>1. compound' = compound /\ resent' = resent /\ unit # <<>>
    BY <1>4, Zenon DEF SinkFails, Emit, InLoop, feedback
  <2> QED BY <1>b, <2>1, Zenon
<1>5. CASE Return
  <2>1. compound' = compound /\ resent' = resent /\ unit # <<>>
    BY <1>5, Zenon DEF Return, feedback
  <2> QED BY <1>b, <2>1, Zenon
<1>6. ASSUME NEW delay \in Delays, SenderReport(delay) PROVE AnswerInv'
  BY <1>a, <1>6, Zenon DEF SenderReport, loop, numbers, feedback
<1>7. ASSUME NEW d \in Datagrams, OnRtcp(d.arrival.compound, d.arrival.trip, d.read)
      PROVE  AnswerInv'
  BY <1>7, OnRtcpAnswers, Zenon
<1>8. CASE UNCHANGED vars
  BY <1>a, <1>8, Zenon DEF vars, loop, numbers, feedback
<1> QED BY <1>1, <1>2, <1>3, <1>4, <1>5, <1>6, <1>7, <1>8, Zenon DEF Next

\* handle_nacks sends again what the peer asked for and nothing else: the latest
\* packet with the number, and every one asked for among the last
\* RETX_CACHE_SIZE.  For every stream and any RTCP that rtcp_parse reads as meant.
THEOREM NacksAreAnswered == ParsedAsMeant => (Spec => []AnswersWhatWasAsked)
<1> SUFFICES ASSUME ParsedAsMeant PROVE Spec => []AnswersWhatWasAsked
  BY Zenon
<1>1. Init => CacheInv /\ AnswerInv
  BY CacheStarts, Zenon DEF Init, AnswerInv, Settled, Resent, NoneForgotten
<1>2. CacheInv /\ AnswerInv /\ [Next]_vars => CacheInv' /\ AnswerInv'
  BY StepKeeps, AnswerKept, Zenon
<1>3. CacheInv /\ AnswerInv => AnswersWhatWasAsked
  BY CurrentFromInv, Zenon DEF AnswersWhatWasAsked, AnswerInv, Resent, NoneForgotten
<1> QED BY <1>1, <1>2, <1>3, PTL DEF Spec

-----------------------------------------------------------------------------
(* The round trip a report gives *)

\* The same for a difference, which may be negative: the unsigned subtraction of
\* rtcp_rtt_ms.
LEMMA RemainderOf ==
  ASSUME NEW k \in Nat, k > 0, NEW n \in Int, NEW q \in Int, NEW r \in 0..(k - 1),
         n = k * q + r
  PROVE  n % k = r
<1>1. n = k * (n \div k) + (n % k) /\ n % k \in 0..(k - 1) /\ n \div k \in Int
  OBVIOUS
<1> QED BY <1>1, DivisionIsUnique

\* Behind the two subtractions rtcp_rtt_ms has the trip again, with its sign,
\* wherever the clock has wrapped.
LEMMA ElapsedIsTheTrip ==
  ASSUME NEW lsr \in 0..(ClockSpace - 1), NEW dlsr \in 0..(ClockSpace - 1), NEW t \in Int,
         -ClockSpace <= 2 * t, 2 * t < ClockSpace
  PROVE  Elapsed((lsr + dlsr + t) % ClockSpace, lsr, dlsr) = t
<1> DEFINE C == ClockSpace
           x == lsr + dlsr + t
           q == x \div C
           y == (x % C) - lsr - dlsr
<1>1. C \in Nat /\ C > 0
  BY TripAssumption
<1>2. x = C * q + (x % C) /\ q \in Int /\ x % C \in Int /\ x \in Int
  <2>1. x \in Int
    BY <1>1
  <2> HIDE DEF x
  <2> QED BY <1>1, <2>1
<1> HIDE DEF q
<1>3. y \in Int /\ y = t - C * q
  BY <1>1, <1>2
<1>4. -C <= 2 * t /\ 2 * t < C
  BY Zenon
<1> HIDE DEF C, x, y
<1>5. (IF 2 * (y % C) < C THEN y % C ELSE (y % C) - C) = t
  <2>1. CASE t >= 0
    <3> DEFINE p == 0 - q
    <3>1. y = C * p + t /\ p \in Int /\ t \in 0..(C - 1)
      BY <1>1, <1>2, <1>3, <1>4, <2>1
    <3>2. y % C = t
      <4> HIDE DEF p
      <4> QED BY <1>1, <1>3, <3>1, RemainderOf, Zenon
    <3> QED BY <1>4, <3>2, Zenon
  <2>2. CASE t < 0
    <3> DEFINE p == (0 - q) - 1
               s == t + C
    <3>1. y = C * p + s /\ p \in Int /\ s \in 0..(C - 1)
      BY <1>1, <1>2, <1>3, <1>4, <2>2
    <3>2. y % C = s
      <4> HIDE DEF p, s
      <4> QED BY <1>1, <1>3, <3>1, RemainderOf, Zenon
    <3> QED BY <1>1, <1>4, <3>2
  <2> QED BY <2>1, <2>2
<1> QED BY <1>5, Zenon DEF C, x, y, Elapsed, Signed

\* The rounded division of rtcp_rtt_ms is off by half a millisecond at most.
LEMMA RoundedIsNear ==
  ASSUME NEW e \in Nat
  PROVE  LET d == Rounded(e) * UnitsPerSecond - e * MsPerSecond
         IN /\ Rounded(e) \in Nat
            /\ 2 * d <= UnitsPerSecond /\ -2 * d <= UnitsPerSecond
<1> DEFINE U == UnitsPerSecond
           z == e * MsPerSecond
           h == U \div 2
           q == (z + h) \div U
           r == (z + h) % U
<1>1. U \in Nat /\ U > 0 /\ z \in Nat
  BY TripAssumption
<1>2. h \in Nat /\ 2 * h <= U /\ U <= 2 * h + 1
  BY <1>1
<1> HIDE DEF z, h, U
<1>3. z + h = U * q + r /\ r \in 0..(U - 1) /\ q \in Nat
  <2>1. z + h \in Nat
    BY <1>1, <1>2
  <2> QED BY <1>1, <2>1, Division, Zenon
<1> HIDE DEF q, r
<1>4. q * U - z = h - r
  BY <1>1, <1>2, <1>3
<1>5. 2 * (h - r) <= U /\ -2 * (h - r) <= U
  BY <1>1, <1>2, <1>3
<1>6. Rounded(e) = q
  BY Zenon DEF Rounded, q, h, U, z
<1> QED BY <1>3, <1>4, <1>5, <1>6, Zenon DEF U, z

\* An empty datagram reports on nothing.
LEMMA NothingReported == ReportsOnUs(<<>>) = {}
<1>1. {i \in DOMAIN <<>> : (<<>>)[i].kind = "bad"} = {}
  OBVIOUS
<1>2. ValidPart(<<>>) = <<>>
  BY <1>1, Zenon DEF ValidPart
<1> QED BY <1>2 DEF ReportsOnUs

\* dtls_on_rtcp with the block rtcp_parse kept.
LEMMA OnRtcpShowsTheTrip ==
  ASSUME ParsedAsMeant, NEW d \in Datagrams,
         OnRtcp(d.arrival.compound, d.arrival.trip, d.read)
  PROVE  RttIsTheTrip'
<1> DEFINE f == d.read
           c == d.arrival.compound
           t == d.arrival.trip
           b == FirstOnUs(c)
           dist == rtt_ms' * UnitsPerSecond - t * MsPerSecond
<1>1. /\ f.bye <=> SaidBye(c)
      /\ OurReport(f) <=> ReportsOnUs(c) # {}
      /\ OurReport(f) => /\ f.rr[1] = b
                         /\ b.lsr \in 0..(ClockSpace - 1) /\ b.dlsr \in 0..(ClockSpace - 1)
  BY Zenon DEF ParsedAsMeant
<1>2. t \in Int /\ -ClockSpace <= 2 * t /\ 2 * t < ClockSpace
  <2>1. PICK a \in Arrivals : d = [arrival |-> a, read |-> Parse(a.compound)]
    BY Zenon DEF Datagrams
  <2>2. d.arrival = a
    BY <2>1, Zenon
  <2> QED BY <2>2, TripAssumption, Zenon
<1>3. compound' = c /\ trip' = t
  BY Zenon DEF OnRtcp
<1>4. reported' <=> ReportsOnUs(c) # {} /\ ~SaidBye(c)
  BY <1>1, Zenon DEF OnRtcp
<1>5. ASSUME reported', b.lsr # 0
      PROVE  /\ t >= 0 => 2 * dist <= UnitsPerSecond /\ -2 * dist <= UnitsPerSecond
             /\ t < 0 /\ t > -Tolerance => rtt_ms' = 0
  <2>1. ~f.bye /\ OurReport(f)
    BY <1>1, <1>4, <1>5, Zenon
  <2>2. f.rr[1] = b /\ b.lsr \in 0..(ClockSpace - 1) /\ b.dlsr \in 0..(ClockSpace - 1)
    BY <1>1, <2>1, Zenon
  <2> DEFINE rtt == RttMs(Now(b, t), b.lsr, b.dlsr)
  <2>3. rtt_ms' = IF rtt >= 0 THEN rtt ELSE rtt_ms
    <3>1. rtt_ms' = RttAfter(f, t)
      BY <2>1, Zenon DEF OnRtcp
    <3> QED BY <2>1, <2>2, <3>1, Zenon DEF RttAfter
  <2>4. Elapsed(Now(b, t), b.lsr, b.dlsr) = t
    BY <1>2, <2>2, ElapsedIsTheTrip, Zenon DEF Now
  <2>5. rtt = IF t >= 0 THEN Rounded(t) ELSE IF t > -Tolerance THEN 0 ELSE -1
    BY <1>2, <1>5, <2>4 DEF RttMs
  <2> HIDE DEF rtt
  <2>6. ASSUME t >= 0
        PROVE  2 * dist <= UnitsPerSecond /\ -2 * dist <= UnitsPerSecond
    <3>1. t \in Nat
      BY <1>2, <2>6
    <3>2. LET e == Rounded(t) * UnitsPerSecond - t * MsPerSecond
          IN /\ Rounded(t) \in Nat
             /\ 2 * e <= UnitsPerSecond /\ -2 * e <= UnitsPerSecond
      BY <3>1, RoundedIsNear, Zenon
    <3>3. rtt = Rounded(t)
      BY <2>5, <2>6, Zenon
    <3>4. rtt_ms' = Rounded(t)
      <4>1. rtt >= 0
        BY <3>2, <3>3
      <4> QED BY <2>3, <3>3, <4>1, Zenon
    <3> QED BY <3>2, <3>4, Zenon
  <2>7. ASSUME t < 0, t > -Tolerance PROVE rtt_ms' = 0
    <3>1. ~(t >= 0)
      BY <1>2, <2>7
    <3>2. rtt = 0
      BY <2>5, <2>7, <3>1, Zenon
    <3> QED BY <2>3, <3>2
  <2> QED BY <2>6, <2>7, Zenon
<1> HIDE DEF dist
<1> QED BY <1>3, <1>4, <1>5, Zenon DEF RttIsTheTrip, dist

\* Nothing but RTCP changes what is shown, and an access unit starts afresh.
LEMMA TripKept == ParsedAsMeant /\ RttIsTheTrip /\ [Next]_vars => RttIsTheTrip'
<1> SUFFICES ASSUME ParsedAsMeant, RttIsTheTrip, [Next]_vars PROVE RttIsTheTrip'
  BY Zenon
<1>a. ASSUME UNCHANGED feedback PROVE RttIsTheTrip'
  <2>1. /\ compound' = compound /\ trip' = trip /\ reported' = reported
        /\ rtt_ms' = rtt_ms
    BY <1>a, Zenon DEF feedback
  <2> QED BY <2>1, Zenon DEF RttIsTheTrip
<1>1. ASSUME NEW u \in Units, SendAccessUnit(u) PROVE RttIsTheTrip'
  <2>1. compound' = <<>> /\ reported' = FALSE
    BY <1>1, Zenon DEF SendAccessUnit
  <2> QED BY <2>1, NothingReported, Zenon DEF RttIsTheTrip
<1>2. CASE SkipEmpty
  BY <1>a, <1>2, Zenon DEF SkipEmpty
<1>3. CASE Sink
  BY <1>a, <1>3, Zenon DEF Sink, Emit
<1>4. CASE SinkFails
  BY <1>a, <1>4, Zenon DEF SinkFails, Emit
<1>5. CASE Return
  BY <1>a, <1>5, Zenon DEF Return
<1>6. ASSUME NEW delay \in Delays, SenderReport(delay) PROVE RttIsTheTrip'
  BY <1>a, <1>6, Zenon DEF SenderReport
<1>7. ASSUME NEW d \in Datagrams, OnRtcp(d.arrival.compound, d.arrival.trip, d.read)
      PROVE  RttIsTheTrip'
  BY <1>7, OnRtcpShowsTheTrip, Zenon
<1>8. CASE UNCHANGED vars
  BY <1>a, <1>8, Zenon DEF vars
<1> QED BY <1>1, <1>2, <1>3, <1>4, <1>5, <1>6, <1>7, <1>8, Zenon DEF Next

\* stats.rtt_ms after a report on our stream is the round trip to half a
\* millisecond, wherever the compact clock wraps on the way, and a datagram counts
\* as a report on our stream exactly if a block of it is about our SSRC.
THEOREM TripIsShown == ParsedAsMeant => (Spec => []RttIsTheTrip)
<1> SUFFICES ASSUME ParsedAsMeant PROVE Spec => []RttIsTheTrip
  BY Zenon
<1>1. Init => RttIsTheTrip
  BY NothingReported, Zenon DEF Init, RttIsTheTrip
<1>2. RttIsTheTrip /\ [Next]_vars => RttIsTheTrip'
  BY TripKept, Zenon
<1> QED BY <1>1, <1>2, PTL DEF Spec

-----------------------------------------------------------------------------
(* The times in a sender report *)

\* The clocks have readings to show.
LEMMA ClocksRun ==
  /\ UsPerSecond \in Nat /\ UsPerSecond > 0 /\ FracSpace \in Nat /\ FracSpace > 0
  /\ SecSpace \in Nat /\ SecSpace > 0 /\ TickNum \in Nat /\ TickNum > 0
  /\ TickDen \in Nat /\ TickDen > 0 /\ TickSpace \in Nat /\ TickSpace > 0
  /\ CountSpace \in Nat /\ CountSpace > 0
  /\ WallOffset \in Nat /\ Epoch \in Nat /\ FrameGap \in Nat
<1>1. /\ UsPerSecond \in Nat \ {0} /\ FracSpace \in Nat \ {0} /\ SecSpace \in Nat \ {0}
      /\ TickNum \in Nat \ {0} /\ TickDen \in Nat \ {0} /\ TickSpace \in Nat \ {0}
      /\ CountSpace \in Nat \ {0}
      /\ WallOffset \in Nat /\ Epoch \in Nat /\ FrameGap \in Nat
  BY TimeAssumption, Zenon
<1> QED BY <1>1

\* A difference of two wrapped readings, read as the nearest to 0, is the
\* difference itself: what a receiver does with RTP timestamps.
LEMMA NearestIs ==
  ASSUME NEW k \in Nat, k > 0, NEW x \in Int, NEW q \in Int, NEW e \in Int,
         x = k * q + e, -k <= 2 * e, 2 * e < k
  PROVE  Nearest(x, k) = e
<1>1. CASE e >= 0
  <2>1. e \in 0..(k - 1)
    BY <1>1
  <2>2. x % k = e
    BY <2>1, RemainderOf, Zenon
  <2> QED BY <2>2, Zenon DEF Nearest
<1>2. CASE e < 0
  <2> DEFINE p == q - 1
             s == e + k
  <2>1. x = k * p + s /\ p \in Int /\ s \in 0..(k - 1)
    BY <1>2
  <2>2. x % k = s
    <3> HIDE DEF p, s
    <3> QED BY <2>1, RemainderOf, Zenon
  <2> QED BY <2>2 DEF Nearest
<1> QED BY <1>1, <1>2

\* The ticks of the 90 kHz clock from its base to an instant, before they wrap.
TicksAt(base, us) == ((us - base) * TickNum) \div TickDen

\* rtp_h264_packetize and rtp_h264_timestamp_at truncate to a whole tick.
LEMMA TicksAre ==
  ASSUME NEW base \in Nat, NEW us \in Nat, base <= us
  PROVE  /\ TicksAt(base, us) \in Nat
         /\ TimestampAt(base, us) = TicksAt(base, us) % TickSpace
         /\ \E r \in 0..(TickDen - 1) :
               TickDen * TicksAt(base, us) = (us - base) * TickNum - r
<1> DEFINE n == (us - base) * TickNum
<1>1. n \in Nat /\ TickDen \in Nat /\ TickDen > 0
  BY ClocksRun
<1>2. n = TickDen * (n \div TickDen) + (n % TickDen) /\ n % TickDen \in 0..(TickDen - 1)
        /\ n \div TickDen \in Nat
  <2> HIDE DEF n
  <2> QED BY <1>1, Division, Zenon
<1>3. TimestampAt(base, us) = TicksAt(base, us) % TickSpace
  BY Zenon DEF TimestampAt, TicksAt
<1>4. TickDen * (n \div TickDen) = n - (n % TickDen)
  <2> HIDE DEF n
  <2> QED BY <1>1, <1>2
<1> QED BY <1>2, <1>3, <1>4, Zenon DEF TicksAt

\* The difference of two truncated readings a window apart.
LEMMA TicksBetween ==
  ASSUME NEW base \in Nat, NEW p \in Nat, NEW at \in Nat, base <= p, base <= at,
         Near(p - at)
  PROVE  /\ TicksAt(base, p) - TicksAt(base, at) \in Int
         /\ Nearest(TimestampAt(base, p) - TimestampAt(base, at), TickSpace)
              = TicksAt(base, p) - TicksAt(base, at)
         /\ \E r \in 0..(TickDen - 1), s \in 0..(TickDen - 1) :
               (TicksAt(base, p) - TicksAt(base, at)) * TickDen = (p - at) * TickNum + s - r
<1> DEFINE a == TicksAt(base, p)
           b == TicksAt(base, at)
           T == TickSpace
           D == TickDen
           N == TickNum
<1>1. T \in Nat /\ T > 0 /\ D \in Nat /\ D > 0 /\ N \in Nat
  BY ClocksRun, Zenon
<1>2. a \in Nat /\ TimestampAt(base, p) = a % T
  BY TicksAre, Zenon
<1>3. PICK r \in 0..(D - 1) : D * a = (p - base) * N - r
  BY TicksAre, Zenon
<1>4. b \in Nat /\ TimestampAt(base, at) = b % T
  BY TicksAre, Zenon
<1>5. PICK s \in 0..(D - 1) : D * b = (at - base) * N - s
  BY TicksAre, Zenon
<1>6. 2 * ((p - at) * N + D) <= T * D /\ 2 * (D - (p - at) * N) <= T * D
  BY Zenon DEF Near
<1> HIDE DEF a, b, T, D, N
<1>7. (a - b) * D = (p - at) * N + s - r
  <2>1. (a - b) * D = D * a - D * b
    BY <1>1, <1>2, <1>4
  <2>2. (p - base) * N - (at - base) * N = (p - at) * N
    BY <1>1
  <2>3. (p - base) * N \in Int /\ (at - base) * N \in Int /\ (p - at) * N \in Int
    BY <1>1
  <2> QED BY <1>3, <1>5, <2>1, <2>2, <2>3
<1>8. -T < 2 * (a - b) /\ 2 * (a - b) < T
  <2> DEFINE w == (p - at) * N
             z == T * D
  <2>1. w \in Int /\ z \in Int
    BY <1>1
  <2>2. 2 * (w + s - r) < z /\ -z < 2 * (w + s - r)
    <3> HIDE DEF w, z
    <3>1. 2 * (w + D) <= z /\ 2 * (D - w) <= z
      BY <1>6, Zenon DEF w, z
    <3> QED BY <1>1, <2>1, <3>1
  <2>3. 2 * (a - b) * D < T * D /\ -T * D < 2 * (a - b) * D
    BY <1>1, <1>2, <1>4, <1>7, <2>1, <2>2
  <2> DEFINE y == 2 * (a - b)
  <2>4. y \in Int /\ y * D < T * D /\ (-T) * D < y * D
    BY <1>1, <1>2, <1>4, <2>3
  <2> HIDE DEF y
  <2>5. ~(y >= T)
    <3>1. ASSUME y >= T PROVE y * D >= T * D
      BY <1>1, <2>4, <3>1
    <3> QED BY <1>1, <2>4, <3>1
  <2>6. ~(y <= -T)
    <3>1. ASSUME y <= -T PROVE y * D <= (-T) * D
      BY <1>1, <2>4, <3>1
    <3> QED BY <1>1, <2>4, <3>1
  <2> QED BY <1>1, <2>4, <2>5, <2>6 DEF y
<1>9. Nearest((a % T) - (b % T), T) = a - b
  <2> DEFINE i == a \div T
             j == b \div T
             x == (a % T) - (b % T)
             q == j - i
  <2>1. a = T * i + (a % T) /\ i \in Nat /\ a % T \in Nat
    BY <1>1, <1>2, Division
  <2>2. b = T * j + (b % T) /\ j \in Nat /\ b % T \in Nat
    BY <1>1, <1>4, Division
  <2> HIDE DEF i, j
  <2>3. x \in Int /\ q \in Int /\ x = T * q + (a - b)
    BY <1>1, <2>1, <2>2
  <2>4. a - b \in Int /\ -T <= 2 * (a - b) /\ 2 * (a - b) < T
    BY <1>1, <1>2, <1>4, <1>8
  <2> HIDE DEF x, q
  <2>5. Nearest(x, T) = a - b
    BY <1>1, <2>3, <2>4, NearestIs, Zenon
  <2> QED BY <2>5, Zenon DEF x
<1>10. a - b \in Int
  BY <1>2, <1>4
<1> QED BY <1>2, <1>3, <1>4, <1>5, <1>7, <1>9, <1>10, Zenon DEF a, b, T, D, N

\* The 64 bit time of rtcp_build_sender_report: its seconds wrap, its fraction is
\* truncated.
LEMMA NtpIs ==
  ASSUME NEW wall \in Nat
  PROVE  /\ Seconds(wall) \in Nat /\ Fraction(wall) \in 0..(FracSpace - 1)
         /\ \E s \in Nat, u \in 0..(UsPerSecond - 1), r \in 0..(UsPerSecond - 1) :
               /\ wall = UsPerSecond * s + u /\ Seconds(wall) = s + Epoch
               /\ UsPerSecond * Fraction(wall) = u * FracSpace - r
<1> DEFINE M == UsPerSecond
           F == FracSpace
           s == wall \div M
           u == wall % M
           v == u * F
           g == v \div M
           r == v % M
<1>1. M \in Nat /\ M > 0 /\ F \in Nat /\ F > 0 /\ Epoch \in Nat
  BY ClocksRun, Zenon
<1>2. wall = M * s + u /\ u \in 0..(M - 1) /\ s \in Nat
  BY <1>1, Division, Zenon
<1>3. Seconds(wall) = s + Epoch /\ Fraction(wall) = g
  BY Zenon DEF Seconds, Fraction
<1> HIDE DEF M, F, s, u
<1>4. v \in Nat
  BY <1>1, <1>2
<1>5. v < M * F
  <2>1. u + 1 <= M /\ u + 1 \in Nat
    BY <1>1, <1>2
  <2>2. (u + 1) * F <= M * F
    BY <1>1, <2>1
  <2> QED BY <1>1, <1>2, <2>2
<1> HIDE DEF v
<1>6. v = M * g + r /\ r \in 0..(M - 1) /\ g \in Nat
  BY <1>1, <1>4, Division, Zenon
<1> HIDE DEF g, r
<1>7. g < F
  <2>1. ASSUME g >= F PROVE M * g >= M * F
    BY <1>1, <1>6, <2>1
  <2> QED BY <1>1, <1>4, <1>5, <1>6, <2>1
<1>8. M * g = v - r
  BY <1>1, <1>4, <1>6
<1>9. g \in 0..(F - 1) /\ s + Epoch \in Nat
  BY <1>1, <1>2, <1>6, <1>7
<1> QED BY <1>2, <1>3, <1>6, <1>8, <1>9, Zenon DEF M, F, v

\* What the truncations lose is less than a tick and a unit of the fraction.
LEMMA LossIsSmall ==
  ASSUME NEW D \in Nat, NEW F \in Nat, NEW M \in Nat, NEW N \in Nat, F > 0, N > 0, M > 0,
         D > 0,
         NEW r \in 0..(D - 1), NEW s \in 0..(D - 1), NEW g \in 0..(M - 1)
  PROVE  /\ -(D * F + M * N) < (s - r) * F - g * N
         /\ (s - r) * F - g * N < D * F + M * N
<1>1. (s - r) * F <= D * F /\ -(D * F) <= (s - r) * F
  <2>1. s - r <= D /\ -D <= s - r /\ s - r \in Int
    OBVIOUS
  <2> DEFINE x == s - r
  <2> HIDE DEF x
  <2>2. x <= D /\ -D <= x /\ x \in Int
    BY <2>1, Zenon DEF x
  <2>3. x * F <= D * F
    BY <2>2
  <2>4. (-D) * F <= x * F
    BY <2>2
  <2> QED BY <2>3, <2>4 DEF x
<1>2. 0 <= g * N /\ g * N < M * N
  <2>1. (g + 1) * N <= M * N
    OBVIOUS
  <2> QED BY <2>1
<1>3. D * F \in Int /\ M * N \in Int /\ (s - r) * F \in Int /\ g * N \in Int
  OBVIOUS
<1> QED BY <1>1, <1>2, <1>3

\* The seconds of a report, cut to their field, have lost whole turns.
LEMMA TurnsAreLost ==
  ASSUME NEW n \in Nat, NEW S \in Nat, S > 0
  PROVE  \E k \in Nat : n % S = n - S * k
<1> DEFINE k == n \div S
<1>1. n = S * k + (n % S) /\ n % S \in 0..(S - 1) /\ k \in Nat
  BY Division, Zenon
<1> HIDE DEF k
<1>2. n % S = n - S * k
  BY <1>1
<1> QED BY <1>1, <1>2, Zenon

\* What is off by less than half a turn, and by whole turns, is read as what it is
\* off by.
LEMMA TurnsDrop ==
  ASSUME NEW space \in Nat, NEW bound \in Nat, 2 * bound <= space, NEW k \in Nat,
         NEW err \in Int, -bound < err, err < bound
  PROVE  Nearest(space * (0 - k) + err, space) = err
<1>1. PICK q \in Int : q = 0 - k
  OBVIOUS
<1>2. PICK x \in Int : x = space * q + err
  OBVIOUS
<1>3. space > 0 /\ -space <= 2 * err /\ 2 * err < space
  OBVIOUS
<1>4. Nearest(x, space) = err
  BY <1>2, <1>3, NearestIs, Zenon
<1> QED BY <1>1, <1>2, <1>4, Zenon

\* The constants of the two clocks are large enough for the receiver to tell the
\* turns apart.
LEMMA PlacementSpace ==
  /\ TickDen * FracSpace + UsPerSecond * TickNum \in Nat
  /\ SecSpace * UsPerSecond * FracSpace * TickNum \in Nat
  /\ 2 * (TickDen * FracSpace + UsPerSecond * TickNum)
        <= SecSpace * UsPerSecond * FracSpace * TickNum
<1>1. 2 * (TickDen * FracSpace + UsPerSecond * TickNum)
        <= SecSpace * UsPerSecond * FracSpace * TickNum
  BY TimeAssumption, Zenon
<1> QED BY <1>1, ClocksRun

\* A report made at an instant near a capture at p: how far off it places it.
LEMMA PlacementOff ==
  ASSUME NEW base \in Nat, NEW p \in Nat, NEW at \in Nat, base <= p, base <= at,
         Near(p - at)
  PROVE  \E k \in Nat, err \in Int :
            /\ -(TickDen * FracSpace + UsPerSecond * TickNum) < err
            /\ err < TickDen * FracSpace + UsPerSecond * TickNum
            /\ (((Seconds(at + WallOffset) % SecSpace) * FracSpace + Fraction(at + WallOffset))
                     * UsPerSecond * TickNum
                   + (TicksAt(base, p) - TicksAt(base, at)) * TickDen * FracSpace)
                   - (p + WallOffset + Epoch * UsPerSecond) * FracSpace * TickNum
                 = (SecSpace * UsPerSecond * FracSpace * TickNum) * (0 - k) + err
<1>1. /\ TicksAt(base, p) - TicksAt(base, at) \in Int
      /\ \E i \in 0..(TickDen - 1), j \in 0..(TickDen - 1) :
            (TicksAt(base, p) - TicksAt(base, at)) * TickDen = (p - at) * TickNum + j - i
  BY TicksBetween
<1>2. PICK t, secs, g : /\ t = TicksAt(base, p) - TicksAt(base, at)
                       /\ secs = Seconds(at + WallOffset) % SecSpace
                       /\ g = Fraction(at + WallOffset)
  BY Zenon
<1>3. t \in Int
  BY <1>2, <1>1, Zenon
<1>4. PICK i \in 0..(TickDen - 1), j \in 0..(TickDen - 1) :
          t * TickDen = (p - at) * TickNum + j - i
  BY <1>2, <1>1, Zenon
<1>5. PICK wall \in Nat : wall = at + WallOffset
  BY ClocksRun
<1>6. PICK s \in Nat, u \in 0..(UsPerSecond - 1), e2 \in 0..(UsPerSecond - 1) :
         /\ wall = UsPerSecond * s + u /\ Seconds(wall) = s + Epoch
         /\ UsPerSecond * Fraction(wall) = u * FracSpace - e2
  BY NtpIs, Zenon
<1>7. g \in Int
  BY <1>2, <1>5, NtpIs
<1>8. PICK k \in Nat : secs = s + Epoch - SecSpace * k
  <2>1. PICK n \in Nat : n = s + Epoch
    BY ClocksRun
  <2>2. PICK k \in Nat : n % SecSpace = n - SecSpace * k
    BY ClocksRun, TurnsAreLost, Zenon
  <2>3. secs = n % SecSpace
    BY <1>2, <1>5, <1>6, <2>1, Zenon
  <2>4. PICK x \in Int : x = SecSpace * k
    BY ClocksRun
  <2>5. n - x = s + Epoch - x
    BY <2>1, ClocksRun
  <2> QED BY <2>2, <2>3, <2>4, <2>5, Zenon
<1>9. PICK e1 \in Int : e1 = j - i
  BY ClocksRun
<1>10. t * TickDen = (p - at) * TickNum + e1
  BY <1>4, <1>9, Zenon
<1>11. at + WallOffset = UsPerSecond * s + u /\ UsPerSecond * g = u * FracSpace - e2
  BY <1>2, <1>5, <1>6, Zenon
<1>12. PICK err \in Int : err = e1 * FracSpace - e2 * TickNum
  BY ClocksRun
<1>13. /\ -(TickDen * FracSpace + UsPerSecond * TickNum) < err
       /\ err < TickDen * FracSpace + UsPerSecond * TickNum
  <2>1. /\ -(TickDen * FracSpace + UsPerSecond * TickNum)
              < (j - i) * FracSpace - e2 * TickNum
        /\ (j - i) * FracSpace - e2 * TickNum < TickDen * FracSpace + UsPerSecond * TickNum
    BY ClocksRun, LossIsSmall, Zenon
  <2> QED BY <1>9, <1>12, <2>1, Zenon
<1>14. /\ FracSpace \in Int /\ TickNum \in Int /\ UsPerSecond \in Int /\ TickDen \in Int
       /\ SecSpace \in Int /\ WallOffset \in Int /\ Epoch \in Int /\ at \in Int /\ p \in Int
       /\ s \in Int /\ k \in Int /\ u \in Int /\ e2 \in Int
  BY ClocksRun
<1>15. (((s + Epoch - SecSpace * k) * FracSpace + g) * UsPerSecond * TickNum
             + t * TickDen * FracSpace)
           - (p + WallOffset + Epoch * UsPerSecond) * FracSpace * TickNum
         = (SecSpace * UsPerSecond * FracSpace * TickNum) * (0 - k)
             + (e1 * FracSpace - e2 * TickNum)
  <2>1. t * TickDen * FracSpace = ((p - at) * TickNum + e1) * FracSpace
    BY <1>10, Zenon
  <2>2. g * UsPerSecond * TickNum
           = (((at + WallOffset) - UsPerSecond * s) * FracSpace - e2) * TickNum
    <3>1. g * UsPerSecond = u * FracSpace - e2
      BY <1>7, <1>11, <1>14
    <3>2. u = (at + WallOffset) - UsPerSecond * s
      BY <1>11, <1>14
    <3> QED BY <3>1, <3>2, Zenon
  <2>3. ((s + Epoch - SecSpace * k) * FracSpace + g) * UsPerSecond * TickNum
           = (s + Epoch - SecSpace * k) * FracSpace * UsPerSecond * TickNum
               + g * UsPerSecond * TickNum
    BY <1>7, <1>14
  <2>4. (((s + Epoch - SecSpace * k) * FracSpace * UsPerSecond * TickNum
              + (((at + WallOffset) - UsPerSecond * s) * FracSpace - e2) * TickNum)
            + ((p - at) * TickNum + e1) * FracSpace)
           - (p + WallOffset + Epoch * UsPerSecond) * FracSpace * TickNum
           = (SecSpace * UsPerSecond * FracSpace * TickNum) * (0 - k)
               + (e1 * FracSpace - e2 * TickNum)
    BY <1>14
  <2>5. ((s + Epoch - SecSpace * k) * FracSpace + g) * UsPerSecond * TickNum
           = (s + Epoch - SecSpace * k) * FracSpace * UsPerSecond * TickNum
               + (((at + WallOffset) - UsPerSecond * s) * FracSpace - e2) * TickNum
    BY <2>2, <2>3, Zenon
  <2> QED BY <2>1, <2>4, <2>5, Zenon
<1>16. ((secs * FracSpace + g) * UsPerSecond * TickNum + t * TickDen * FracSpace)
           - (p + WallOffset + Epoch * UsPerSecond) * FracSpace * TickNum
         = (SecSpace * UsPerSecond * FracSpace * TickNum) * (0 - k) + err
  BY <1>8, <1>12, <1>15, Zenon
<1> QED BY <1>2, <1>13, <1>16, Zenon

\* A sender report made at an instant near the last capture places that capture
\* right.
LEMMA PlacedRight ==
  ASSUME NEW at \in Nat, NEW r, base_pts_us \in Nat, pts_us \in Nat,
         base_pts_us <= pts_us, base_pts_us <= at, Near(pts_us - at),
         r.sr.secs = Seconds(at + WallOffset) % SecSpace,
         r.sr.frac = Fraction(at + WallOffset),
         r.sr.rtp_ts = TimestampAt(base_pts_us, at)
  PROVE  SameInstant(r)
<1>1. PICK t : t = TicksAt(base_pts_us, pts_us) - TicksAt(base_pts_us, at)
  BY Zenon
<1>2. Nearest(Stamp - r.sr.rtp_ts, TickSpace) = t
  <2>1. Nearest(TimestampAt(base_pts_us, pts_us) - TimestampAt(base_pts_us, at), TickSpace) = t
    BY <1>1, TicksBetween, Zenon
  <2> QED BY <2>1, Zenon DEF Stamp
<1>3. PICK captured :
         captured = (pts_us + WallOffset + Epoch * UsPerSecond) * FracSpace * TickNum
  BY Zenon
<1>4. PICK k \in Nat, err \in Int :
         /\ -(TickDen * FracSpace + UsPerSecond * TickNum) < err
         /\ err < TickDen * FracSpace + UsPerSecond * TickNum
         /\ ((r.sr.secs * FracSpace + r.sr.frac) * UsPerSecond * TickNum
                 + t * TickDen * FracSpace) - captured
              = (SecSpace * UsPerSecond * FracSpace * TickNum) * (0 - k) + err
  <2>1. \E k \in Nat, err \in Int :
           /\ -(TickDen * FracSpace + UsPerSecond * TickNum) < err
           /\ err < TickDen * FracSpace + UsPerSecond * TickNum
           /\ (((Seconds(at + WallOffset) % SecSpace) * FracSpace + Fraction(at + WallOffset))
                    * UsPerSecond * TickNum
                  + (TicksAt(base_pts_us, pts_us) - TicksAt(base_pts_us, at))
                      * TickDen * FracSpace)
                  - (pts_us + WallOffset + Epoch * UsPerSecond) * FracSpace * TickNum
                = (SecSpace * UsPerSecond * FracSpace * TickNum) * (0 - k) + err
    BY PlacementOff, Zenon
  <2> QED BY <1>1, <1>3, <2>1, Zenon
<1>5. Placed(r) - captured
         = (SecSpace * UsPerSecond * FracSpace * TickNum) * (0 - k) + err
  BY <1>2, <1>4, Zenon DEF Placed
<1>6. Nearest((SecSpace * UsPerSecond * FracSpace * TickNum) * (0 - k) + err,
              SecSpace * UsPerSecond * FracSpace * TickNum) = err
  BY <1>4, PlacementSpace, TurnsDrop, Zenon
<1> QED BY <1>3, <1>4, <1>5, <1>6, Zenon DEF SameInstant

\* The middle 32 bits of the report's time are what ntp_msw computes.
LEMMA MiddleIs ==
  ASSUME NEW wall \in Nat, NEW sr, sr.secs = Seconds(wall) % SecSpace,
         sr.frac = Fraction(wall)
  PROVE  Middle(sr) = NtpMsw(wall)
<1> DEFINE F == FracSpace
           U == UnitsPerSecond
           C == ClockSpace
           S == SecSpace
           G == F \div U
           H == C \div U
           n == Seconds(wall)
           a == n % S
           g == Fraction(wall)
           h == g \div G
           x == a * F + g
           y == a * U + h
           z == (a % H) * U + h
<1>1. /\ F \in Nat /\ F > 0 /\ U \in Nat /\ U > 0 /\ C \in Nat /\ C > 0 /\ S \in Nat /\ S > 0
  BY ClocksRun, TripAssumption
<1>2. F % U = 0 /\ C % U = 0 /\ S % H = 0
  BY TimeAssumption, Zenon
<1>3. F = U * G /\ G \in Nat /\ G > 0
  <2>1. F = U * G + (F % U) /\ G \in Nat
    BY <1>1, Division, Zenon
  <2> HIDE DEF G, F, U
  <2>2. F = U * G
    BY <1>1, <1>2, <2>1
  <2>3. G # 0
    BY <1>1, <2>2
  <2> QED BY <2>1, <2>2, <2>3
<1>4. C = U * H /\ H \in Nat /\ H > 0
  <2>1. C = U * H + (C % U) /\ H \in Nat
    BY <1>1, Division, Zenon
  <2> HIDE DEF H, C, U
  <2>2. C = U * H
    BY <1>1, <1>2, <2>1
  <2>3. H # 0
    BY <1>1, <2>2
  <2> QED BY <2>1, <2>2, <2>3
<1>5. n \in Nat /\ g \in 0..(F - 1)
  BY NtpIs, Zenon
<1> HIDE DEF n, g
<1>6. a \in Nat
  BY <1>1, <1>5, Division
<1>7. a % H = n % H /\ a % H \in 0..(H - 1) /\ a \div H \in Nat /\ a = H * (a \div H) + (a % H)
  <2> HIDE DEF S, H
  <2>1. (n % S) % H = n % H
    <3>1. S \in Nat /\ S > 0 /\ H \in Nat /\ H > 0 /\ n \in Nat
      BY <1>1, <1>4, <1>5, Zenon
    <3>2. S % H = 0
      BY <1>2, Zenon
    <3> HIDE DEF n
    <3> QED BY <3>1, <3>2, RoundsShareSlots, Zenon
  <2>2. a % H \in 0..(H - 1) /\ a \div H \in Nat /\ a = H * (a \div H) + (a % H)
    <3> HIDE DEF a
    <3> QED BY <1>4, <1>6, Division, Zenon
  <2> QED BY <2>1, <2>2, Zenon
<1> HIDE DEF F, U, C, S, G, H, a
<1>8. h \in 0..(U - 1) /\ g = G * h + (g % G) /\ g % G \in 0..(G - 1)
  <2>1. g \in Nat /\ g < U * G
    BY <1>1, <1>3, <1>5
  <2>2. g = G * h + (g % G) /\ g % G \in 0..(G - 1) /\ h \in Nat
    BY <1>3, <2>1, Division, Zenon
  <2> HIDE DEF h
  <2>3. ASSUME h >= U PROVE G * h >= G * U
    BY <1>1, <1>3, <2>2, <2>3
  <2>4. G * U = U * G /\ G * h \in Nat
    BY <1>1, <1>3, <2>2
  <2> QED BY <1>1, <1>3, <2>1, <2>2, <2>3, <2>4
<1> HIDE DEF h
<1>9. x \div G = y
  <2>1. x = G * y + (g % G) /\ y \in Int
    <3>1. a * F = G * (a * U)
      BY <1>1, <1>3, <1>6
    <3>2. G * y = G * (a * U) + G * h
      BY <1>1, <1>3, <1>6, <1>8
    <3>3. a * F \in Nat /\ G * (a * U) \in Nat /\ G * h \in Nat
      BY <1>1, <1>3, <1>6, <1>8
    <3> QED BY <1>1, <1>6, <1>8, <3>1, <3>2, <3>3
  <2>2. x \in Nat
    BY <1>1, <1>5, <1>6
  <2>3. x = G * (x \div G) + (x % G) /\ x % G \in 0..(G - 1) /\ x \div G \in Nat
    <3> HIDE DEF x
    <3> QED BY <1>3, <2>2, Division, Zenon
  <2> DEFINE w == x \div G
             v == x % G
             i == g % G
  <2> HIDE DEF x, y
  <2>4. G * w + v = G * y + i /\ i \in 0..(G - 1) /\ v \in 0..(G - 1)
    BY <1>8, <2>1, <2>3, Zenon
  <2>5. w \in Int
    BY <2>3
  <2> HIDE DEF w, v, i
  <2>6. w = y
    BY <1>3, <2>1, <2>4, <2>5, DivisionIsUnique, Zenon
  <2> QED BY <2>6, Zenon DEF w
<1>10. y % C = z
  <2> DEFINE q == a \div H
             b == a % H
  <2>1. b \in 0..(H - 1) /\ q \in Nat /\ a = H * q + b
    BY <1>7, Zenon
  <2> HIDE DEF q
  <2>2. z \in 0..(C - 1)
    <3> HIDE DEF b
    <3>1. (b + 1) * U <= H * U
      BY <1>1, <1>4, <2>1
    <3>2. b * U \in Nat /\ (b + 1) * U = b * U + U /\ H * U = C
      BY <1>1, <1>4, <2>1
    <3> QED BY <1>1, <1>8, <3>1, <3>2 DEF b
  <2>3. y = C * q + z /\ y \in Int
    <3> HIDE DEF b
    <3>1. a * U = C * q + b * U
      BY <1>1, <1>4, <2>1
    <3>2. a * U \in Nat /\ C * q \in Nat /\ b * U \in Nat
      BY <1>1, <1>6, <2>1
    <3> QED BY <1>8, <3>1, <3>2 DEF b
  <2> HIDE DEF y, z
  <2> QED BY <1>1, <2>1, <2>2, <2>3, RemainderOf
<1>11. Middle(sr) = (x \div G) % C
  BY Zenon DEF Middle, a, g, n, F, U, C, S, G
<1>12. NtpMsw(wall) = (n % H) * U + h
  BY Zenon DEF NtpMsw, h, g, n, F, U, C, G, H
<1> QED BY <1>7, <1>9, <1>10, <1>11, <1>12, Zenon

\* A report against the clocks it was made with: it is near the last capture, and
\* before the next one a known delay behind it.
Timed(r) ==
    /\ r.at \in Nat /\ base_pts_us <= r.at /\ Near(pts_us - r.at)
    /\ unit = <<>> => \E d \in Delays : r.at = pts_us + d
    /\ r.sr.secs = Seconds(r.at + WallOffset) % SecSpace
    /\ r.sr.frac = Fraction(r.at + WallOffset)
    /\ r.sr.rtp_ts = TimestampAt(base_pts_us, r.at)

TimeInv ==
    /\ pts_us \in Nat /\ base_pts_us \in Nat /\ count \in Nat
    /\ have_base => base_pts_us <= pts_us
    /\ FramesSent \/ unit # <<>> => have_base
    /\ packets = count % CountSpace
    /\ \A i \in DOMAIN report :
          /\ have_base /\ Timed(report[i])
          /\ unit = <<>> => report[i].sr.packets = count % CountSpace

\* Near looks both ways.
LEMMA NearBothWays ==
  ASSUME NEW x \in Int, Near(x)
  PROVE  Near(0 - x)
<1> DEFINE w == x * TickNum
<1>1. w \in Int /\ (0 - x) * TickNum = 0 - w /\ TickDen \in Nat
  BY ClocksRun
<1>2. TickSpace * TickDen \in Int
  BY ClocksRun
<1> DEFINE z == TickSpace * TickDen
<1>3. 2 * (w + TickDen) <= z /\ 2 * (TickDen - w) <= z
  BY Zenon DEF Near
<1> HIDE DEF w, z
<1>4. 2 * ((0 - w) + TickDen) <= z /\ 2 * (TickDen - (0 - w)) <= z
  BY <1>1, <1>2, <1>3 DEF z
<1> QED BY <1>1, <1>4, Zenon DEF Near, z

\* rtc_session_tick makes the report from the clock it has just read.
LEMMA SenderReportIsTimed ==
  ASSUME TimeInv, NEW delay \in Delays, SenderReport(delay)
  PROVE  TimeInv'
<1> DEFINE at == pts_us + delay
           wall == at + WallOffset
<1>1. /\ unit = <<>> /\ FramesSent
      /\ unit' = unit /\ pts_us' = pts_us /\ base_pts_us' = base_pts_us
      /\ have_base' = have_base /\ count' = count /\ packets' = packets
  BY Zenon DEF SenderReport, loop, numbers
<1>2. PICK new : /\ new = [at |-> at, sr |-> BuildSenderReport(wall, ReportTimestamp(at),
                                                               packets, octets)]
                 /\ report' = <<new>>
  BY Zenon DEF SenderReport
<1>3. pts_us \in Nat /\ base_pts_us \in Nat /\ have_base /\ base_pts_us <= pts_us
        /\ packets = count % CountSpace
  BY <1>1, Zenon DEF TimeInv
<1>4. delay \in Nat /\ Near(delay)
  BY TimeAssumption, Zenon
<1>5. at \in Nat /\ base_pts_us <= at /\ pts_us - at = 0 - delay
  BY <1>3, <1>4
<1>6. Near(pts_us - at)
  <2>1. delay \in Int
    BY <1>4
  <2> QED BY <1>4, <1>5, <2>1, NearBothWays, Zenon
<1>7. /\ new.at = at /\ new.sr.secs = Seconds(wall) % SecSpace
      /\ new.sr.frac = Fraction(wall) /\ new.sr.rtp_ts = TimestampAt(base_pts_us, at)
      /\ new.sr.packets = packets
  <2>1. ReportTimestamp(at) = TimestampAt(base_pts_us, at)
    BY <1>3, Zenon DEF ReportTimestamp
  <2> HIDE DEF at, wall
  <2> QED BY <1>2, <2>1 DEF BuildSenderReport
<1> HIDE DEF at
<1>8. Timed(new)'
  BY <1>1, <1>5, <1>6, <1>7, Zenon DEF Timed, at
<1>9. \A i \in DOMAIN report' : report'[i] = new
  BY <1>2
<1>10. /\ (FramesSent \/ unit # <<>> => have_base)'
       /\ (pts_us \in Nat /\ base_pts_us \in Nat /\ count \in Nat)'
       /\ (have_base => base_pts_us <= pts_us)'
       /\ (packets = count % CountSpace)'
  BY <1>1, <1>3, Zenon DEF TimeInv, FramesSent
<1>11. ASSUME NEW i \in DOMAIN report'
       PROVE  /\ have_base' /\ Timed(report[i])'
              /\ unit' = <<>> => report'[i].sr.packets = count' % CountSpace
  <2>1. report'[i] = new
    BY <1>9, <1>11, Zenon
  <2>2. Timed(report[i])'
    BY <1>8, <2>1, Zenon DEF Timed
  <2> QED BY <1>1, <1>3, <1>7, <2>1, <2>2, Zenon
<1> QED BY <1>10, <1>11, Zenon DEF TimeInv

\* The next access unit is captured FrameGap later, and the timeline keeps the base
\* it has.
LEMMA SendIsTimed ==
  ASSUME TimeInv, NEW u \in Units, SendAccessUnit(u)
  PROVE  TimeInv'
<1>1. /\ unit = <<>> /\ unit' = u.bytes /\ pts_us' = pts_us + FrameGap /\ have_base'
      /\ base_pts_us' = IF have_base THEN base_pts_us ELSE pts_us'
      /\ count' = count /\ packets' = packets /\ report' = report
  BY Zenon DEF SendAccessUnit, numbers
<1>2. unit' # <<>>
  BY <1>1, TimeAssumption, Zenon
<1>3. /\ pts_us \in Nat /\ base_pts_us \in Nat /\ count \in Nat
      /\ have_base => base_pts_us <= pts_us
      /\ packets = count % CountSpace
  BY Zenon DEF TimeInv
<1>4. /\ pts_us' \in Nat /\ base_pts_us' \in Nat /\ base_pts_us' <= pts_us'
  BY <1>1, <1>3, ClocksRun
<1>5. ASSUME NEW i \in DOMAIN report'
      PROVE  Timed(report[i])'
  <2> DEFINE r == report[i]
  <2>1. have_base /\ Timed(r) /\ r = report'[i]
    BY <1>1, <1>5, Zenon DEF TimeInv
  <2>2. base_pts_us' = base_pts_us
    BY <1>1, <2>1, Zenon
  <2>3. PICK d \in Delays : r.at = pts_us + d
    BY <1>1, <2>1, Zenon DEF Timed
  <2>4. d \in Nat /\ Near(FrameGap - d)
    BY TimeAssumption, Zenon
  <2>5. pts_us' - r.at = FrameGap - d
    BY <1>1, <1>3, <2>3, <2>4, ClocksRun
  <2>6. Near(pts_us' - r.at)
    BY <2>4, <2>5, Zenon
  <2> HIDE DEF r
  <2> QED BY <1>2, <2>1, <2>2, <2>6, Zenon DEF Timed
<1> QED BY <1>1, <1>2, <1>3, <1>4, <1>5, Zenon DEF TimeInv, FramesSent

\* The loop of the packetizer numbers packets and leaves the timeline alone.
LEMMA EmitIsTimed ==
  ASSUME TimeInv, unit # <<>>, UNCHANGED <<unit, timeline>>,
         \/ count' = count /\ packets' = packets
         \/ count' = count + 1 /\ packets' = (packets + 1) % CountSpace
  PROVE  TimeInv'
<1>1. /\ unit' = unit /\ pts_us' = pts_us /\ base_pts_us' = base_pts_us
      /\ have_base' = have_base /\ report' = report
  BY Zenon DEF timeline
<1>2. count \in Nat /\ packets = count % CountSpace
  BY Zenon DEF TimeInv
<1>3. count' \in Nat /\ packets' = count' % CountSpace
  <2>1. CountSpace \in Nat /\ CountSpace > 0
    BY ClocksRun, Zenon
  <2>2. ((count % CountSpace) + 1) % CountSpace = (count + 1) % CountSpace
    BY <1>2, <2>1, WrapsWithIt, Zenon
  <2>3. CASE count' = count /\ packets' = packets
    BY <1>2, <2>3, Zenon
  <2>4. CASE count' = count + 1 /\ packets' = (packets + 1) % CountSpace
    <3>1. packets' = (count + 1) % CountSpace
      BY <1>2, <2>2, <2>4, Zenon
    <3>2. count + 1 \in Nat
      BY <1>2
    <3> QED BY <2>4, <3>1, <3>2, Zenon
  <2> QED BY <2>3, <2>4, Zenon
<1>4. \A i \in DOMAIN report' : Timed(report[i])'
  BY <1>1, Zenon DEF TimeInv, Timed
<1>5. have_base
  BY Zenon DEF TimeInv
<1> QED BY <1>1, <1>3, <1>4, <1>5, Zenon DEF TimeInv

\* Every step keeps the times.
LEMMA TimeKept == TimeInv /\ [Next]_vars => TimeInv'
<1> SUFFICES ASSUME TimeInv, [Next]_vars PROVE TimeInv'
  BY Zenon
<1>a. ASSUME UNCHANGED <<unit, count, packets, timeline>> PROVE TimeInv'
  <2>1. /\ unit' = unit /\ pts_us' = pts_us /\ base_pts_us' = base_pts_us
        /\ have_base' = have_base /\ report' = report /\ count' = count
        /\ packets' = packets
    BY <1>a, Zenon DEF timeline
  <2>2. \A i \in DOMAIN report' : Timed(report[i])'
    BY <2>1, Zenon DEF TimeInv, Timed
  <2> QED BY <2>1, <2>2, Zenon DEF TimeInv, FramesSent
<1>1. ASSUME NEW u \in Units, SendAccessUnit(u) PROVE TimeInv'
  BY <1>1, SendIsTimed, Zenon
<1>2. CASE SkipEmpty
  BY <1>a, <1>2, Zenon DEF SkipEmpty, numbers
<1>3. CASE Sink
  BY <1>3, EmitIsTimed DEF Sink, Emit, InLoop
<1>4. CASE SinkFails
  BY <1>4, EmitIsTimed, Zenon DEF SinkFails, Emit, InLoop
<1>5. CASE Return
  <2>1. /\ unit # <<>> /\ unit' = <<>> /\ report' = <<>> /\ pts_us' = pts_us
        /\ base_pts_us' = base_pts_us /\ have_base' = have_base /\ count' = count
        /\ packets' = packets
    BY <1>5, Zenon DEF Return, numbers
  <2>2. DOMAIN report' = {}
    BY <2>1
  <2> QED BY <2>1, <2>2, Zenon DEF TimeInv, FramesSent
<1>6. ASSUME NEW delay \in Delays, SenderReport(delay) PROVE TimeInv'
  BY <1>6, SenderReportIsTimed, Zenon
<1>7. ASSUME NEW d \in Datagrams, OnRtcp(d.arrival.compound, d.arrival.trip, d.read)
      PROVE  TimeInv'
  BY <1>a, <1>7 DEF OnRtcp, loop, numbers
<1>8. CASE UNCHANGED vars
  BY <1>a, <1>8, Zenon DEF vars, loop, numbers
<1> QED BY <1>1, <1>2, <1>3, <1>4, <1>5, <1>6, <1>7, <1>8, Zenon DEF Next

\* rtc_session_create: nothing sent, nothing reported.
LEMMA TimeStarts == Init => TimeInv
<1> SUFFICES ASSUME Init PROVE TimeInv
  BY Zenon
<1>1. 0 % CountSpace = 0
  BY ClocksRun
<1>2. DOMAIN report = {} /\ ~FramesSent
  BY DEF Init, FramesSent
<1> QED BY <1>1, <1>2 DEF Init, TimeInv

\* From the clocks to what the receiver makes of them.
LEMMA TimedFromInv == TimeInv => ReportIsTimed /\ PacketsAreCounted
<1> SUFFICES ASSUME TimeInv PROVE ReportIsTimed /\ PacketsAreCounted
  BY Zenon
<1>1. ASSUME NEW i \in DOMAIN report
      PROVE  /\ SameInstant(report[i])
             /\ Middle(report[i].sr) = NtpMsw(report[i].at + WallOffset)
  <2>1. have_base /\ Timed(report[i])
    BY <1>1, Zenon DEF TimeInv
  <2> DEFINE r == report[i]
             at == r.at
  <2>2. /\ at \in Nat /\ base_pts_us <= at /\ Near(pts_us - at)
        /\ r.sr.secs = Seconds(at + WallOffset) % SecSpace
        /\ r.sr.frac = Fraction(at + WallOffset)
        /\ r.sr.rtp_ts = TimestampAt(base_pts_us, at)
    BY <2>1, Zenon DEF Timed
  <2>3. base_pts_us \in Nat /\ pts_us \in Nat /\ base_pts_us <= pts_us
    BY <2>1, Zenon DEF TimeInv
  <2> HIDE DEF r, at
  <2>4. SameInstant(r)
    BY <2>2, <2>3, PlacedRight, Zenon
  <2>5. at + WallOffset \in Nat
    BY <2>2, ClocksRun
  <2>6. Middle(r.sr) = NtpMsw(at + WallOffset)
    BY <2>2, <2>5, MiddleIs, Zenon
  <2> QED BY <2>4, <2>6, Zenon DEF r, at
<1> QED BY <1>1, Zenon DEF ReportIsTimed, PacketsAreCounted, TimeInv

\* A sender report places the access units around it at their capture, and its
\* middle 32 bits are ntp_msw's, for clocks of every width and rate and wherever
\* they wrap.
THEOREM ReportsKeepTime == Spec => []ReportIsTimed
<1>1. TimeInv /\ [Next]_vars => TimeInv'
  BY TimeKept, Zenon
<1>2. TimeInv => ReportIsTimed
  BY TimedFromInv, Zenon
<1> QED BY <1>1, <1>2, TimeStarts, PTL DEF Spec

\* A sender report counts every packet numbered, sent or not, wherever the counter
\* wraps.
THEOREM ReportsCountPackets == Spec => []PacketsAreCounted
<1>1. TimeInv /\ [Next]_vars => TimeInv'
  BY TimeKept, Zenon
<1>2. TimeInv => PacketsAreCounted
  BY TimedFromInv, Zenon
<1> QED BY <1>1, <1>2, TimeStarts, PTL DEF Spec
=============================================================================
