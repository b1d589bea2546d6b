------------------------------- MODULE LpStream -------------------------------
(***************************************************************************)
(* The libpeer server (src/lpstream/lp_server.c, lp_session.c): one thread *)
(* per viewer, a media thread that hands every access unit to every        *)
(* viewer's mailbox as a reference counted frame, and the main thread,     *)
(* which creates, answers, closes, reaps and finally destroys sessions.    *)
(*                                                                         *)
(* A step is what runs under one lock or between two of them.  A frame is  *)
(* its access unit's number and kind; libpeer is external: its loop moves  *)
(* the connection state as it likes.  The pipeline itself is the subject of *)
(* module Supervisor; here access units just arrive, and some are lost on  *)
(* the way (an encoder output larger than a ring slot), the next one       *)
(* carrying the discontinuity flag.                                        *)
(***************************************************************************)
EXTENDS LpSdp, FiniteSets

CONSTANTS MaxSlots,     \* LP_MAX_SESSIONS
          Mailbox,      \* LP_SESSION_MAILBOX
          MaxUnits,     \* bound: access units
          MaxSessions,  \* bound: sessions created
          MaxLosses,    \* bound: units lost before or in the media thread
          Answers,      \* what browsers may post as their answer
          MaxListed,    \* bound: candidates of an answer
          AnswerTimeout, ConnectTimeout  \* LP_SESSION_..._TIMEOUT_MS in ticks

ASSUME StreamAssumption ==
    /\ MaxSlots \in Nat /\ Mailbox \in Nat \ {0}
    /\ MaxUnits \in Nat /\ AnswerTimeout \in Nat /\ ConnectTimeout \in Nat

VARIABLES
    table,       \* sessions[i] != NULL
    sess,        \* the session object of slot i
    slock,       \* who holds sessions_lock
    media,       \* the media thread
    main,        \* the main thread
    refs,        \* refs[n]: the reference count of the frame of the n-th unit
    losses,      \* units lost so far
    created,     \* next_session_id
    force_idr,
    media_active

vars == <<table, sess, slock, media, main, refs, losses, created,
          force_idr, media_active>>

Slots == 1..MaxSlots
Units == DOMAIN refs

\* An access unit, and the frame made of it.
NoUnit == [nr |-> 0, idr |-> FALSE]

NoSession ==
    [mem |-> "none", at |-> "done", state |-> "new", answer |-> FALSE,
     taken |-> FALSE, got |-> FALSE, stop |-> FALSE, resync |-> FALSE,
     queue |-> <<>>, batch |-> <<>>, connected |-> FALSE, finished |-> FALSE,
     waiting |-> FALSE, age |-> 0, last |-> 0]

NewSession == [NoSession EXCEPT !.mem = "live", !.at = "top"]

Init ==
    /\ table = [i \in Slots |-> FALSE]
    /\ sess = [i \in Slots |-> NoSession]
    /\ slock = "free"
    /\ media = [at |-> "poll", slot |-> 0, unit |-> NoUnit, flag |-> FALSE,
                frame |-> FALSE, gap |-> FALSE]
    /\ main = [at |-> "loop", slot |-> 0]
    /\ refs = <<>>
    /\ losses = 0 /\ created = 0
    /\ force_idr = FALSE /\ media_active = FALSE

Set(i, r) == sess' = [sess EXCEPT ![i] = r]

\* lp_frame_unref on every frame of a sequence.
Unref(fs) == [n \in Units |-> refs[n] - Cardinality({k \in DOMAIN fs : fs[k].nr = n})]

-----------------------------------------------------------------------------
(* media_thread *)

\* au_ring_pop: the next unit, IDR when one was asked for or is due.
Pop ==
    /\ media.at = "poll"
    /\ Len(refs) < MaxUnits
    /\ \E b \in BOOLEAN :
          /\ force_idr => b
          /\ refs' = Append(refs, 0)
          /\ force_idr' = FALSE
          /\ \/ media' = [media EXCEPT !.at = "lock",
                                       !.unit = [nr |-> Len(refs) + 1, idr |-> b],
                                       !.flag = media.gap, !.gap = FALSE]
                /\ UNCHANGED losses
             \/ /\ losses < MaxLosses
                /\ losses' = losses + 1
                /\ media' = [media EXCEPT !.gap = TRUE]
    /\ UNCHANGED <<table, sess, slock, main, created, media_active>>

MediaLock ==
    /\ media.at = "lock" /\ slock = "free"
    /\ slock' = "media"
    /\ media' = [media EXCEPT !.at = "slot", !.slot = 1, !.frame = FALSE]
    /\ UNCHANGED <<table, sess, main, refs, losses, created, force_idr,
                   media_active>>

\* The head of the loop over the slots; the first viewer makes the frame, or no
\* viewer gets one when lp_frame_create returns NULL.
MediaSlot ==
    /\ media.at = "slot" /\ media.slot \in Slots
    /\ IF ~table[media.slot] \/ sess[media.slot].finished
       THEN /\ media' = [media EXCEPT !.slot = @ + 1]
            /\ UNCHANGED <<refs, losses>>
       ELSE \/ /\ media' = [media EXCEPT !.frame = TRUE,
                               !.at = IF media.flag THEN "resync" ELSE "push"]
               /\ UNCHANGED losses
               /\ refs' = IF media.frame THEN refs
                          ELSE [refs EXCEPT ![media.unit.nr] = 1]
            \/ /\ ~media.frame /\ losses < MaxLosses
               /\ losses' = losses + 1
               /\ media' = [media EXCEPT !.slot = MaxSlots + 1]
               /\ UNCHANGED refs
    /\ UNCHANGED <<table, sess, slock, main, created, force_idr, media_active>>

\* lp_session_resync
Resync ==
    /\ media.at = "resync"
    /\ Set(media.slot, [sess[media.slot] EXCEPT !.resync = TRUE])
    /\ media' = [media EXCEPT !.at = "push"]
    /\ UNCHANGED <<table, slock, main, refs, losses, created, force_idr,
                   media_active>>

FullMailbox(s) == Len(s.queue) = Mailbox

\* Slip: a flushed mailbox does not ask for a resync.
MutResyncAfterFlush(s) == s.resync
ResyncAfterFlush(s) == s.resync \/ FullMailbox(s)

PushRefs(flushed) == [Unref(flushed) EXCEPT ![media.unit.nr] = @ + 1]

\* lp_session_push_frame: a full mailbox is flushed first.
Push ==
    /\ media.at = "push"
    /\ LET s == sess[media.slot]
           flushed == IF FullMailbox(s) THEN s.queue ELSE <<>>
           kept == IF FullMailbox(s) THEN <<>> ELSE s.queue
       IN IF s.stop \/ s.finished
          THEN UNCHANGED <<sess, refs>>
          ELSE /\ Set(media.slot, [s EXCEPT !.queue = Append(kept, media.unit),
                                            !.resync = ResyncAfterFlush(s)])
               /\ refs' = PushRefs(flushed)
    /\ media' = [media EXCEPT !.at = "slot", !.slot = @ + 1]
    /\ UNCHANGED <<table, slock, main, losses, created, force_idr,
                   media_active>>

\* Unlock, and drop the media thread's own reference.
MediaUnlock ==
    /\ media.at = "slot" /\ media.slot \notin Slots
    /\ slock' = "free"
    /\ refs' = IF media.frame THEN Unref(<<media.unit>>) ELSE refs
    /\ media' = [media EXCEPT !.at = "poll", !.slot = 0, !.unit = NoUnit,
                              !.flag = FALSE, !.frame = FALSE]
    /\ UNCHANGED <<table, sess, main, losses, created, force_idr,
                   media_active>>

MediaStop ==
    /\ media.at = "poll" /\ main.at = "join_media"
    /\ media' = [media EXCEPT !.at = "done"]
    /\ UNCHANGED <<table, sess, slock, main, refs, losses, created,
                   force_idr, media_active>>

Media == Pop \/ MediaLock \/ MediaSlot \/ Resync \/ Push \/ MediaUnlock \/ MediaStop

-----------------------------------------------------------------------------
(* session_thread of slot i *)

others == <<table, slock, media, main, losses, created, media_active>>

Emptied(s) == [s EXCEPT !.queue = <<>>, !.resync = FALSE]

\* The head of the loop: stop_requested, then by connection state.
ThTop(i) ==
    LET s == sess[i] IN
    /\ s.at = "top"
    /\ Set(i, [s EXCEPT !.at =
                  IF s.stop THEN "end"
                  ELSE IF s.state = "new" THEN "wait"
                  ELSE IF s.state \in {"checking", "connected"} THEN "loop"
                  ELSE "end"])
    /\ UNCHANGED <<others, refs, force_idr>>

\* wait_for_answer returns the answer, or nothing after 50 ms or a stop.
ThWait(i) ==
    LET s == sess[i] IN
    /\ s.at = "wait"
    /\ Set(i, [s EXCEPT !.at = "drop", !.got = s.answer, !.answer = FALSE])
    /\ UNCHANGED <<others, refs, force_idr>>

\* drop_frames, then apply the answer or give up on it.
ThAnswer(i) ==
    LET s == [Emptied(sess[i]) EXCEPT !.got = FALSE] IN
    /\ s.at = "drop"
    /\ refs' = Unref(sess[i].queue)
    /\ IF sess[i].got
       THEN \E st \in {"new", "checking"} :
               Set(i, [s EXCEPT !.at = "top", !.state = st,
                                !.age = IF st = "new" THEN @ ELSE 0])
       ELSE Set(i, [s EXCEPT !.at = IF s.age > AnswerTimeout THEN "end" ELSE "top"])
    /\ UNCHANGED <<others, force_idr>>

\* peer_connection_loop, with its callbacks on_state_change and
\* on_request_keyframe.
ThLoop(i) ==
    LET s == sess[i] IN
    /\ s.at = "loop"
    /\ \E st \in {s.state, "connected", "failed", "closed"} :
          Set(i, [s EXCEPT !.at = "after", !.state = st])
    /\ force_idr' \in {force_idr, sess[i].state = "connected" \/ force_idr}
    /\ UNCHANGED <<others, refs>>

NowWaiting(s) == s.waiting \/ s.resync \/ ~s.connected

\* Connected: note it the first time, then take_frames; a resync or a new
\* viewer asks for an IDR and waits for it.
ThTake(i) ==
    LET s == sess[i] IN
    /\ s.at = "after" /\ s.state = "connected"
    /\ Set(i, [Emptied(s) EXCEPT !.at = "send", !.batch = s.queue,
                                 !.connected = TRUE, !.waiting = NowWaiting(s)])
    /\ force_idr' = (force_idr \/ ~s.connected \/ (s.resync /\ ~s.waiting))
    /\ UNCHANGED <<others, refs>>

\* Slip: there is no limit on the time in CHECKING.
MutConnectExpired(s) == FALSE
ConnectExpired(s) == s.state = "checking" /\ s.age > ConnectTimeout

\* Not connected (yet): drop_frames, give up after the timeout.
ThNotConnected(i) ==
    LET s == sess[i] IN
    /\ s.at = "after" /\ s.state # "connected"
    /\ refs' = Unref(s.queue)
    /\ Set(i, [Emptied(s) EXCEPT !.at =
                  IF ConnectExpired(s) THEN "end" ELSE "top"])
    /\ UNCHANGED <<others, force_idr>>

SentRefs(frame) == Unref(<<frame>>)

\* The loop of send_frames: skip until an IDR, hand over the rest.
ThSend(i) ==
    LET s == sess[i] IN
    /\ s.at = "send" /\ s.batch # <<>>
    /\ LET frame == Head(s.batch)
           skip == s.waiting /\ ~frame.idr
       IN /\ Set(i, [s EXCEPT !.batch = Tail(@),
                              !.waiting = skip,
                              !.last = IF skip THEN @ ELSE frame.nr])
          /\ refs' = IF skip THEN Unref(<<frame>>) ELSE SentRefs(frame)
    /\ UNCHANGED <<others, force_idr>>

ThSent(i) ==
    LET s == sess[i] IN
    /\ s.at = "send" /\ s.batch = <<>>
    /\ Set(i, [s EXCEPT !.at = "top"])
    /\ UNCHANGED <<others, refs, force_idr>>

\* The way out: drop_frames and destroy the connection, then "finished".
ThEnd(i) ==
    LET s == sess[i] IN
    /\ s.at = "end"
    /\ refs' = Unref(s.queue)
    /\ Set(i, [Emptied(s) EXCEPT !.at = "finish"])
    /\ UNCHANGED <<others, force_idr>>

ThFinish(i) ==
    LET s == sess[i] IN
    /\ s.at = "finish"
    /\ Set(i, [s EXCEPT !.at = "done", !.finished = TRUE])
    /\ UNCHANGED <<others, refs, force_idr>>

Thread(i) ==
    \/ ThTop(i) \/ ThWait(i) \/ ThAnswer(i) \/ ThLoop(i) \/ ThTake(i)
    \/ ThNotConnected(i) \/ ThSend(i) \/ ThSent(i) \/ ThEnd(i) \/ ThFinish(i)

-----------------------------------------------------------------------------
(* The main thread: HTTP handlers, reap_sessions, shutdown *)

\* handle_session_create: the session's thread runs before it is in the table.
Create(i) ==
    /\ main.at = "loop"
    /\ ~table[i] /\ \A j \in 1..(i - 1) : table[j]
    /\ created < MaxSessions
    /\ created' = created + 1
    /\ Set(i, NewSession)
    /\ main' = [at |-> "insert", slot |-> i]
    /\ UNCHANGED <<table, slock, media, refs, losses, force_idr, media_active>>

Insert ==
    /\ main.at = "insert" /\ slock = "free"
    /\ table' = [table EXCEPT ![main.slot] = TRUE]
    /\ media_active' = TRUE
    /\ main' = [at |-> "loop", slot |-> 0]
    /\ UNCHANGED <<sess, slock, media, refs, losses, created, force_idr>>

CanAnswer(s) == ~s.taken /\ ~s.stop /\ ~s.finished

\* lp_session_set_answer: the first answer is the one.
SetAnswer(s) == IF CanAnswer(s) THEN [s EXCEPT !.answer = TRUE, !.taken = TRUE] ELSE s

\* lp_session_close
Stopped(s) == [s EXCEPT !.stop = TRUE]

\* Whether libpeer could read what is posted.
Verdicts == {lp_sdp_sanitize_answer(answer).ok : answer \in Answers}

\* handle_session_answer: an answer libpeer could not read ends the session, also
\* one that already has an answer.
Answer(i) ==
    /\ main.at = "loop" /\ table[i] /\ ~sess[i].finished
    /\ \E readable \in Verdicts :
          Set(i, IF readable THEN SetAnswer(sess[i]) ELSE Stopped(sess[i]))
    /\ UNCHANGED <<table, slock, media, main, refs, losses, created,
                   force_idr, media_active>>

\* handle_session_close
Close(i) ==
    /\ main.at = "loop" /\ table[i]
    /\ Set(i, Stopped(sess[i]))
    /\ UNCHANGED <<table, slock, media, main, refs, losses, created,
                   force_idr, media_active>>

\* Slip: the session is taken from the table without the lock.
MutMayRemove == TRUE
MayRemove == slock = "free"

\* reap_sessions: out of the table under the lock, then join and free.
ReapRemove(i) ==
    /\ main.at = "loop" /\ table[i] /\ sess[i].finished
    /\ MayRemove
    /\ table' = [table EXCEPT ![i] = FALSE]
    /\ main' = [at |-> "destroy", slot |-> i]
    /\ UNCHANGED <<sess, slock, media, refs, losses, created, force_idr,
                   media_active>>

DestroyRefs(i) == Unref(sess[i].queue)

\* lp_session_destroy joins the thread, releases what is queued and frees.
Destroy(i) ==
    /\ sess[i].at = "done"
    /\ refs' = DestroyRefs(i)
    /\ Set(i, NoSession)

ReapDestroy ==
    /\ main.at = "destroy"
    /\ Destroy(main.slot)
    /\ main' = [at |-> "loop", slot |-> 0]
    /\ media_active' = \E j \in Slots : table[j] /\ ~sess[j].finished
    /\ UNCHANGED <<table, slock, media, losses, created, force_idr>>

\* The end of lp_server_run: close all, stop the pipeline, destroy all.
Quit ==
    /\ main.at = "loop"
    /\ sess' = [i \in Slots |-> IF table[i] THEN [sess[i] EXCEPT !.stop = TRUE]
                                ELSE sess[i]]
    /\ main' = [at |-> "join_media", slot |-> 0]
    /\ UNCHANGED <<table, slock, media, refs, losses, created, force_idr,
                   media_active>>

JoinMedia ==
    /\ main.at = "join_media" /\ media.at = "done"
    /\ main' = [at |-> "quit", slot |-> 1]
    /\ UNCHANGED <<table, sess, slock, media, refs, losses, created,
                   force_idr, media_active>>

QuitDestroy ==
    /\ main.at = "quit" /\ main.slot \in Slots
    /\ IF table[main.slot]
       THEN Destroy(main.slot) /\ table' = [table EXCEPT ![main.slot] = FALSE]
       ELSE UNCHANGED <<table, sess, refs>>
    /\ main' = [main EXCEPT !.slot = @ + 1]
    /\ UNCHANGED <<slock, media, losses, created, force_idr, media_active>>

Main == \/ Insert \/ ReapDestroy \/ JoinMedia \/ QuitDestroy
        \/ \E i \in Slots : ReapRemove(i)

\* A session's clock, while it is compared: its age before the answer, the time
\* since the answer after it.
Tick(i) ==
    /\ sess[i].mem = "live" /\ ~sess[i].finished
    /\ sess[i].state \in {"new", "checking"}
    /\ sess[i].age <= IF sess[i].state = "new" THEN AnswerTimeout ELSE ConnectTimeout
    /\ Set(i, [sess[i] EXCEPT !.age = @ + 1])
    /\ UNCHANGED <<others, refs, force_idr>>

Done == main = [at |-> "quit", slot |-> MaxSlots + 1] /\ UNCHANGED vars

Next ==
    \/ Media
    \/ Main
    \/ Quit
    \/ \E i \in Slots : \/ Thread(i) \/ Create(i) \/ Answer(i)
                        \/ Close(i) \/ Tick(i)
    \/ Done

Spec == Init /\ [][Next]_vars

\* Every thread is scheduled, libpeer's calls return, and time passes.
FairSpec ==
    /\ Spec
    /\ WF_vars(Media) /\ WF_vars(Main)
    /\ \A i \in Slots : WF_vars(Thread(i)) /\ WF_vars(Tick(i))

-----------------------------------------------------------------------------
\* The types of the sessions, their mailboxes and the frames' counters
\* (LpSession, LpFrame).
TypeOK ==
    /\ table \in [Slots -> BOOLEAN]
    /\ \A i \in Slots :
          /\ sess[i].mem \in {"none", "live"}
          /\ sess[i].at \in {"top", "wait", "drop", "loop", "after", "send",
                             "end", "finish", "done"}
          /\ sess[i].state \in {"new", "checking", "connected", "failed", "closed"}
          /\ Len(sess[i].queue) <= Mailbox /\ Len(sess[i].batch) <= Mailbox
          /\ sess[i].last \in 0..MaxUnits
    /\ slock \in {"free", "media"}
    /\ refs \in Seq(Nat)
    /\ force_idr \in BOOLEAN /\ media_active \in BOOLEAN

\* The places of mailboxes and batches where the frame of the n-th unit is.
Kept(i, box) == IF box = "queue" THEN sess[i].queue ELSE sess[i].batch
Places(n) ==
    {p \in Slots \X {"queue", "batch"} \X (1..Mailbox) :
        p[3] \in DOMAIN Kept(p[1], p[2]) /\ Kept(p[1], p[2])[p[3]].nr = n}

Holders(n) == Cardinality(Places(n)) + IF media.frame /\ media.unit.nr = n THEN 1 ELSE 0

\* What lp_sdp_sanitize_answer makes of any bounded answer.
AnswersAreSafe == \A answer \in AnswersWith(MaxListed) : SafeForLibpeer(answer)

\* A frame's count is exactly the number of mailboxes, batches and threads that
\* hold it, through flushes, closes and shutdown: nobody reads a frame that was
\* freed (lp_frame_ref, lp_frame_unref).  And when lp_server_run returns, every
\* session and every frame is gone.  The media thread never touches a session
\* that was freed either: one it found in the table stays until it lets go of
\* sessions_lock (reap_sessions).  Nor does libpeer get an answer its parser has
\* no room for (lp_sdp_sanitize_answer).  The types hold throughout.
RefsExact ==
    /\ TypeOK
    /\ Init => AnswersAreSafe
    /\ media.at \in {"resync", "push"} => sess[media.slot].mem = "live"
    /\ \A n \in Units : refs[n] = Holders(n)
    /\ main = [at |-> "quit", slot |-> MaxSlots + 1]
         => /\ \A i \in Slots : sess[i].mem = "none"
            /\ \A n \in Units : refs[n] = 0

\* "A viewer starts, and restarts after any loss, on an IDR frame"
\* (lp_session.h): a frame handed to libpeer is an IDR or directly follows the
\* frame handed over before it, however mailboxes overflow and whenever the
\* viewer connects.  Units that are lost before they reach a mailbox are left
\* out.
RestartsOnIdr ==
    [][\A i \in Slots :
          losses = 0 /\ sess'[i].last \notin {0, sess[i].last}
            => Head(sess[i].batch).idr \/ sess'[i].last = sess[i].last + 1]_vars

\* A viewer that never answers, never connects or whose connection ends does
\* not keep its slot: every session connects or ends (session_thread).
Settles ==
    \A i \in Slots : sess[i].mem = "live" ~> sess[i].state = "connected"
                                              \/ sess[i].mem = "none"
=============================================================================
