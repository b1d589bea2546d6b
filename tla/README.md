# camstream: a verification project in TLA+

camstream captures video from a camera, encodes it as H.264 and streams it to
browsers over WebRTC. Two servers share the media code: `camstream`, with its
own WebRTC stack, and `camstream-libpeer`, which uses libpeer. This directory
holds TLA+ modules that model the program, above all where steps of several
threads, timers, peers or devices meet; TLC configurations that check them on
small instances; and proofs, checked by TLAPS, that the ring of encoded units,
the pool of raw frames, the retransmission cache and the table of viewers are
correct for every size, that a session ends once and sends media only to its own
browser, that what the RTP sender answers and reports is right wherever its
numbers and clocks wrap, that the threads of the libpeer server count their shared
frames and restart viewers on keyframes, that keyframe requests survive the way
through the media pipeline, and that the supervisor never leaves a half-built
pipeline behind.

`PROJECT.json` is the index: the source lines every definition translates, the
runs, the slips (see "Slips") each property was tested with, the hazards, the
findings and the theorems. Paths below are relative to the repository.

Contents: [the system](#the-system) · [modules](#modules) · [runs](#runs) ·
[bounds](#bounds) · [fairness](#fairness) · [proofs](#proofs) ·
[where code and documentation disagree](#where-code-and-documentation-disagree) ·
[slips](#slips) · [not modelled](#not-modelled) · [plan](#plan)

## The system

Three threads run in `camstream`.

| thread | code | does |
|---|---|---|
| capture | `media/source_worker.c` with a source: `v4l2_source.c`, `csi_source.c`, `test_source.c` | captures a frame, converts it, publishes it |
| encode | `media/encoder_worker.c` with `h264_encoder.c` over `encoder_v4l2m2m.c` or `encoder_x264.c` | takes the newest frame, encodes it, pushes the access unit |
| main | `app/app_server.c` with `webrtc/*`, `net/mdns.c`, mongoose | HTTP, UDP, ticks, fan-out to viewers, reaping, supervision of the other two |

`camstream-libpeer` (`lpstream/lp_server.c`, `lp_session.c`) keeps capture and
encode, moves the fan-out to a media thread, and adds a thread per viewer.

What flows between them, and the state each part keeps:

| part | state | operations | meets | hard because |
|---|---|---|---|---|
| frame pool and hub | reference counts, a one-frame mailbox per consumer | acquire, ref, unref, publish, take, unsubscribe, destroy | capture, encode, main | counts change under different locks; teardown while both threads hold frames |
| AU ring | slots, head, tail, count, lost, eventfd | push, pop | encode, main (or media) | overwrites its oldest unit; the eventfd is written after the unlock |
| encode worker | `force_idr`, `media_active`, pending bitrate, failed, stalled | loop, request keyframe, set bitrate | encode, main | one atomic taken at the top of an iteration, restored at the bottom |
| pipeline supervisor | six objects, retry time, failure count, encoder override | start, unwind, stop, supervise, restart | all three | threads fail during building and teardown |
| session table | slots, counters, the browsers' reports | offer, close, restart, tick, fan-out, reap | main, browsers | slots are reused, a session may end in any phase of the loop |
| configuration | settings, the file and the command line behind them | parse, validate, reload | main, the person who edits the file | layers, partial effects of a refused file |
| WebRTC session | ICE/DTLS/streaming/closed, timers, keyframe gate | UDP, tick, send unit, request keyframe, close | main, peer | callbacks from DTLS into the session and back |
| RTP packetizer, retransmission cache, RTCP | sequence number, cached packets, feedback | packetize, store, NACK, parse | main, peer | fragment boundaries, 16 bit wrap, list limits |
| libpeer session | mailbox, batch, keyframe gate, thread | post, resync, answer, close, destroy | media, main, session thread | shared frames, use after free, loss in the middle of a mailbox |
| mDNS responder | name suffix, probe/announce counters, collected reply, addresses | service, receive, rescan, goodbye | main, other hosts | two hosts with one name, lost packets, rename in mid-reply |
| ICE-lite agent, SDP | none: functions of a datagram or an offer | recognise and answer a check, choose a format, write the answer | main, peer | credentials of the previous viewer, limits, several sections and formats |
| CSI source | child pid, pipe, stall clock | start, capture, close | capture, main, child | a child that hangs, dies or ignores SIGTERM |
| V4L2 source | buffers in the driver | open, capture, release, close | capture, driver | any ioctl may fail; buffers lost one by one, a silent device |
| encoders | input buffers, pending keyframe, error count, parameter sets | open, encode, set bitrate, close | encode, driver | slow, stuck or refusing driver; keyframes without parameter sets |
| log ring, rates | entries, head, count; counters of a window ago | write, list, sample | all threads | wrap, limits, a cut reply; counters that start again |

What must hold, in the order of importance used for the work: no frame or
session is used after it was freed and none leaks; no wakeup, keyframe request
or loss is forgotten between two threads; units reach a viewer in order and a
picture that lost its references is repaired; a failed thread, camera, child or
driver is noticed and the pipeline comes back; names, retransmissions and
reports are what they claim to be.

## Modules

One module per part, and `MC<module>` instantiates it for TLC. A record field,
variable or action carries the name of the code it translates wherever TLA+
allows.

| module | models | one step is |
|---|---|---|
| `AuQueue` | the abstract keep-newest queue | a push or a pop |
| `AuRing` | `au_ring.c` and both poll loops; implements `AuQueue` | a critical section of `ring->lock`, or the eventfd write behind it |
| `FrameHub` | `frame_pool.c`, `frame_hub.c`, the capture loop, the teardown | a critical section; load and store of `refcount` are separate |
| `MediaPipeline` | `encoder_worker.c`, fan-out, the keyframe gate of a session, on `AuQueue` | an access to one atomic or to the queue |
| `Supervisor` | `media_pipeline_start/stop`, `media_supervise`, restart, encoder choice; the copies of these in `lp_server.c` as a variant | one object built or torn down |
| `AppConfig` | `app_config.c` and the reload of `app_server.c`, as operators | |
| `Runtime` | the main thread with `Supervisor` and `AppConfig`: boot, supervision, reload | a step of `Supervisor`, or a request |
| `SessionTable` | the viewers' table in `app_server.c`, with `LogRing` and `Rates` | a handler, in the order of the main loop's phases |
| `LogRing` | `log.c`, `GET /api/logs` and `last_error`, as operators | |
| `Rates` | `sample_rates` and the averages of `app_server.c`, as operators | |
| `RtcSession` | `webrtc_session.c` with `dtls_srtp.c`, on `Sdp` and `IceLite` | a datagram, tick or call, with every callback it makes |
| `Sdp` | `sdp.c` and the candidate list of `app_server.c`, as operators | |
| `IceLite` | `ice_lite.c`, as operators | |
| `RtpH264` | the search for NAL units, the packetizer's decisions and its 90 kHz clock, as operators | |
| `Rtcp` | `rtcp_parse`, `rtcp_rtt_ms`, `rtcp_build_sender_report`, `ntp_msw`, as operators | |
| `RtpSender` | the packetizer's loop, `rtp_packet_sink`, the retransmission cache, the sender report, `dtls_on_rtcp`, on the two above | a packet, a sender report, or a datagram of RTCP |
| `LpStream` | `lp_session.c`, the sessions of `lp_server.c`, on `LpSdp` | what runs under one lock or between two |
| `LpSdp` | `lp_sdp.c`, as operators | |
| `MdnsScan` | `scan_addresses` and the memberships, as operators | |
| `MdnsRecords` | the packets of `mdns.c`: names, questions, answers, known answers, as operators | |
| `Mdns` | the responder of `mdns.c` on the two above, several hosts side by side | a service call, a packet, 250 ms |
| `CsiSource` | `csi_source.c`, thread, closer and child | a poll slice, a wait, a signal |
| `V4l2Source` | `v4l2_source.c` under the capture thread | an ioctl |
| `TestSource` | the schedule and the pixel positions of `test_source.c` | a frame |
| `EncoderM2m` | `m2m_encode` and the driver | an ioctl |
| `EncoderX264` | `encoder_x264.c` | a call |
| `H264Bitstream` | `h264_bitstream.c` and `finish_access_unit` | an access unit |
| `DeviceOpen` | opening and closing the V4L2 camera and the M2M encoder | an ioctl, open or mmap that may fail |
| `Devices` | `video_source.h` and `h264_encoder.h`: one of the seven above, chosen at the start | a step of that part |
| `AuRingProofs`, `FrameHubProofs`, `LpStreamProofs`, `MediaPipelineProofs`, `RtcSessionProofs`, `RtpSenderProofs`, `SessionTableProofs`, `SupervisorProofs` | the theorems | |

How they compose: `MediaPipeline` extends `AuQueue`, and `AuRing` implements
`AuQueue` (the queue is the window read from `head`; checked by the run
`au_ring` and proved), so what is shown of the viewers over the queue stands on
the ring of the code. `MediaPipeline` takes frames as always at hand, which
`NewestIsTaken` of `FrameHub` justifies. `SessionTable` takes a session as
something that connects, streams and closes, which `StreamingIsKeyed` and
`ClosedExactlyOnce` of `RtcSession` justify, and `RtpSender` begins where
`RtcSession` has reached "streaming". `Supervisor` takes the threads as able to
fail at any time; `Runtime` interleaves it with reloads. The parts of `Devices`
are alternatives and share no variable.

What `PROJECT.json` maps is control: every state change, guard, early return and
error path of the functions named. Data is abstracted to what the properties
tell apart: a frame is a number, an access unit its kind (`MediaPipeline`) or
its bytes with only 0 and 1 told apart (`RtpSender`), a line of an offer the
fields the parser takes from it, a MAC or checksum the term it is computed from,
a datagram of DTLS the outcome it has in OpenSSL. Log messages, most statistics
and text are left out.

## Runs

`tlc -config <cfg> <module>` in this directory repeats a run. States are the
distinct ones.

| run | states | shows |
|---|---|---|
| `au_ring` | 9 955 | The window `head..tail` holds exactly the newest stored units (`WindowOfNewest`), the late eventfd write never leaves the sender asleep (`NoLostWakeup`, `WaitingUnitsLeave`), a loss stays announced until it is delivered (`LossWillBeAnnounced`), and the ring implements `AuQueue`, from which units leave in order (`ImplementsQueue`). |
| `frame_hub` | 15 272 | With one consumer, as in both servers, counts are exact although `frame_ref` takes no lock, no buffer changes while it is read, and three buffers are enough for publishing (`RefcountExact`); a consumer always gets to the newest frame (`NewestIsTaken`), and every teardown ends with all buffers home (`TeardownEnds`). |
| `media_pipeline` | 289 878 | A keyframe request of the main thread survives every order of the encode thread's take, restore and clear (`NoRequestLost`), so a waiting viewer gets its keyframe across a lost unit or a rebuild (`EveryViewerRecovers`), and the encoder follows the configured bitrate (`BitrateFollows`). |
| `supervisor` (`MCRuntime`) | 180 764 | In either server no thread runs on a freed object and a pipeline is whole or a retry is pending (`WholeOrRetrying`), attempts back off (`BackoffHonoured`), and the pipeline returns once the devices work (`Recovers`). Every command line of up to three words gives the settings its layers say, or is refused (`SettingsAreLayered`). A reload, at any point of a rebuild, changes what it says it changes and lists the rest as needing a restart; the encoder keeps to the configured bitrate (`ReloadTellsAll`). |
| `supervisor_no_x264` (`Supervisor`) | | The same `Recovers` fails in a build without libx264 (see below). |
| `session_table` | 2 421 034 | Created, closed and active sessions add up and the encoder runs exactly for viewers (`CountsAddUp`), no session outlives the DTLS context it was made from (`OwnContext`), and `/api/status` shows a viewer's own report, says "streaming" only when someone is, lists the newest log entries, shows as `last_error` nothing but the most recent one, and reports rates that stay modest when counters start again (`StatusIsTrue`). |
| `rtc_session` | 37 258 | Closing re-enters itself and still happens once, and a creation that fails half-way holds nothing (`ClosedExactlyOnce`); session and DTLS engine agree, and media goes only to an address that made a check with this session's credentials and, if the offer names a certificate, only to a peer that showed it (`StreamingIsKeyed`); silence ends a session (`SilenceEndsSession`). A check is taken exactly if this session's browser made it, and its answer is one the browser takes (`ChecksAreAnswered`). An offer is taken or refused as its lines read as a whole say, and the answer names its best format and this host's addresses (`AnswerFitsOffer`). |
| `rtc_watchdog` | | A handshake that stalls is not watched (see below). |
| `rtp_sender` | 448 569 | A receiver of RFC 6184 gets back every NAL unit, in packets that fit and with the marker at the end (`ReassemblesExactly`); a NACK brings back exactly the right packets across a wrap of the sequence number (`AnswersWhatWasAsked`); the report about our stream is the one used and gives the true round trip across a wrap of the clock, and our sender report places the access units before and after it at the time of their capture and counts what was sent (`ReportsAreTrue`). |
| `lp_stream` | 325 706 | Frames shared between mailboxes are released once and by someone, no session is used after it was freed, and libpeer never gets an answer its parser has no room for (`RefsExact`); a viewer starts on an IDR and restarts on one when its mailbox overflowed (`RestartsOnIdr`; for losses before the mailbox see below), and a session connects or gives its slot back (`Settles`). |
| `devices` | 299 295 | The pid signalled is the child's, no process is left, a frame being copied is not the driver's, and no input buffer is lost to a failing ioctl (`HandlesAreExact`). Whatever step of opening a V4L2 device fails, closing gives everything back (`ClosesCleanly`). A keyframe request outlives a dropped picture (`KeyframeRemembered`). Every IDR carries its parameter sets once the encoder has sent them, and the scanner finds the units a reference definition finds (`IdrIsSelfContained`). The test camera never bursts and never draws outside its frame (`PatternIsSteady`). The end of a source and a stuck driver are reported (`GoneIsNoticed`), and a stop gets through to a hanging camera (`StopGetsThrough`). |
| `mdns` | 393 488 | A name is announced only after its probes and in full (`ProbedBeforeAnnounced`); addresses published are the current ones, and a resolver reads in full what it asked for and does not have (`PublishesCurrent`); hosts that hear each other end up with different names while fewer packets are lost than a name is announced (`Resolved`). |

Each run also checks the type invariant `TypeOK` of its module, with the ranges
of indices, timers and counters, as the first conjunct of its main invariant; in
`au_ring` it is proved instead.

Three runs set `CHECK_DEADLOCK FALSE`, where the system may stop: a closed
device, a sender that has sent its units, hosts that are switched off.

## Bounds

Every bound is a constant of the module and is named there.

- `au_ring`: three slots and five pushes, so the ring wraps and overruns twice;
  three sizes: fits, fits a slot but not the sender's buffer, fits neither.
- `frame_hub`: two and three buffers, on both sides of the number needed; four
  frames reuse every buffer.
- `media_pipeline`: a ring of two; one fault (a lost unit or a
  rebuild) and one reload, each at any point. Viewers do not interact except
  through `force_idr`, which the environment also sets, so one is enough.
- `supervisor`: the delays of the code in units of 5 s. `FailCap` only stops
  the count where the delay has reached its cap, which an ASSUME states.
  Command lines of up to three words and two files are enough for every pair of
  layers; later versions of a file change, drop and misspell keys.
- `session_table`: two slots and three viewers, so a slot is reused beside a
  live one; a log of four entries, more than the limit of a reply, which is more than
  fits into one, and six messages; three windows of rates.
- `rtc_session`: timers scaled down in their order; ages stop one above the
  largest value they are compared with, so no other bound is needed. Offers are
  all short texts, and all continuations of a video section by up to four lines
  about two formats, past the limits on sections and formats.
- `rtp_sender`: four-byte packets and NAL units around every fragment boundary,
  start codes of both lengths and with padding; eight sequence numbers and a
  cache of four, so a number comes round while its slot holds the old packet;
  one datagram of RTCP or one sender report between two access units. Frames are
  seven units of time apart and the 90 kHz clock has nine values, so it wraps
  between a report and the next frame, as the NTP seconds and the counters do.
- `lp_stream`: one slot for two viewers in turn, a mailbox of one frame, three
  units, one loss or failed allocation. A timeout may pass at any time
  (`AnswerTimeout` and `ConnectTimeout` are 0 ticks).
- `devices`: timeouts scaled down in their order; a pipe that holds a frame and a
  half; some, never all, V4L2 buffers are lost; two M2M input buffers, so
  that none may be free, and three capture buffers, an error limit of three, two
  faults and two slow pictures; access units of the shapes an encoder
  gives, with start codes of both lengths; test pictures from the narrowest
  allowed, with words of 16 bits (`Word`) for the 32 of the code, so that the
  arithmetic wraps.
- `mdns`: two hosts, the intervals of the code in ticks of 250 ms, up to two
  lost packets, which is every announcement of a name, one query, two boots and
  one change of interfaces (of host `a`: the hosts are alike); packets of names
  of up to four cells with every compression pointer.

Model values are not declared symmetric: the larger runs have liveness
properties, with which symmetry is unsound.

## Fairness

Fairness is stated for threads that the operating system schedules and for
loops that wake on a timeout, never for an environment that may stop.

- `au_ring`: the encode thread finishes a push it began; the sender's poll loop
  reacts to a readable descriptor. New pushes are not fair.
- `frame_hub`: capture and encode loops run, and a teardown that began goes on.
- `media_pipeline`: main loop and encode thread run; and, with strong fairness
  because each may fail now and then: frames keep coming, an encoder asked for
  a keyframe again and again gives one in the end, a rebuild succeeds in the
  end.
- `supervisor`: the main loop wakes at least every `IDLE_WAKE_MS`; the clock runs.
- `lp_stream`: media, main and session threads run; every loop has a timeout.
- `devices`: the threads run; a child killed with SIGKILL dies; a camera driver
  with a queued buffer fills it while the device works, the M2M driver works
  until it stops.
- `mdns`: the main loops run and time passes, as one condition on them together.
  `Resolved` is conditional on hosts that from some time on hear their link, and on
  fewer lost packets than there are announcements of a name (`AnnounceCount`). With
  both announcements lost TLC finds two hosts at rest under one name.

## Proofs

TLAPS proves the following for every value of the constants that meets the named
assumptions. Each inductive invariant below is also an invariant TLC finds no
counterexample to.

| module | theorem | property | for every |
|---|---|---|---|
| `AuRingProofs` | `TypeCorrect` | `[]TypeOK` | number of slots, capacities, sizes, number of pushes |
| | `KeepsNewest` | `[]WindowOfNewest` | |
| | `Accounting` | `[]EveryPushCounted` | |
| | `WakeupSafety` | `[]NoLostWakeup` | |
| | `LossSafety` | `[]LossWillBeAnnounced` | |
| | `Ordered` | `InOrder`, an action property | |
| | `RingIsQueue` | `ImplementsQueue`: `AuRing` implements `AuQueue` | |
| `FrameHubProofs` | `FramesAreCounted` | `[]RefcountExact` | number of buffers, frames and errors, with one consumer |
| `LpStreamProofs` | `SharedFramesAreCounted` | `[]RefsExact`, given `AnswersAreSafe` | number of slots, viewers, access units, losses and failed allocations, size of the mailbox, timeouts |
| | `RestartsOnKeyframes` | `RestartsOnIdr`, an action property | |
| `MediaPipelineProofs` | `RequestsSurvive` | `[]NoRequestLost` | number of viewers, capacity of the queue, losses, rebuilds, reloads |
| | `BitrateIsFollowed` | `[]BitrateFollows` | |
| `RtcSessionProofs` | `SessionsEndOnce` | `[]ClosedExactlyOnce` | timeouts, peers, offers, number of viewers in the slot |
| | `MediaIsForItsViewer` | `[]StreamingIsKeyed` | |
| | `SilentSessionsEnd` | `[]SilenceEndsSession` | |
| `RtpSenderProofs` | `CacheStaysCurrent` | `[]CacheIsCurrent`, a conjunct of `AnswersWhatWasAsked` | cache size that divides the number of sequence numbers, stream of access units, RTCP, failures |
| | `NacksAreAnswered` | `[]AnswersWhatWasAsked`, given `ParsedAsMeant` | |
| | `TripIsShown` | `[]RttIsTheTrip`, a conjunct of `ReportsAreTrue`, given `ParsedAsMeant` | the same, clocks, rates, tolerance |
| | `ReportsKeepTime` | `[]ReportIsTimed`, a conjunct of `ReportsAreTrue` | the same, widths and rates of the three clocks, delays |
| | `ReportsCountPackets` | `[]PacketsAreCounted`, a conjunct of `ReportsAreTrue` | the same, width of the counter |
| `SessionTableProofs` | `SessionsAreCounted` | `[]CountsAddUp` | number of slots, viewers, restarts |
| | `SessionsOwnTheirContext` | `[]OwnContext` | |
| | `ReportsAreOwn` | `[]DecodingIsOwn`, a conjunct of `StatusIsTrue` | |
| | `StatusTellsTheTruth` | `[]StatusIsTrue`, given `ReadersAreRight` | |
| `SupervisorProofs` | `NeverHalfBuilt` | `[]WholeOrRetrying` | preference, build with or without libx264, delays |
| | `RetriesBackOff` | `BackoffHonoured`, an action property | |
| | `RuntimeSupervises` | `RuntimeSpec` implements `Spec`, so both hold of `Runtime` | |
| | `EncoderAtRate` | `[]EncoderKeepsRate`, of which `ReloadTellsAll` uses the primed form | configuration file |
| | `ReplyIsExact` | the other part of `ReloadTellsAll`, an action property | |

Three theorems have a hypothesis about data: what a parser, a filter or a reader
makes of its bounded inputs (`ParsedAsMeant`, `AnswersAreSafe`, `ReadersAreRight`).
Each is a formula without variables that speaks of the operators the actions use.
It would need induction over a text, and TLC evaluates it: `Init =>` the formula is
a conjunct of the property the run checks. The theorem is the rest of the
argument, from the parser's result on.

**The ring.** The only assumption is `RingAssumption` of `AuRing`: at least one
slot, and capacities and sizes that are natural numbers, which `au_ring_create`
and its callers guarantee. The argument is one inductive invariant, `RingInv`:
the five invariants together with `HandedOverIsOlder` (what the sender got last
is older than everything that waits). Beyond the types they are not inductive
alone. Where a push stores, and what an overrun overwrites, is known only from
the window; that the window still holds the newest units after a pop that
skipped some needs the accounting; that a clear of the descriptor loses no
wakeup needs that a pop which finds nothing to deliver leaves the ring empty,
which is again the window; and `Ordered` needs `HandedOverIsOlder`. Below it are
lemmas about `%` on slot indices (`Turn`, `TurnInjective`, `TurnAgain`) and about
which waiting unit a pop delivers.

**The ring is the queue.** The refinement maps the ring to the queue of the
units read from `head` round to `tail`. With `RingInv`, an accepted push appends
the unit, after taking off the oldest if the ring is full (`StoreAccepts`); a pop
takes off a prefix of which all but the last were too large for the sender
(`PopDelivers`, `PopDrains`); a refused push only sets `lost`; everything about
the eventfd is a stutter. `WindowNow` and `WindowThen` read the window before and
after a step; `PushIsAppend` and `PopIsSubSeq` turn facts about its elements into
sequence operations.

**The frame pool.** `HubAssumption`: finitely many buffers, of which the pool has
at least one, an error limit of at least one, and consumers that are not called
like the capture thread. `OneConsumer` is a hypothesis of the theorem and not an
assumption of the model, because with two consumers the theorem is false (see
`frame_pool.c:98` below). The counts alone are not inductive: `frame_ref` stores
what it loaded, plus one, without the pool's lock. The invariant `Inv` adds where
each frame is (`Placed`), that a frame being published is not yet in the mailbox
or with the encoder (`Apart`), and hence that a loaded count is still the count
when it is stored (`Loaded`). Then the count of every buffer is the number of
places that hold it (`Counted`), the free list has exactly the others, each once
(`Homes`), and the buffer the encoder reads is not the one being filled
(`Stable`). The steps that leave the free list as it is come first, then those in
which the publisher, the encoder or the teardown gives a reference back; these
need of the list only `PutBackLaw`, that a buffer whose count fell to 0 is on it
and no other buffer came or went. That law is proved of every such step, and taking
a buffer off the list and building a new pool remain. `RoomForMissing` shows that
the check of the free list's length in `frame_unref` never refuses a buffer, by
counting; `PoolLasts` that three buffers suffice.

**The libpeer sessions.** `StreamAssumption` gives the constants their types and
the mailbox room for a frame. A frame is shared by the media thread and by as many
mailboxes and batches as there are viewers, and is freed by whoever lets go last.
The counts are not inductive: that a flush gives back what it holds, once, rests on
where everybody is. `RefsInv` adds what the media thread has in hand and that it is
inside `sessions_lock` (`MediaInv`), whose session the main thread has taken out of
the table or not yet put in (`MainInv`, `TableInv`), and what the place of a session
thread says of its session (`ThreadInv`). Frames are kept in the order of their units
(`Sorted`), so a session has a frame at most once, and the count is the number
of slots that have it, plus the media thread (`Counted`); `Holders` of the property
counts places, and the proof ends by showing that these are as many.
The lemmas take what they need of `Cardinality` as a hypothesis, `CountingLaws`,
which `CountingWorks` proves from the library in front of the theorems.
`Expected` is the unit a slot gets next, which changes in the middle of the media
thread's walk over the slots. What a session thread, a push, a flush and the end of
a session do to one session is said once, of two records (`Follows`, `Pushes`),
and the actions are shown to be such steps. For `RestartsOnIdr` the invariant
`ChainInv` says that while no unit is lost, nothing is missing between a frame and
the next, in the mailbox, in the batch, from one to the other, and from what was
handed over to what comes (`Chained`); a flush, and with it a gap, leaves the session
waiting for an IDR or about to be told to.

**The retransmission cache.** `CacheAssumption`: the size of the cache divides the
number of sequence numbers, as 512 divides 65536; with another size two packets
on either side of a wrap could share a slot while both are recent.
`CacheIsCurrent` speaks of sequence numbers, which do not say which round a packet
is of, so it is not inductive. `CacheInv` speaks of the packets counted without
wrap: a slot in use holds a packet that left and belongs there, under its own
number (`Belongs`), and the slot of every packet that left holds it or a later one
(`NotOlder`). `WrapsWithIt` relates `++p->sequence` to the count,
`RoundsShareSlots` uses the assumption, and `NeighboursDoNot` shows that packets
less than a cache apart have slots of their own. `NacksAreAnswered` adds what
`handle_nacks` makes of the numbers it gets (`AnswerInv`), which lasts while
nothing else is sent.

**The reports.** `TripAssumption`: a round trip is less than half the range of the
compact clock, which is 65536 s in the code. Then the difference of three readings
of a clock that wraps, read as a signed number, is the trip (`ElapsedIsTheTrip`), and the
rounding to milliseconds is off by half of one (`RoundedIsNear`). `TimeAssumption`:
access units have bytes; the compact clock is the middle of the NTP time, so the
widths divide one another as 2^16 and 2^32 do; and a report is less than half a turn
of the 90 kHz clock, some six hours, away from the frames around it. `TimeInv`
relates the report to the clocks it was made with (`Timed`) as the stream goes on,
and that a stream that has sent has its base; what a receiver then computes from the
two timestamps is arithmetic: the nearest difference of two wrapped readings is the
true one (`NearestIs`), the two roundings together lose less than a tick
(`LossIsSmall`, `PlacementOff`), and the NTP seconds may wrap under it (`MiddleIs`).
That the counter of octets is the payload RFC 6184 makes of the units (the fourth
conjunct of `ReportsAreTrue`) and that the fragments join to the units
(`ReassemblesExactly`) is a walk over bytes and stays with TLC.

**A session.** `SessionAssumption`: positive timeouts, and "no peer yet" is not a
peer. `OfferAssumption` only names a set that has the fingerprints of all offers
and "none given"; every set of offers has one. The inductive invariant is `Inv`,
of which `Sound` speaks of the session. Beyond `ClosedExactlyOnce` and
`StreamingIsKeyed` it says that between two steps the engine is never "failed": the
callback from inside the engine has closed the session by then, so a later
datagram cannot find a failed engine in an open session. And it says that a
session has not been in its state for longer than it exists, because the watchdog of
`rtc_session_tick` compares the age of the session and the property the time it has
waited. Every function of `webrtc_session.c` and `dtls_srtp.c` that others call has
a lemma of its own (`CloseEnds`, `DtlsCloseEnds`, `FailedEnds`, `FinishKeeps`,
`PumpKeeps`, ...), so the re-entrant close is argued once: `CloseEnds` holds because
the state is set before the engine is told. `ValidIsOwn` shows, from the way
`stun_verify_mi` walks the attributes, that a check which passes was made with
this session's password and not with that of the viewer before; the datagrams are
those of `Datagrams` (the checks of both viewers, whole, damaged or cut) and the MAC
is symbolic. What the answers to checks and offers contain (`ChecksAreAnswered`,
`AnswerFitsOffer`) stays with TLC.

**The table of viewers.** `TableAssumption` only gives the constants their
types. The counters alone are not inductive: whether the encoder should work is
recomputed once per turn of the main loop, after closed sessions are reaped.
`Inv` adds that the created and the closed sessions differ by the open ones also
in the middle of a turn (`CountInv`), what `media_active` may be in each phase,
and that the reporter of a slot is its viewer. `SameViewersKeep` covers the steps
that change how a session is and not whether it is there; offers, closings,
reaping and the two restarts have lemmas of their own, with the cardinality of a
set of slots that loses some (`CountLeft`). That `/api/status` says "streaming" only
when one viewer both was sent a unit and acknowledged it does not follow from how it
is computed, one flag for "someone was sent a unit lately" and one for "someone
acknowledged lately", which could be two viewers. `Flow` closes the gap: a viewer
who acknowledged was sent a unit before, and all viewers past their first IDR are
sent every unit, so their last one is equally old.

**The media pipeline.** `PipelineAssumption`: a queue with room for at least one
unit, and configured bitrates that are not 0, which the code uses for "no change
pending". `NoRequestLost` says that a viewer in need of a keyframe has help on the
way; a step can take one kind of help away only because another takes over, and
what takes over is the rest of `Inv`. A loss in the queue has a flagged unit behind
it (`GapsAreFlagged`), so a viewer who passes the gap asks again; a session that
does not stream yet has not used up its rate limit (`FreshSessionsMayAsk`); the
main thread holds a unit where it sends one, and builds only when nothing runs
(`MainKnows`). `BitrateFollows` needs that the mailbox to the encode thread is
empty or holds the configured rate (`MailIsCurrent`). There is one lemma per
action; the long ones are `EncPush`, with a full queue that drops its head, and
`FanOutPop`.

**The supervisor.** `SupervisorConstants`: a first delay between 1 and the largest
delay, as in the code (5 s and 60 s), and a bound on the counted failures large
enough that the doubled delay has reached the maximum before it. The build order
and the teardown order are sequences in the code's order, of which an object is
built, or torn down, when it is the first that is missing, or there:
`FirstIsFirst`. Then `WholeOrRetrying` is inductive as it stands. `BackoffHonoured` needs that the failure count is the
number of failures in a row (`Counted`) and that time passed and time left add up
to the time owed (`BackingOff`). The doubled delay is a recursive function;
`DoubledIsDoubling` shows that it exists and obeys its equation, from finite
approximations, by taking the least number at which a claim could fail
(`LeastNumber`). `ReplyIsExact` is about the candidate configuration whatever it
is; that reading the file gives the right candidate is induction over lines and
stays with TLC.

Only model-checked, since the prover does not reach them: every liveness property
and everything under fairness, and what functions compute that walk over texts
and packets (`Sdp`, `LpSdp`, `MdnsRecords`, `RtpH264`, `Rtcp`, `H264Bitstream`,
`AppConfig`, and the answers of `IceLite`), which would need induction. Only
model-checked so far: `Devices` with its parts, and `Mdns`.

## Where code and documentation disagree

Two disagreements are kept as runs.

`supervisor_no_x264`: with `encoder=auto` a runtime failure of the hardware
encoder sets `encoder_override` to "sw" even in a build without libx264
(`app_server.c:640`). Every later attempt then fails and the hardware is never
tried again, although `app_server.c:616` says a failed pipeline "is torn down and
rebuilt". `lp_server.c:331` does the same, and there no restart request exists
that would clear the override.

`rtc_watchdog`: `README.md:568` has "dtls --> closed: DTLS watchdog 30s", but
`rtc_session_tick` applies the watchdog in `RTC_ICE` only. A handshake that
stalls stays open as long as its peer sends checks.

The others were met while modelling. The modules follow the code, and the
properties above claim no more than it does.

- `dtls_srtp.h:89`, "The handshake fails when the peer certificate does not match",
  `sdp.h:8` and `README.md:577`: `sdp_parse_offer` counts an `a=fingerprint` line
  without a value as a fingerprint (`sdp.c:198`) and the last line wins, and
  `derive_srtp_keys` compares nothing when what it expects is empty
  (`dtls_srtp.c:531`). Such an offer is accepted, in the run too, and its session
  streams to a peer with any certificate or none. `StreamingIsKeyed`, and with it
  `MediaIsForItsViewer`, is about the certificate of an offer that names one.
- `au_ring.h:11`, "the next one popped after a loss carries 'discontinuity'":
  `au_ring_push` flags the unit it stores after an overrun, behind the units
  that still wait, so the flag comes up to a ring late. `LossWillBeAnnounced` is
  what holds.
- `frame_pool.c:98`, "every publisher/consumer path serializes through the pool
  or hub mutex": `frame_ref` holds only the hub's lock and `frame_unref` only
  the pool's. With one consumer, as in both servers, counts are exact; with two
  an increment could be lost.
- `rtp_h264.c:185`, "the marker bit belongs on the last packet of the access
  unit only": the look-ahead stops at an empty NAL unit, so a unit in front of
  one is marked although more follow. `ReassemblesExactly` excludes empty units.
- `rtcp.h:25`, "or the first block when none names it": without a block about
  our stream the last one is kept. Nothing reads it.
- `README.md:86`, "automatic rebuild with backoff 5s→60s": any failure of the
  encoder, not only one that switches to software, is retried at once and resets
  the count (`app_server.c:660`). `BackoffHonoured` speaks of the other failures.
- `lp_session.h:24`, "restarts after any loss, on an IDR frame": the resync flag
  is not tied to a place in the mailbox, so an IDR queued before the loss ends
  the wait and the delta frame behind the gap is sent. `RestartsOnIdr` is
  checked while no unit is lost before the mailbox.
- `source_worker.h:24`, "Shutdown may take up to one camera poll timeout
  (200 ms)": a hanging CSI camera delays the join by 5 or 15 s, since only
  `csi_close`, after the join, clears the flag the reader looks at.
- `encoder_v4l2m2m.c:37`, "a header-only buffer is merged with the picture that
  follows it": not when the picture takes longer than a frame period.
- `encoder_v4l2m2m.c:837`, "keeps output in step with input": after one slow
  picture the output stays a picture behind for good.
- `source_worker.h:36`, "marks itself failed": a V4L2 camera that falls silent
  without errors, or has lost its buffers to failing `VIDIOC_QBUF`s, is polled
  for ever. `GoneIsNoticed` is about a device that disappears.
- `mdns.c:1364`, "the name is not published until probing says it is free":
  `rename_after_conflict` leaves the collected reply pending, and it goes out
  under the new name during its probes.
- `mdns.c:570`, on probes: `build_probe` writes no question and
  `mdns_handle_packet` returns at `question_count == 0`, so no responder of
  this kind notices a probe; conflicts are noticed by announcements. So
  `README.md:440`, "responder probes and renames", needs one of them to arrive:
  when both are lost, two hosts keep one name until somebody asks for it.
  `Resolved` has this as its condition.
- `mdns.c:733`, "memberships are updated": the loop at `mdns.c:817` compares the
  new list with itself, and past its end with uninitialised memory. An address
  that went away keeps its membership, and one that stays may lose it; hence the
  condition of `Resolved`.
- `README.md:467` and `:486`, `/api/logs?limit&level`: the handler looks for "?" in
  a URI whose query the HTTP library has already split off (`mongoose.c:3907`), so
  both are ignored: `handle_logs` of `LogRing` models the split, and `LogIsRecent`
  says of a request with a query only that what it gets is from the log, in order.
  `app_server.c:1540`, "most recent ERROR level message": `log_recent_json` cuts
  to the last entry before it looks at levels, so the error is gone with the
  next message. `LogIsRecent` says that what is shown is the most recent error, not
  that it goes on being shown.
- `mdns.c:1541`, "leaves room for the rename suffix": up to 63 characters of the
  host are kept, so the suffix of a rename makes a long one longer than a label may be,
  `dns_write_name` fails and the responder falls silent. `Label` of `Mdns` is a
  short one.
- `v4l2_source_create` leaves the mappings made before an `mmap` that fails, and
  takes as many buffers as the driver grants although its table has
  `V4L2_BUFFER_COUNT`; `DeviceOpen` keeps the first as the one exception of
  `ClosesCleanly`.
- `ice_lite.c:498`, "20 header + 4+8 SOFTWARE + 4+8 ERROR-CODE": the nine
  characters of SOFTWARE are padded to twelve, so 48 bytes are sent, of which 44
  were asked room for and cleared. `IceLite` abstracts the bytes.

## Slips

A property that no plausible mistake in the code could break would say nothing.
For every property of a passing run, the module holds an operator `Mut...`,
marked "Slip:", that changes one mapped definition the way a mistake in that
code would: a dropped guard, an off-by-one, a missing reset, a swapped order.
With the definition replaced by it, TLC finds the property violated under the
run's own configuration. `PROJECT.json` pairs them up under "mutants".

## Not modelled

- The dispatch of requests, JSON, the TLS guard and the static pages
  (`app_server.c`, `lp_server.c`): text in, text out. What a handler does to the
  server's state is in `SessionTable`, `Runtime` and `LpStream`.
- The server's certificate, key derivation and the BIO in front of OpenSSL
  (`dtls_srtp.c`): behind `Outcomes` of `RtcSession`.
- The bytes of RTP and RTCP headers (`rtp_h264.c`, `rtcp.c`), and steps of the
  wall clock between a sender report and its echo.
- Splitting a line of a config file, the characters of a line of SDP, and the
  sizes of output buffers: the records of `AppConfig`, `Sdp` and `LpSdp` start
  behind them.
- `yuv_convert.c`, `sysinfo.c`, `embed_assets.c`, the entry points' usage texts:
  pixels, files and options without interaction.
- External, modelled from how the code uses them: OpenSSL, libpeer, libx264, the
  kernel's V4L2 drivers, processes and eventfd, the network.

## Plan

1. A theorem about `EncoderM2m`: `InputsConserved` for any number of buffers, which
   needs the module to have a specification of its own beside `Devices`.
2. The datagram queue in front of OpenSSL with overflow and failed allocations,
   in front of `RtcSession`.
