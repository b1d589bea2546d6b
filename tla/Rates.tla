-------------------------------- MODULE Rates ---------------------------------
(***************************************************************************)
(* The rates of /api/status and /api/stats: sample_rates of                *)
(* src/app/app_server.c compares counters with those of one window ago,    *)
(* while pipelines are rebuilt, their counters starting at zero, and       *)
(* viewers come and go.  A rate is the count of a window.                  *)
(***************************************************************************)
EXTENDS Naturals, Sequences, FiniteSetsExt

CONSTANTS MaxWindows, MaxPerWindow   \* bounds: windows, what happens in one

counter_delta(current, previous) ==
    IF current >= previous THEN current - previous ELSE current

\* What handle_offer makes of a slot, then one sample of a viewer's bytes.
FreshSlot == [sampled |-> FALSE, bytes |-> 0, rate |-> 0]
SampleSlot(slot, bytes) ==
    [sampled |-> TRUE, bytes |-> bytes,
     rate |-> IF slot.sampled THEN counter_delta(bytes, slot.bytes) ELSE slot.rate]

\* "Sessions come and go, so the byte total can shrink".
TotalRate(bytes, previous) == IF bytes >= previous THEN bytes - previous ELSE 0

NoViewer == [there |-> FALSE, bytes |-> 0, slot |-> FreshSlot]
Start == [frames |-> 0, sample |-> 0, fps |-> 0, total |-> 0, rate |-> 0,
          viewers |-> <<NoViewer, NoViewer>>]

TotalBytes(viewers) == MapThenSumSet(LAMBDA i : viewers[i].bytes, {1, 2})

\* A window: the frames since the pipeline was last rebuilt in it, and of each
\* slot who is in it at the end and what was sent to them meanwhile.
Window(rebuilt, frames, slots) == [rebuilt |-> rebuilt, frames |-> frames, slots |-> slots]
SlotWindows == [1..2 -> [who: {"same", "new", "none"}, bytes: 0..MaxPerWindow]]
CameraWindows == {Window(b, n, [i \in 1..2 |-> [who |-> "none", bytes |-> 0]]) :
                    b \in BOOLEAN, n \in 0..MaxPerWindow}
ViewerWindows == {Window(FALSE, 0, slots) : slots \in SlotWindows}

Viewer(v, w) ==
    CASE w.who = "none" -> NoViewer
      [] w.who = "new" -> [NoViewer EXCEPT !.there = TRUE, !.bytes = w.bytes]
      [] w.who = "same" -> [v EXCEPT !.bytes = IF v.there THEN @ + w.bytes ELSE 0]

Sampled(v) == IF v.there THEN [v EXCEPT !.slot = SampleSlot(@, v.bytes)] ELSE v

sample_rates(s, w) ==
    LET frames == IF w.rebuilt THEN w.frames ELSE s.frames + w.frames
        viewers == [i \in 1..2 |-> Viewer(s.viewers[i], w.slots[i])]
    IN [frames |-> frames, sample |-> frames, fps |-> counter_delta(frames, s.sample),
        total |-> TotalBytes(viewers), rate |-> TotalRate(TotalBytes(viewers), s.total),
        viewers |-> [i \in 1..2 |-> Sampled(viewers[i])]]

\* No rate tells of more than there was in the window: not after a rebuild, which
\* takes the counters back, and not for a viewer in a slot that had another.  The
\* rate of a viewer who stayed is exact.
RatesAreModest ==
    \A n \in 1..MaxWindows : \A windows \in [1..n -> CameraWindows] \cup [1..n -> ViewerWindows] :
      LET sampled[k \in 0..n] ==
            IF k = 0 THEN Start ELSE sample_rates(sampled[k - 1], windows[k])
          before == sampled[n - 1]
          w == windows[n]
          after == sample_rates(before, w)
          sent(i) == IF after.viewers[i].there THEN w.slots[i].bytes ELSE 0
      IN /\ after.fps <= w.frames
         /\ after.rate <= sent(1) + sent(2)
         /\ \A i \in 1..2 :
              LET slot == after.viewers[i].slot
              IN /\ slot.rate <= sent(i)
                 /\ w.slots[i].who = "same" /\ before.viewers[i].there => slot.rate = sent(i)
=============================================================================
