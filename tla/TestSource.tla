------------------------------ MODULE TestSource ------------------------------
(***************************************************************************)
(* The test pattern camera (src/media/test_source.c): a frame is rendered  *)
(* per period, on a schedule of absolute deadlines, by a thread that may be *)
(* held up.  Times are kept relative to the present.  Pixel positions are   *)
(* computed in unsigned words, which wrap at Word (2^32 in the code).       *)
(***************************************************************************)
EXTENDS Integers

CONSTANTS Period,      \* 1000000 / fps
          MaxLate,     \* bound: how far the thread may fall behind
          Word,        \* values of a uint32_t
          Frames       \* sizes, frame rates and sequence numbers to draw

VARIABLE test   \* ahead: next_deadline_us - now; ago: the age of the last three frames

Long == Period + 1   \* older than a period
AgeBy(ago, d) == [k \in 1..3 |-> IF ago[k] + d < Long THEN ago[k] + d ELSE Long]

\* test_start.
Init == test = [ahead |-> 0, ago |-> <<Long, Long, Long>>]

\* The hub, the clock or the scheduler take their time.
Passes(d) ==
    /\ test.ahead - d >= -MaxLate
    /\ test' = [ahead |-> test.ahead - d, ago |-> AgeBy(test.ago, d)]

Anchored(ahead) == IF ahead < 0 THEN Period ELSE ahead

\* test_capture; it may wake later than it asked to.
Capture(late) ==
    LET ahead == Anchored(test.ahead + Period)
        slept == IF ahead > 0 THEN ahead ELSE 0
        ago == AgeBy(test.ago, slept + late)
    IN /\ ahead - slept - late >= -MaxLate
       /\ test' = [ahead |-> ahead - slept - late, ago |-> <<0, ago[1], ago[2]>>]

Next == (\E d \in 1..2 : Passes(d)) \/ (\E late \in 0..1 : Capture(late))

-----------------------------------------------------------------------------
(* render_frame: the columns and rows its marker and its digits touch.  Sizes *)
(* are even.                                                               *)

Wrap(n) == n % Word

bars_h(f) == (f.height * 3) \div 4
marker_size(f) == f.height \div 12

\* Slip: the marker may begin in the middle of a macropixel.
MutEven(x) == x
Even(x) == x - (x % 2)

\* width - marker_size wraps in a tall, narrow frame.
marker_x(f) ==
    LET steps == IF f.fps > 1 THEN f.fps - 1 ELSE 1
    IN Even(Wrap(((f.sequence % f.fps) * Wrap(f.width - marker_size(f))) \div steps))

\* Two pixels at a time, up to the first pair that does not fit.
MarkerColumns(f) ==
    LET even == {x \in 0..marker_size(f) - 1 : x % 2 = 0}
        ends == {x \in even : Wrap(marker_x(f) + x + 1) >= f.width}
        drawn == {x \in even : \A e \in ends : x < e}
    IN {Wrap(marker_x(f) + x) + b : x \in drawn, b \in 0..1}

MarkerRows(f) ==
    LET row0 == bars_h(f) + (f.height - bars_h(f)) \div 2 - marker_size(f) \div 2
    IN {row \in row0..row0 + marker_size(f) - 1 : row < f.height}

\* The frame counter: glyphs of 3 by 5 blocks (draw_digit).
scale(f) == f.height \div 96

DigitColumns(f) ==
    LET x0 == f.width - f.digits * 4 * scale(f) - 2 * scale(f)
    IN {x \in {Wrap(x0 + i * 4 * scale(f) + x) :
                 i \in 0..f.digits - 1, x \in 0..3 * scale(f) - 1} : x < f.width}

DigitRows(f) ==
    LET y0 == bars_h(f) + (f.height - bars_h(f) - 5 * scale(f)) \div 2
    IN y0..y0 + 5 * scale(f) - 1

-----------------------------------------------------------------------------
\* "Re-anchor the schedule instead of bursting": any three frames in a row take
\* at least a period, however late the thread was.
NoBurst == test.ago[1] = 0 => test.ago[3] >= Period

\* No pixel of the pattern lies outside its frame, although the positions of the
\* marker and of the counter wrap around in tall, narrow frames.
Inside ==
    \A f \in Frames :
        /\ MarkerColumns(f) \cup DigitColumns(f) \subseteq 0..f.width - 1
        /\ MarkerRows(f) \cup DigitRows(f) \subseteq 0..f.height - 1
=============================================================================
