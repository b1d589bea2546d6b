----------------------------- MODULE MCFrameHub -----------------------------
(* FrameHub with the one consumer of both servers, and pools of two        *)
(* buffers, which publishing may exhaust, and of three, which it may not.  *)
EXTENDS FrameHub

CONSTANT c1

OneConsumer == <<c1>>
=============================================================================
