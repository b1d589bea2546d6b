---------------------------- MODULE MCSessionTable ----------------------------
(* SessionTable with two slots, so that slots are reused and two viewers *)
(* can be in different states; a media report is recent for one turn of  *)
(* the clock and a receiver report for three (2 s and 6 s).  A log of    *)
(* four messages wraps, holds more than the limit of a reply, and the    *)
(* limit is more than fits.                                              *)
EXTENDS SessionTable
=============================================================================
