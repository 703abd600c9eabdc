----------------------------- MODULE MCCapture -----------------------------
(***************************************************************************)
(* Instances of Capture for TLC.  One call panics, one has a row the store *)
(* refuses, and one of the plain two raises warnings; a channel of two and  *)
(* a batch of two make a full channel, a forced flush, a quiet flush and a  *)
(* drain past the batch limit all happen with four calls.                  *)
(***************************************************************************)
EXTENDS Capture

CONSTANTS c1, c2, c3, c4

FourCalls == {c1, c2, c3, c4}
ThreeCalls == {c1, c2, c3}
PanicCalls == {c2}
BadRowCalls == {c3}
WarnedCalls == {c1, c2}
=============================================================================
