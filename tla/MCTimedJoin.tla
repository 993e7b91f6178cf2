----------------------------- MODULE MCTimedJoin -----------------------------
(***************************************************************************)
(* TimedJoin with a second of four ticks.                                  *)
(***************************************************************************)
EXTENDS TimedJoin

AllTimeouts == (-1..6) \cup {Huge}
\* The real-time clock started long before the machine did, or with it; or it has
\* been set back and is behind the monotonic one.
SomeOffsets == {-2, 0, 1000}
LongMin     == -10001
=============================================================================
