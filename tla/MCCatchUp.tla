----------------------------- MODULE MCCatchUp -----------------------------
(***************************************************************************)
(* CatchUp for TLC.  The source logs of the runs: whole, with records past *)
(* the end of the range (the topic is still written), or with a gap.       *)
(***************************************************************************)
EXTENDS CatchUp

WholeLog == 0 .. EndOffset
GapLog   == (0 .. EndOffset) \ {1}
=============================================================================
