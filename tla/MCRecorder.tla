------------------------------ MODULE MCRecorder ------------------------------
(* A channel with slots of 4 ticks and clusters of 3, recorded over a      *)
(* little more than two slots.                                             *)
EXTENDS Recorder

\* Frames in the order of time: close together, or after a gap.
MonotoneSteps == {0, 1, 3, 5}

\* Streams that are not in step, and a clock that is set back.
UnevenSteps == {-3, 1, 4}
===============================================================================
