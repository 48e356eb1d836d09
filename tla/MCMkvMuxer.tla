------------------------------ MODULE MCMkvMuxer ------------------------------
(* A muxer with an arbitrary client, small enough for TLC.                 *)
EXTENDS MuxerClient

MCTimecodes == {0, 1, 3, 4, 6, 9, 15}
MCMaxDurations == {2, 7, 10}
===============================================================================
