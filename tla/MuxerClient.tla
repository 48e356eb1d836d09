----------------------------- MODULE MuxerClient -----------------------------
(***************************************************************************)
(* A muxer in the hands of an arbitrary client, which calls any operation  *)
(* with any frame in any order.  Beside the muxer the client remembers     *)
(* which OSD it expects to see in the file, from its own calls alone.      *)
(***************************************************************************)
EXTENDS MkvMuxer

CONSTANTS
  Timecodes,          \* the timecodes the client stamps its frames with
  MaxDurations,       \* the maximal durations the client configures
  MaxClosed           \* bound: the number of files the client closes

ASSUME ClientAssumption ==
  /\ Timecodes \subseteq Timecode
  /\ MaxDurations \subseteq Nat \ {0}
  /\ MaxClosed \in Nat

\* History: the last OSD with data that the client gave to the open file, and whether
\* an empty one came after it in the cluster the file is at.
VARIABLE given

clientVars == <<muxer, given>>

NothingGiven == [data |-> NoData, emptied |-> FALSE]

\* What the client expects to see after frame f, which opens a cluster or not.
Gives(g, f, opens) ==
  CASE f.stream # "subtitle" -> [g EXCEPT !.emptied = @ /\ ~opens]
    [] f.stream = "subtitle" /\ f.data = NoData -> [g EXCEPT !.emptied = TRUE]
    [] OTHER -> [data |-> f.data, emptied |-> FALSE]

MuxerInit == muxer = NewMuxer /\ given = NothingGiven

ClientConfigures ==
  /\ \E d \in MaxDurations : muxer' = SetFileConfig(muxer, d)
  /\ UNCHANGED given

ClientStarts ==
  \E f \in Frames(Timecodes) :
    /\ Len(muxer.closed) < MaxClosed
    /\ muxer' = StartMuxing(muxer, f)
    /\ given' = IF muxer.state = "STOPPED" THEN Gives(NothingGiven, f, TRUE) ELSE given

ClientAppends ==
  \E f \in Frames(Timecodes) :
    /\ muxer' = AppendFrame(muxer, f)
    /\ given' = Gives(given, f, OpensCluster(muxer, f))

ClientStops == muxer' = StopMuxing(muxer) /\ UNCHANGED given

MuxerNext == ClientConfigures \/ ClientStarts \/ ClientAppends \/ ClientStops

MuxerSpec == MuxerInit /\ [][MuxerNext]_clientVars

-----------------------------------------------------------------------------

\* Whoever enters the file at its open cluster sees the OSD the client gave last: the
\* cluster shows the last one that had data, which may have been given several clusters
\* ago, unless an empty one followed it in this cluster, and there is a block whose
\* duration the next OSD will end (StartMuxing, AppendFrame of the muxer).
EveryClusterHasSubtitle ==
  muxer.hasCluster =>
    /\ muxer.shown = IF given.emptied THEN NoData ELSE given.data
    /\ given.data # NoData => muxer.openSubtitle # NoBlock
===============================================================================
