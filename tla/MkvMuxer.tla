------------------------------- MODULE MkvMuxer -------------------------------
(***************************************************************************)
(* The Matroska muxer of src/nvr/mkv/libmkvmuxer/mkvmuxer.cpp: it writes   *)
(* one file at a time, decides when a file is too long, suggests to its    *)
(* listener where to split it, groups the frames into clusters and repeats *)
(* the current subtitle (the on-screen display, OSD) at the head of every  *)
(* cluster.                                                                *)
(*                                                                         *)
(* The muxer is called synchronously by its client, so an operation is an  *)
(* operator from the state of the muxer (a record) to its next state.      *)
(* Module MuxerClient drives the operations with an arbitrary client;      *)
(* module Recorder drives them with the client the program has.            *)
(*                                                                         *)
(* Left out: the bytes of the file, its index of cues and its header.      *)
(* What a block holds matters only for subtitles: the data of the last one *)
(* in the current cluster is kept (field shown).                           *)
(***************************************************************************)
EXTENDS Integers, Sequences

CONSTANTS
  Data,               \* the contents a subtitle frame may have
  NoData,             \* a frame whose data is NULL or whose size is 0
  TimeModulus,        \* timecodes are uint64_t: their arithmetic is modulo 2^64
  MaxClusterDuration, \* GetMaxClusterDuration: 0x7FFF * timecodeScale
  CueThreshold        \* videoCueThreshold

Timecode == 0 .. TimeModulus - 1

ASSUME MuxerAssumption ==
  /\ NoData \notin Data
  /\ TimeModulus \in Nat \ {0}
  /\ MaxClusterDuration \in Nat \ {0}
  /\ CueThreshold \in Nat

VARIABLE muxer

\* A NULL block pointer; other pointers to blocks are the block's timecode.
NoBlock == -1

Streams == {"video", "audio", "subtitle"}

\* Only whether a video frame is a key frame, and only the data of a subtitle, matter.
Frames(times) ==
  {f \in [stream : Streams, isKey : BOOLEAN, timecode : times, data : Data \cup {NoData}] :
     /\ f.isKey => f.stream = "video"
     /\ f.stream # "subtitle" => f.data = NoData}

FileClosedEvent == [start : Timecode, end : Timecode, hasName : BOOLEAN]

MuxerState ==
  [state        : {"STOPPED", "STARTED"},
   maxDuration  : Nat,
   isSuggest    : BOOLEAN,            \* SuggestSplitting not sent yet
   first        : Timecode,           \* firstFrameTimecode, 0 while unset
   last         : Timecode,           \* lastFrameTimecode
   hasCluster   : BOOLEAN,            \* pCluster # NULL
   clusterMin   : Timecode,           \* clusterMinTimecode
   openSubtitle : {NoBlock} \cup Timecode,  \* pLastSubtitleBlockGroup: its duration is not final
   subtitleData : Data \cup {NoData}, \* pSubtitleData
   shown        : Data \cup {NoData}, \* last subtitle block of the current cluster
   closed       : Seq(FileClosedEvent)]     \* the FileClosed events, in order

-----------------------------------------------------------------------------
(* The difference of two uint64_t timecodes.                               *)
Elapsed(t, base) == IF t >= base THEN t - base ELSE (t - base) + TimeModulus

VideoCueTimecodeThreshold ==
  IF CueThreshold < MaxClusterDuration \div 2 THEN CueThreshold ELSE MaxClusterDuration \div 2

(* The first frame of a file sets firstFrameTimecode.                      *)
FirstFrameTimecode(m, f) == IF m.first = 0 THEN f.timecode ELSE m.first

\* Mutant: a file may last its maximum and one frame more.
ExceedsLate(m, f) == Elapsed(f.timecode, FirstFrameTimecode(m, f)) > m.maxDuration

Exceeds(m, f) == Elapsed(f.timecode, FirstFrameTimecode(m, f)) >= m.maxDuration

\* Mutants: the suggestion comes after a quarter of the maximum, or three quarters.
SuggestsAfter(m, f, d) ==
  /\ m.state = "STARTED" /\ m.isSuggest /\ ~Exceeds(m, f)
  /\ Elapsed(f.timecode, FirstFrameTimecode(m, f)) >= d
SuggestsEarly(m, f) == SuggestsAfter(m, f, m.maxDuration \div 4)
SuggestsLate(m, f) == SuggestsAfter(m, f, 3 * (m.maxDuration \div 4))

Suggests(m, f) ==
  /\ m.state = "STARTED"
  /\ m.isSuggest
  /\ ~Exceeds(m, f)
  /\ Elapsed(f.timecode, FirstFrameTimecode(m, f)) >= m.maxDuration \div 2

\* Mutant: the age of a cluster is checked at key frames only.
OpensClusterAtKey(m, f) ==
  \/ ~m.hasCluster
  \/ /\ f.isKey
     /\ Elapsed(f.timecode, m.clusterMin) >= VideoCueTimecodeThreshold

OpensCluster(m, f) ==
  \/ ~m.hasCluster
  \/ Elapsed(f.timecode, m.clusterMin) >= MaxClusterDuration
  \/ /\ f.isKey
     /\ f.stream = "video"
     /\ Elapsed(f.timecode, m.clusterMin) >= VideoCueTimecodeThreshold

-----------------------------------------------------------------------------
(* The operations.  A comment that starts with Mutant introduces a faulty  *)
(* variant of the definition that follows it: nothing refers to it, it     *)
(* serves to see that the properties would notice the fault.               *)

SetFileConfig(m, maxDuration) ==
  IF m.state = "STOPPED" THEN [m EXCEPT !.maxDuration = maxDuration] ELSE m

\* Mutants: the file is reported again when it is closed already; the pointer
\* to the last subtitle outlives the cluster.
StopMuxingAgain(m) ==
  [m EXCEPT !.state = "STOPPED", !.hasCluster = FALSE, !.openSubtitle = NoBlock,
            !.closed = Append(@, [start |-> m.first, end |-> m.last, hasName |-> TRUE])]
StopMuxingKeepsPointer(m) ==
  IF m.state = "STOPPED" THEN m
  ELSE [StopMuxingAgain(m) EXCEPT !.openSubtitle = m.openSubtitle]

(* Renders the last cluster (a file without one is removed), then tells    *)
(* the listener.  The pointers into the cluster die with it.               *)
StopMuxing(m) ==
  IF m.state = "STOPPED"
  THEN m
  ELSE [m EXCEPT !.state = "STOPPED",
                 !.hasCluster = FALSE,
                 !.openSubtitle = NoBlock,
                 !.closed = Append(@, [start |-> m.first, end |-> m.last,
                                       hasName |-> m.hasCluster])]

(* The cluster a frame goes to: the current one, or a new one that starts  *)
(* with a copy of the current subtitle.                                    *)
StartCluster(m, f) ==
  [m EXCEPT !.hasCluster = TRUE,
            !.clusterMin = f.timecode,
            !.openSubtitle = IF m.subtitleData # NoData THEN f.timecode ELSE NoBlock,
            !.shown = m.subtitleData]

\* Mutant: the first subtitle of a file is kept for its clusters, not the last.
AddBlockFirst(m, f) ==
  IF f.stream = "subtitle"
  THEN [m EXCEPT !.last = f.timecode, !.openSubtitle = f.timecode, !.shown = f.data,
                 !.subtitleData = IF m.subtitleData = NoData THEN f.data ELSE m.subtitleData]
  ELSE [m EXCEPT !.last = f.timecode]

AddBlock(m, f) ==
  IF f.stream = "subtitle"
  THEN [m EXCEPT !.last = f.timecode,
                 !.openSubtitle = f.timecode,
                 !.shown = f.data,
                 !.subtitleData = IF f.data # NoData THEN f.data ELSE @]
  ELSE [m EXCEPT !.last = f.timecode]

(* One frame: refused unless started; a file that gets too long is closed  *)
(* and the frame is lost; otherwise the frame is written, after the        *)
(* suggestion to split when the file has reached half of its maximum.      *)
AppendFrame(m, f) ==
  LET begun == [m EXCEPT !.first = FirstFrameTimecode(m, f)]
      noted == [begun EXCEPT !.isSuggest = @ /\ ~Suggests(m, f)]
  IN  IF m.state = "STOPPED" THEN m
      ELSE IF Exceeds(m, f) THEN StopMuxing(begun)
      ELSE AddBlock(IF OpensCluster(m, f) THEN StartCluster(noted, f) ELSE noted, f)

\* Mutants: the timecodes of the file before are kept; unset is -1, not 0.
OpenedWith(m, first, last) ==
  [m EXCEPT !.state = "STARTED", !.isSuggest = TRUE, !.first = first, !.last = last,
            !.hasCluster = FALSE, !.clusterMin = 0,
            !.openSubtitle = NoBlock, !.subtitleData = NoData, !.shown = NoData]
OpenedStale(m) == OpenedWith(m, m.first, m.last)
OpenedUnset(m) == OpenedWith(m, NoBlock, 0)

(* A new file has no timecode, no cluster and no subtitle yet.             *)
Opened(m) ==
  [m EXCEPT !.state = "STARTED", !.isSuggest = TRUE,
            !.first = 0, !.last = 0,
            !.hasCluster = FALSE, !.clusterMin = 0,
            !.openSubtitle = NoBlock, !.subtitleData = NoData, !.shown = NoData]

\* Mutant: the frame that starts a file is not written to it.
StartMuxingEmpty(m, f) == IF m.state = "STOPPED" THEN Opened(m) ELSE m

(* A file starts with its first frame.                                     *)
StartMuxing(m, f) == IF m.state = "STOPPED" THEN AppendFrame(Opened(m), f) ELSE m

NewMuxer ==
  [state |-> "STOPPED", maxDuration |-> 1, isSuggest |-> TRUE, first |-> 0, last |-> 0,
   hasCluster |-> FALSE, clusterMin |-> 0,
   openSubtitle |-> NoBlock, subtitleData |-> NoData, shown |-> NoData, closed |-> <<>>]

-----------------------------------------------------------------------------
(* Properties of a muxer in the hands of any client.                       *)

\* The state of the muxer is well formed.
MuxerTypeOK == muxer \in MuxerState

\* Every frame is closer to the first frame of its cluster than the maximal
\* duration of a cluster, also when the clock of the frames is set back: block
\* timecodes, relative to their cluster, fit into 16 bits (muxerimpl.hpp:29).
ClusterSpan(m) ==
  m.hasCluster => Elapsed(m.last, m.clusterMin) < MaxClusterDuration
BlocksFitTheirCluster == ClusterSpan(muxer)

\* A file never spans its maximal duration, and one that has passed half of it
\* has suggested to split (mkvmuxer.cpp:739-753).
FileSpan(m) ==
  m.state = "STARTED" =>
    /\ m.hasCluster
    /\ Elapsed(m.last, m.first) < m.maxDuration
    /\ m.isSuggest => Elapsed(m.last, m.first) < m.maxDuration \div 2
FileWithinBounds == FileSpan(muxer)

\* The subtitle whose duration is still to be set belongs to the current
\* cluster: once the cluster is rendered and deleted nothing points into it
\* (pLastSubtitleBlockGroup, mkvmuxer.cpp:621-625, 763-767).
SubtitlePointer(m) ==
  m.openSubtitle # NoBlock =>
    /\ m.hasCluster
    /\ Elapsed(m.openSubtitle, m.clusterMin) < MaxClusterDuration
NoDanglingSubtitle == SubtitlePointer(muxer)

\* A file that is given to the library is a file that exists: no file is closed
\* without a cluster (the "empty file" branch of StopMuxing, mkvmuxer.cpp:673-677,
\* which removes the file and reports a NULL name).
ClosedFilesExist == \A i \in DOMAIN muxer.closed : muxer.closed[i].hasName
===============================================================================
