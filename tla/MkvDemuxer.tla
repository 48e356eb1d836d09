----------------------------- MODULE MkvDemuxer -----------------------------
(***************************************************************************)
(* The demuxer of the playback server,                                     *)
(* src/nvr/mkv/libmkvmuxer/mkvdemuxer.cpp, on the files that the muxer     *)
(* writes: a file is a sequence of frames, cut into clusters, with a cue   *)
(* for every cluster that has a video frame.                               *)
(*                                                                         *)
(* A demuxer is a record [state, file, next]: next is the frame that       *)
(* GetOneFrame gives; the elements of the file that the code keeps open    *)
(* stand for it.                                                           *)
(***************************************************************************)
EXTENDS Integers, Sequences, FiniteSetsExt

CONSTANTS
  Files,    \* sequence of files, in the order of their recording:
            \* [frames: Seq([time, kind]), clusters: the indices that begin one]
  Damaged   \* the indices of files in which no cluster is found

Kinds == {"I", "P", "AUDIO", "OSD"}
FileNumbers == DOMAIN Files
Frames(f) == Files[f].frames
Time(f, i) == Frames(f)[i].time
IsOsd(f, i) == Frames(f)[i].kind = "OSD"
LastIndex(f) == Len(Frames(f))

(* Each file begins with a cluster, and its times do not go back: the      *)
(* streams of a recording are in step.                                     *)
ASSUME DemuxerAssumption ==
  /\ Files \in Seq([clusters : SUBSET Nat, frames : Seq([time : Nat \ {0}, kind : Kinds])])
  /\ Damaged \subseteq FileNumbers
  /\ \A f \in FileNumbers :
       /\ 1 \in Files[f].clusters /\ Files[f].clusters \subseteq DOMAIN Frames(f)
       /\ \A i \in 1 .. LastIndex(f) - 1 : Time(f, i) <= Time(f, i + 1)
  /\ \A f \in FileNumbers \ {1} : Time(f - 1, LastIndex(f - 1)) <= Time(f, 1)

Stopped == [state |-> "STOPPED", file |-> 0, next |-> 0]

-----------------------------------------------------------------------------
(* The cues, and KaxCues::GetTimecodePosition: the cluster of the last cue *)
(* before the time, or "none" (0), which leaves the demuxer at the first   *)
(* cluster.                                                                *)
ClusterEnd(f, c) == Min({b \in Files[f].clusters : b > c} \cup {LastIndex(f) + 1}) - 1
VideoIn(f, c) == {i \in c .. ClusterEnd(f, c) : Frames(f)[i].kind \in {"I", "P"}}
CueTime(f, c) == Time(f, Min(VideoIn(f, c)))
Cued(f) == {c \in Files[f].clusters : VideoIn(f, c) # {}}

GetTimecodePosition(f, t) ==
  LET before == {c \in Cued(f) : CueTime(f, c) < t}
  IN IF before = {} THEN 0 ELSE Max(before)

-----------------------------------------------------------------------------
StopDemuxing(d) == Stopped

\* With time 0 the cues are not looked at.
StartDemuxing(d, f, t) ==
  LET at == IF t = 0 THEN 0 ELSE GetTimecodePosition(f, t) IN
  IF d.state # "STOPPED" \/ f \in Damaged THEN Stopped
  ELSE [state |-> "STARTED", file |-> f, next |-> IF at = 0 THEN 1 ELSE at]

\* The frame that GetOneFrame gives, and the demuxer after it; without a frame
\* it has stopped.
HasFrame(d) == d.state = "STARTED" /\ d.next <= LastIndex(d.file)
GetOneFrame(d) == IF HasFrame(d) THEN [d EXCEPT !.next = @ + 1] ELSE Stopped
=============================================================================
