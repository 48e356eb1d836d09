------------------------------ MODULE PbReader ------------------------------
(***************************************************************************)
(* The reader of a playback session, src/nvr/mkv/playback/                 *)
(* id_mkv_pb_reader.hpp, with its demuxer and the links of the index that  *)
(* take it from one file to the next, while the recorder adds files.       *)
(*                                                                         *)
(* The client is the session (module PbSession): it seeks, and then asks   *)
(* for one frame after the other.  Once next() has given nothing it never  *)
(* asks again; nor does it seek again once the reader has opened a file,   *)
(* because the request that it parses then is malformed.                   *)
(*                                                                         *)
(* What a search for a time may find is what module FileSearch checks:     *)
(* forwards a file that has not ended at the time, backwards one that has  *)
(* begun.                                                                  *)
(* A link is read through the index stream that all sessions share; here   *)
(* it is read in one piece, FileSearch has what other sessions may do.     *)
(***************************************************************************)
EXTENDS MkvDemuxer

CONSTANTS
  Second,    \* the units of time in a second; the index counts seconds
  Requests   \* the times a client may ask for

\* The clock is past its first second: a file that starts in it counts as none.
ASSUME ReaderAssumption ==
  /\ Files # <<>>
  /\ Second \in Nat \ {0}
  /\ Requests \subseteq Nat \ {0}
  /\ \A f \in FileNumbers : Time(f, 1) >= Second

VARIABLES
  entries,       \* the number of files in the index
  linked,        \* the files there are links to: these, and perhaps the one to come
  filename_,     \* the file to play, 0 is "test.mkv"
  located,       \* pLocatingMediaFile: the file of the helper, 0 for none
  direction_, seek_tv_,
  demuxer,       \* pDemuxer_
  opened,        \* pDemuxer_ is not NULL
  isStopped_,
  isBackwardFrameListReady_,
  backwardFrameList_,  \* the number of frames in it: the first ones of the file
  backwardOsdList_,    \* the indices of the OSD frames in it
  over,          \* next() has given nothing, or the seek has failed
  sent           \* history: the frames that next() gave, as <<file, index>>

seeking == <<filename_, located, direction_, seek_tv_>>
lists == <<isBackwardFrameListReady_, backwardFrameList_, backwardOsdList_>>
vars == <<entries, linked, seeking, demuxer, opened, isStopped_, lists, over, sent>>

StartTime(f) == Time(f, 1) \div Second
EndTime(f) == Time(f, LastIndex(f)) \div Second

-----------------------------------------------------------------------------
Init ==
  /\ entries = 1 /\ linked = 1
  /\ filename_ = 0 /\ located = 0
  /\ direction_ = "FORWARD" /\ seek_tv_ = 0
  /\ demuxer = Stopped /\ opened = FALSE /\ isStopped_ = FALSE
  /\ isBackwardFrameListReady_ = FALSE
  /\ backwardFrameList_ = 0 /\ backwardOsdList_ = {}
  /\ over = FALSE /\ sent = <<>>

(* The recorder adds a file.  When it is the first of its day, the link to *)
(* it is written before its entry, with the day of the file before.        *)
LinkFile ==
  /\ entries < Len(Files) /\ linked = entries
  /\ linked' = entries + 1
  /\ UNCHANGED <<entries, seeking, demuxer, opened, isStopped_, lists, over, sent>>

AddFile ==
  /\ entries < Len(Files)
  /\ entries' = entries + 1
  /\ linked' = entries + 1
  /\ UNCHANGED <<seeking, demuxer, opened, isStopped_, lists, over, sent>>

-----------------------------------------------------------------------------
(* LocateMediaFile: by a search for the second of the time, or by a link.  *)
(* 0 is a file with start 0.                                               *)
LocateForwardly(t) == {f \in 1 .. entries : t \div Second < EndTime(f)} \cup {0}
LocateBackwardly(t) == {f \in 1 .. entries : StartTime(f) <= t \div Second} \cup {0}

\* The start in the entry that a link leads to: 0 while it is not written.
StartInEntry(f) == IF f <= entries THEN StartTime(f) ELSE 0

\* Mutant: the start of the file is not looked at.
LocateNextMediaFileUnwritten == IF located < linked THEN located + 1 ELSE 0

LocateNextMediaFile ==
  IF located < linked /\ StartInEntry(located + 1) # 0 THEN located + 1 ELSE 0
LocatePreviousMediaFile == located - 1

(* Reader::seek.                                                           *)
Seek(t, dir) ==
  /\ ~over /\ ~opened
  /\ direction_' = dir /\ seek_tv_' = t
  /\ \E f \in IF dir = "FORWARD" THEN LocateForwardly(t) ELSE LocateBackwardly(t) :
       located' = f /\ filename_' = f /\ over' = (f = 0)
  /\ UNCHANGED <<entries, linked, demuxer, opened, isStopped_, lists, sent>>

-----------------------------------------------------------------------------
(* Reader::next: one of the actions below.                                 *)
Asked == ~over /\ filename_ # 0

\* What follows the label "restart": the header of the file is given, or the
\* reader stops for good.
Restart(f, t) ==
  LET d == StartDemuxing(StopDemuxing(demuxer), f, IF direction_ = "BACKWARD" THEN 0 ELSE t)
  IN /\ demuxer' = d
     /\ opened' = (d.state = "STARTED")
     /\ isStopped_' = (d.state # "STARTED")
     /\ over' = (d.state # "STARTED")

OpenFile ==
  /\ Asked /\ ~isStopped_ /\ ~opened
  /\ Restart(filename_, seek_tv_)
  /\ UNCHANGED <<entries, linked, seeking, lists, sent>>

\* Mutant: the next file is entered at its end.
NextFileAtEnd ==
  LET f == LocateNextMediaFile IN
  /\ located' = f /\ filename_' = f
  /\ IF f # 0
     THEN seek_tv_' = EndTime(f) * Second /\ Restart(f, EndTime(f) * Second)
     ELSE over' = TRUE /\ demuxer' = GetOneFrame(demuxer) /\ UNCHANGED <<seek_tv_, opened, isStopped_>>

(* After the last frame of a file: the next file, from its beginning.      *)
NextFile ==
  LET f == LocateNextMediaFile IN
  /\ located' = f /\ filename_' = f
  /\ IF f # 0
     THEN seek_tv_' = StartTime(f) * Second /\ Restart(f, StartTime(f) * Second)
     ELSE over' = TRUE /\ demuxer' = GetOneFrame(demuxer) /\ UNCHANGED <<seek_tv_, opened, isStopped_>>

NextForward ==
  /\ Asked /\ opened /\ direction_ = "FORWARD"
  /\ IF HasFrame(demuxer)
     THEN /\ sent' = Append(sent, <<demuxer.file, demuxer.next>>)
          /\ demuxer' = GetOneFrame(demuxer)
          /\ UNCHANGED <<seeking, opened, isStopped_, over>>
     ELSE NextFile /\ UNCHANGED <<direction_, sent>>
  /\ UNCHANGED <<entries, linked, lists>>

(* After the first frame of a file: the file before, up to its last        *)
(* second.  d is the demuxer.                                              *)
PreviousFile(d) ==
  LET f == LocatePreviousMediaFile IN
  /\ located' = f /\ filename_' = f
  /\ isBackwardFrameListReady_' = (f = 0)
  /\ IF f # 0
     THEN seek_tv_' = EndTime(f) * Second /\ Restart(f, 0)
     ELSE over' = TRUE /\ demuxer' = d /\ UNCHANGED <<seek_tv_, opened, isStopped_>>

\* Mutant: the OSD itself.
GivenItself(n, osds) == n

\* In place of an OSD of the list, the OSD before it is given.
Given(n, osds) == IF IsOsd(located, n) THEN Max(osds) ELSE n

(* The loop over the two lists, the first count frames and the OSDs osds   *)
(* of the file; OSDs for which there is none before are left out.          *)
Drain(d, count, osds) ==
  LET wanted == {n \in 1 .. count : ~IsOsd(located, n) \/ osds # {}} IN
  IF wanted # {}
  THEN LET n == Max(wanted) IN
       /\ backwardFrameList_' = n - 1
       /\ backwardOsdList_' = IF IsOsd(located, n) THEN osds \ {Max(osds)} ELSE osds
       /\ sent' = Append(sent, <<located, Given(n, osds)>>)
       /\ isBackwardFrameListReady_' = TRUE /\ demuxer' = d
       /\ UNCHANGED <<seeking, opened, isStopped_, over>>
  ELSE /\ backwardFrameList_' = 0 /\ backwardOsdList_' = {}
       /\ PreviousFile(d)
       /\ UNCHANGED <<direction_, sent>>

\* How many frames GetOneFrame gives before the first one that is not before t.
CountBefore(f, t) == Cardinality({n \in DOMAIN Frames(f) : Time(f, n) < t})

(* All frames before the time are read into the lists; the last OSD among  *)
(* them is given first.                                                    *)
Collect ==
  LET count == CountBefore(located, seek_tv_)
      osds == {n \in 1 .. count : IsOsd(located, n)}
      d == IF count = LastIndex(located) THEN Stopped ELSE [demuxer EXCEPT !.next = count + 2]
  IN IF osds = {} THEN Drain(d, count, osds)
     ELSE /\ isBackwardFrameListReady_' = TRUE /\ demuxer' = d
          /\ backwardFrameList_' = count /\ backwardOsdList_' = osds \ {Max(osds)}
          /\ sent' = Append(sent, <<located, Max(osds)>>)
          /\ UNCHANGED <<seeking, opened, isStopped_, over>>

NextBackward ==
  /\ Asked /\ opened /\ direction_ = "BACKWARD"
  /\ IF isBackwardFrameListReady_ THEN Drain(demuxer, backwardFrameList_, backwardOsdList_)
                                  ELSE Collect
  /\ UNCHANGED <<entries, linked>>

Next ==
  \/ LinkFile \/ AddFile
  \/ \E t \in Requests, dir \in {"FORWARD", "BACKWARD"} : Seek(t, dir)
  \/ OpenFile \/ NextForward \/ NextBackward

Spec == Init /\ [][Next]_vars

-----------------------------------------------------------------------------
(* Properties.                                                             *)
TimeOf(p) == Time(p[1], p[2])
IsFrame(p) == ~IsOsd(p[1], p[2])

(* Playing forwards, the client gets all that was recorded from a cluster  *)
(* on that does not begin after the time it asked for (or from the         *)
(* beginning of a later file): every frame once and in order, across       *)
(* clusters and files, while the recorder adds files.                      *)
Follows(p, q) ==
  IF p[2] < LastIndex(p[1]) THEN q = <<p[1], p[2] + 1>> ELSE q = <<p[1] + 1, 1>>
StartsInTime(p) == p[2] = 1 \/ (p[2] \in Files[p[1]].clusters /\ TimeOf(p) <= seek_tv_)
ForwardIsContiguous ==
  direction_ = "FORWARD" =>
    /\ \A n \in 1 .. Len(sent) - 1 : Follows(sent[n], sent[n + 1])
    /\ sent # <<>> /\ located = sent[1][1] => StartsInTime(sent[1])

(* Playing backwards, the client gets the frames that are before the time  *)
(* it asked for, in reverse; of each file before the first one, the frames *)
(* before its last second (the index has no smaller unit).                 *)
FramesBefore(f, t) == {n \in DOMAIN Frames(f) : ~IsOsd(f, n) /\ Time(f, n) < t}
PartOf(f) == FramesBefore(f, EndTime(f) * Second)
Reversed(p, q) ==
  LET f == p[1] IN
  IF \E n \in 1 .. p[2] - 1 : ~IsOsd(f, n)
  THEN q = <<f, Max({n \in 1 .. p[2] - 1 : ~IsOsd(f, n)})>>
  ELSE LET g == Max({e \in 1 .. f - 1 : PartOf(e) # {}}) IN q = <<g, Max(PartOf(g))>>

\* The first frame among what was sent, and the frame that was sent after another.
FirstFrame(s, n) == IsFrame(s[n]) /\ \A k \in 1 .. n - 1 : ~IsFrame(s[k])
NextFrame(s, m, n) ==
  m < n /\ IsFrame(s[m]) /\ IsFrame(s[n]) /\ \A k \in m + 1 .. n - 1 : ~IsFrame(s[k])

(* A frame is shown with the OSD that was shown with it when it was        *)
(* recorded: the last OSD sent before it is the last one before it in the  *)
(* file, unless the file has none there.                                   *)
OsdAt(p) == {n \in 1 .. p[2] : IsOsd(p[1], n)}
ShownWithItsOsd(s, n) ==
  OsdAt(s[n]) # {} =>
    \E k \in 1 .. n : s[k] = <<s[n][1], Max(OsdAt(s[n]))>> /\ \A j \in k + 1 .. n : IsFrame(s[j])

BackwardMirrorsForward ==
  direction_ = "BACKWARD" =>
    /\ \A n \in DOMAIN sent : FirstFrame(sent, n) /\ located = sent[1][1] =>
         sent[n] = <<located, Max(FramesBefore(located, seek_tv_))>>
    /\ \A m, n \in DOMAIN sent : NextFrame(sent, m, n) => Reversed(sent[m], sent[n])
    /\ \A n \in DOMAIN sent : IsFrame(sent[n]) => ShownWithItsOsd(sent, n)

(* The playback ends only when there is nothing more to play: forwards     *)
(* after the last frame of the last file in the index, backwards after the *)
(* first frame of the first file; unless a file cannot be opened.          *)
EndsOnlyAtEnd ==
  [][opened /\ ~over /\ over' /\ ~isStopped_' =>
       IF direction_ = "FORWARD"
       THEN sent # <<>> /\ sent[Len(sent)] = <<entries, LastIndex(entries)>>
       ELSE located = 1]_vars
=============================================================================
