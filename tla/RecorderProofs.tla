---------------------------- MODULE RecorderProofs ----------------------------
(***************************************************************************)
(* Proofs about the operations of the muxer and about one channel of the   *)
(* recorder, for every value of the constants.  First the muxer with an    *)
(* arbitrary client, then the recorder, whose inductive invariant is       *)
(*   TypeOK, MuxerInv of its muxer, FlagsAgree, EveryFileReportedOnce,     *)
(*   SplitPending: a muxer that has suggested to split is remembered, and  *)
(*   FileShowsOsd: the open file shows the OSD of the channel.             *)
(***************************************************************************)
EXTENDS Recorder, MuxerClient, TLAPS

Frame == Frames(Timecode)

\* What holds of the muxer between two calls, whoever calls it.
ClosedExist(m) == \A i \in DOMAIN m.closed : m.closed[i].hasName
SubtitleAtHead(m) ==
  m.hasCluster /\ m.subtitleData # NoData => m.openSubtitle # NoBlock
MuxerInv(m) ==
  /\ m \in MuxerState
  /\ m.maxDuration > 0
  /\ m.hasCluster => m.state = "STARTED"
  /\ ClusterSpan(m)
  /\ FileSpan(m)
  /\ SubtitlePointer(m)
  /\ SubtitleAtHead(m)
  /\ ClosedExist(m)

-----------------------------------------------------------------------------
(* Differences of timecodes.                                               *)

LEMMA ElapsedType ==
  ASSUME NEW t \in Timecode, NEW b \in Timecode
  PROVE  Elapsed(t, b) \in Timecode
BY MuxerAssumption DEF Timecode, Elapsed

LEMMA ElapsedZero ==
  ASSUME NEW t \in Timecode
  PROVE  Elapsed(t, t) = 0
BY MuxerAssumption DEF Timecode, Elapsed

LEMMA FrameFields ==
  ASSUME NEW f \in Frame
  PROVE  /\ f.stream \in Streams /\ f.isKey \in BOOLEAN
         /\ f.timecode \in Timecode /\ f.data \in Data \cup {NoData}
BY DEF Frame, Frames

-----------------------------------------------------------------------------
(* Each operation keeps MuxerInv.                                          *)

LEMMA SetFileConfigInv ==
  ASSUME NEW m, MuxerInv(m), NEW d \in Nat \ {0}
  PROVE  MuxerInv(SetFileConfig(m, d))
BY MuxerAssumption
   DEF MuxerInv, MuxerState, SetFileConfig, ClusterSpan, FileSpan, SubtitlePointer,
       SubtitleAtHead, ClosedExist

\* A muxer that is started but has no cluster yet is the exception in FileSpan.
LEMMA StopMuxingInv ==
  ASSUME NEW m \in MuxerState, m.maxDuration > 0,
         m.state = "STARTED" => m.hasCluster,
         m.hasCluster => m.state = "STARTED",
         m.state = "STOPPED" => SubtitlePointer(m),
         ClosedExist(m)
  PROVE  MuxerInv(StopMuxing(m))
<1>1. CASE m.state = "STOPPED"
  BY <1>1 DEF MuxerInv, MuxerState, StopMuxing, ClusterSpan, FileSpan, SubtitlePointer, SubtitleAtHead
<1>2. CASE m.state # "STOPPED"
  <2> DEFINE e == [start |-> m.first, end |-> m.last, hasName |-> m.hasCluster]
             s == StopMuxing(m)
  <2>1. s = [m EXCEPT !.state = "STOPPED", !.hasCluster = FALSE,
                      !.openSubtitle = NoBlock, !.closed = Append(@, e)]
    BY <1>2 DEF StopMuxing
  <2>2. m.state = "STARTED" /\ m.hasCluster
    BY <1>2 DEF MuxerState
  <2>3. e \in FileClosedEvent /\ e.hasName
    BY <2>2 DEF MuxerState, FileClosedEvent
  <2>4. s.closed = Append(m.closed, e) /\ s.closed \in Seq(FileClosedEvent)
    BY <2>1, <2>3 DEF MuxerState
  <2>5. ClosedExist(s)
    <3>1. m.closed \in Seq(FileClosedEvent)
      BY DEF MuxerState
    <3> HIDE DEF s, e
    <3>2. QED
      BY <2>3, <2>4, <3>1 DEF ClosedExist
  <2>6. s \in MuxerState
    BY <2>1, <2>4 DEF MuxerState, NoBlock
  <2>7. QED
    BY <2>1, <2>5, <2>6 DEF MuxerInv, MuxerState, ClusterSpan, FileSpan, SubtitlePointer, SubtitleAtHead, NoBlock
<1>3. QED
  BY <1>1, <1>2

\* What AppendFrame needs of its muxer: MuxerInv, or a file that was just opened.
Appendable(m) ==
  /\ m \in MuxerState
  /\ m.maxDuration > 0
  /\ m.hasCluster => m.state = "STARTED"
  /\ m.state = "STARTED" /\ ~m.hasCluster => m.first = 0
  /\ ClusterSpan(m)
  /\ SubtitlePointer(m)
  /\ SubtitleAtHead(m)
  /\ ClosedExist(m)

LEMMA MuxerInvAppendable ==
  ASSUME NEW m, MuxerInv(m)
  PROVE  Appendable(m)
BY DEF MuxerInv, Appendable, FileSpan

LEMMA OpenedFields ==
  ASSUME NEW m \in MuxerState
  PROVE  LET o == Opened(m) IN
         /\ o \in MuxerState
         /\ o.state = "STARTED" /\ o.maxDuration = m.maxDuration /\ o.closed = m.closed
         /\ o.isSuggest /\ o.first = 0 /\ o.last = 0 /\ ~o.hasCluster
         /\ o.openSubtitle = NoBlock /\ o.subtitleData = NoData
<1>1. 0 \in Timecode
  BY MuxerAssumption DEF Timecode
<1>2. QED
  BY <1>1 DEF Opened, MuxerState

LEMMA OpenedAppendable ==
  ASSUME NEW m, MuxerInv(m)
  PROVE  Appendable(Opened(m)) /\ Opened(m).state = "STARTED"
<1>1. m \in MuxerState /\ m.maxDuration > 0 /\ ClosedExist(m)
  BY DEF MuxerInv
<1>2. QED
  BY <1>1, OpenedFields
  DEF Appendable, ClusterSpan, SubtitlePointer, SubtitleAtHead, ClosedExist

\* The cluster AppendFrame writes a frame into.
Ready(m, f) ==
  LET noted == [m EXCEPT !.first = FirstFrameTimecode(m, f), !.isSuggest = @ /\ ~Suggests(m, f)]
  IN  IF OpensCluster(m, f) THEN StartCluster(noted, f) ELSE noted

LEMMA FirstFrameType ==
  ASSUME NEW m \in MuxerState, NEW f \in Frame
  PROVE  FirstFrameTimecode(m, f) \in Timecode
BY FrameFields DEF MuxerState, FirstFrameTimecode

LEMMA ReadyFields ==
  ASSUME NEW m, Appendable(m), NEW f \in Frame, m.state = "STARTED"
  PROVE  LET r == Ready(m, f) IN
         /\ r \in MuxerState
         /\ r.state = m.state /\ r.maxDuration = m.maxDuration /\ r.closed = m.closed
         /\ r.first = FirstFrameTimecode(m, f)
         /\ r.isSuggest = (m.isSuggest /\ ~Suggests(m, f))
         /\ r.hasCluster
         /\ r.subtitleData = m.subtitleData
         /\ r.shown = IF OpensCluster(m, f) THEN m.subtitleData ELSE m.shown
         /\ Elapsed(f.timecode, r.clusterMin) < MaxClusterDuration
         /\ SubtitlePointer(r)
         /\ SubtitleAtHead(r)
<1> DEFINE noted == [m EXCEPT !.first = FirstFrameTimecode(m, f),
                              !.isSuggest = @ /\ ~Suggests(m, f)]
           new   == StartCluster(noted, f)
<1>0. m \in MuxerState /\ FirstFrameTimecode(m, f) \in Timecode
  BY FirstFrameType DEF Appendable
<1>1. (m.isSuggest /\ ~Suggests(m, f)) \in BOOLEAN
  BY <1>0 DEF MuxerState, Suggests
<1>2. /\ noted \in MuxerState
      /\ noted.state = m.state /\ noted.maxDuration = m.maxDuration /\ noted.closed = m.closed
      /\ noted.first = FirstFrameTimecode(m, f)
      /\ noted.isSuggest = (m.isSuggest /\ ~Suggests(m, f))
      /\ noted.hasCluster = m.hasCluster /\ noted.clusterMin = m.clusterMin
      /\ noted.subtitleData = m.subtitleData /\ noted.openSubtitle = m.openSubtitle
      /\ noted.shown = m.shown
  <2> HIDE DEF Frame
  <2> DEFINE g == (m.isSuggest /\ ~Suggests(m, f))
             t == FirstFrameTimecode(m, f)
  <2>1. noted = [m EXCEPT !.first = t, !.isSuggest = g]
    OBVIOUS
  <2>2. t \in Timecode /\ g \in BOOLEAN
    BY <1>0, <1>1
  <2> HIDE DEF g, t, noted
  <2>3. /\ noted \in MuxerState
        /\ noted.state = m.state /\ noted.maxDuration = m.maxDuration /\ noted.closed = m.closed
        /\ noted.first = t /\ noted.isSuggest = g
        /\ noted.hasCluster = m.hasCluster /\ noted.clusterMin = m.clusterMin
        /\ noted.subtitleData = m.subtitleData /\ noted.openSubtitle = m.openSubtitle
      /\ noted.shown = m.shown
    BY <1>0, <2>1, <2>2 DEF MuxerState
  <2>4. QED
    BY <2>3 DEF g, t
<1> HIDE DEF noted
<1>3. CASE OpensCluster(m, f)
  <2>1. Ready(m, f) = new
    BY <1>3 DEF Ready, noted
  <2>2. f.timecode \in Timecode
    BY FrameFields
  <2>3. /\ new \in MuxerState
        /\ new.state = noted.state /\ new.maxDuration = noted.maxDuration
        /\ new.closed = noted.closed /\ new.first = noted.first
        /\ new.isSuggest = noted.isSuggest /\ new.hasCluster
        /\ new.subtitleData = noted.subtitleData /\ new.shown = noted.subtitleData
        /\ new.clusterMin = f.timecode
        /\ new.openSubtitle = IF noted.subtitleData # NoData THEN f.timecode ELSE NoBlock
    BY <1>2, <2>2 DEF StartCluster, MuxerState, NoBlock
  <2>4. Elapsed(f.timecode, f.timecode) < MaxClusterDuration
    BY <2>2, ElapsedZero, MuxerAssumption
  <2>5. f.timecode # NoBlock
    BY <2>2, MuxerAssumption DEF NoBlock, Timecode
  <2> HIDE DEF new
  <2>6. QED
    BY <1>2, <1>3, <2>1, <2>3, <2>4, <2>5 DEF SubtitlePointer, SubtitleAtHead
<1>4. CASE ~OpensCluster(m, f)
  <2>1. Ready(m, f) = noted
    BY <1>4 DEF Ready, noted
  <2>2. /\ m.hasCluster
        /\ Elapsed(f.timecode, m.clusterMin) < MaxClusterDuration
    <3>1. m.hasCluster /\ ~(Elapsed(f.timecode, m.clusterMin) >= MaxClusterDuration)
      BY <1>4 DEF OpensCluster
    <3>2. Elapsed(f.timecode, m.clusterMin) \in Timecode
      BY <1>0, FrameFields, ElapsedType DEF MuxerState
    <3>3. QED
      BY <3>1, <3>2, MuxerAssumption DEF Timecode
  <2>3. QED
    BY <1>2, <1>4, <2>1, <2>2 DEF Appendable, SubtitlePointer, SubtitleAtHead
<1>5. QED
  BY <1>3, <1>4

LEMMA AddBlockFields ==
  ASSUME NEW r \in MuxerState, NEW f \in Frame
  PROVE  LET b == AddBlock(r, f) IN
         /\ b \in MuxerState
         /\ b.state = r.state /\ b.maxDuration = r.maxDuration /\ b.closed = r.closed
         /\ b.first = r.first /\ b.isSuggest = r.isSuggest
         /\ b.hasCluster = r.hasCluster /\ b.clusterMin = r.clusterMin
         /\ b.last = f.timecode
         /\ b.openSubtitle = IF f.stream = "subtitle" THEN f.timecode ELSE r.openSubtitle
         /\ f.stream # "subtitle" => b.subtitleData = r.subtitleData /\ b.shown = r.shown
         /\ f.stream = "subtitle" =>
               /\ b.subtitleData = IF f.data # NoData THEN f.data ELSE r.subtitleData
               /\ b.shown = f.data
<1>1. f.timecode \in Timecode /\ f.data \in Data \cup {NoData}
  BY FrameFields
<1>2. CASE f.stream = "subtitle"
  <2> DEFINE d == IF f.data # NoData THEN f.data ELSE r.subtitleData
  <2>1. d \in Data \cup {NoData}
    BY <1>1 DEF MuxerState
  <2>2. AddBlock(r, f) = [r EXCEPT !.last = f.timecode, !.openSubtitle = f.timecode,
                                   !.shown = f.data, !.subtitleData = d]
    BY <1>2 DEF AddBlock
  <2>3. d = IF f.data # NoData THEN f.data ELSE r.subtitleData
    OBVIOUS
  <2> HIDE DEF d
  <2>4. QED
    BY <1>1, <1>2, <2>1, <2>2, <2>3, ZenonT(60) DEF MuxerState
<1>3. CASE f.stream # "subtitle"
  BY <1>1, <1>3 DEF AddBlock, MuxerState
<1>4. QED
  BY <1>2, <1>3

\* A frame closes a file only if the file has a cluster to render.
LEMMA ExceedsHasCluster ==
  ASSUME NEW m, Appendable(m), NEW f \in Frame, m.state = "STARTED", Exceeds(m, f)
  PROVE  m.hasCluster
<1> SUFFICES ASSUME ~m.hasCluster PROVE FALSE
  OBVIOUS
<1>1. FirstFrameTimecode(m, f) = f.timecode
  BY DEF Appendable, FirstFrameTimecode
<1>2. Elapsed(f.timecode, f.timecode) = 0
  BY FrameFields, ElapsedZero
<1>3. m.maxDuration \in Nat /\ m.maxDuration > 0
  BY DEF Appendable, MuxerState
<1>4. QED
  BY <1>1, <1>2, <1>3 DEF Exceeds

LEMMA AppendFrameStops ==
  ASSUME NEW m, Appendable(m), NEW f \in Frame, m.state = "STARTED", Exceeds(m, f)
  PROVE  MuxerInv(AppendFrame(m, f))
<1> DEFINE begun == [m EXCEPT !.first = FirstFrameTimecode(m, f)]
<1>1. AppendFrame(m, f) = StopMuxing(begun)
  BY DEF AppendFrame
<1>2. m \in MuxerState /\ FirstFrameTimecode(m, f) \in Timecode /\ m.hasCluster
  BY FirstFrameType, ExceedsHasCluster DEF Appendable
<1>3. /\ begun \in MuxerState
      /\ begun.state = m.state /\ begun.maxDuration = m.maxDuration
      /\ begun.hasCluster = m.hasCluster /\ begun.closed = m.closed
  BY <1>2 DEF MuxerState
<1> HIDE DEF begun
<1>4. begun.maxDuration > 0 /\ ClosedExist(begun) /\ begun.state = "STARTED" /\ begun.hasCluster
  BY <1>2, <1>3 DEF Appendable, ClosedExist
<1>5. QED
  BY <1>1, <1>3, <1>4, StopMuxingInv

\* A file shows o: its current cluster does, and so will the next one.
ShowsOsd(m, o) == o # NoData => m.subtitleData = o /\ m.shown = o

\* What a frame that is written changes of the OSD the file shows.
FrameShown(m, f, n) ==
  /\ n.hasCluster
  /\ f.stream # "subtitle" =>
        /\ n.subtitleData = m.subtitleData
        /\ n.shown = IF OpensCluster(m, f) THEN m.subtitleData ELSE m.shown
  /\ f.stream = "subtitle" =>
        /\ n.subtitleData = IF f.data # NoData THEN f.data ELSE m.subtitleData
        /\ n.shown = f.data

LEMMA AppendFrameWrites ==
  ASSUME NEW m, Appendable(m), NEW f \in Frame, m.state = "STARTED", ~Exceeds(m, f)
  PROVE  LET n == AppendFrame(m, f) IN
         /\ n = AddBlock(Ready(m, f), f)
         /\ MuxerInv(n)
         /\ n.state = "STARTED" /\ n.closed = m.closed /\ n.maxDuration = m.maxDuration
         /\ n.first = FirstFrameTimecode(m, f) /\ n.last = f.timecode
         /\ n.isSuggest = (m.isSuggest /\ ~Suggests(m, f))
         /\ f.stream # "subtitle" => \A o : ShowsOsd(m, o) => ShowsOsd(n, o)
         /\ f.stream = "subtitle" => ShowsOsd(n, f.data)
         /\ FrameShown(m, f, n)
<1> DEFINE r == Ready(m, f)
           n == AddBlock(r, f)
<1>1. AppendFrame(m, f) = n
  BY DEF AppendFrame, Ready
<1>2. /\ r \in MuxerState
      /\ r.state = m.state /\ r.maxDuration = m.maxDuration /\ r.closed = m.closed
      /\ r.first = FirstFrameTimecode(m, f)
      /\ r.isSuggest = (m.isSuggest /\ ~Suggests(m, f))
      /\ r.hasCluster
      /\ Elapsed(f.timecode, r.clusterMin) < MaxClusterDuration
      /\ SubtitlePointer(r)
      /\ SubtitleAtHead(r)
      /\ r.subtitleData = m.subtitleData
      /\ r.shown = IF OpensCluster(m, f) THEN m.subtitleData ELSE m.shown
  BY ReadyFields
<1> HIDE DEF r
<1>3. /\ n \in MuxerState
      /\ n.state = r.state /\ n.maxDuration = r.maxDuration /\ n.closed = r.closed
      /\ n.first = r.first /\ n.isSuggest = r.isSuggest
      /\ n.hasCluster = r.hasCluster /\ n.clusterMin = r.clusterMin
      /\ n.last = f.timecode
      /\ n.openSubtitle = IF f.stream = "subtitle" THEN f.timecode ELSE r.openSubtitle
      /\ f.stream # "subtitle" => n.subtitleData = r.subtitleData /\ n.shown = r.shown
      /\ f.stream = "subtitle" =>
            /\ n.subtitleData = IF f.data # NoData THEN f.data ELSE r.subtitleData
            /\ n.shown = f.data
  BY <1>2, AddBlockFields
<1> HIDE DEF n
<1>4. ClusterSpan(n) /\ SubtitlePointer(n)
  BY <1>2, <1>3 DEF ClusterSpan, SubtitlePointer
<1>5. SubtitleAtHead(n)
  <2>1. f.timecode # NoBlock
    BY FrameFields, MuxerAssumption DEF NoBlock, Timecode
  <2>2. QED
    BY <1>2, <1>3, <2>1 DEF SubtitleAtHead
<1>6. FileSpan(n)
  <2> DEFINE e == Elapsed(f.timecode, FirstFrameTimecode(m, f))
  <2>1. e \in Timecode
    BY FrameFields, FirstFrameType, ElapsedType DEF Appendable
  <2>2. m.maxDuration \in Nat
    BY DEF Appendable, MuxerState
  <2>3. e < m.maxDuration
    BY <2>1, <2>2 DEF Exceeds, Timecode
  <2>4. n.isSuggest => e < m.maxDuration \div 2
    <3>1. SUFFICES ASSUME m.isSuggest, ~Suggests(m, f)
                   PROVE  e < m.maxDuration \div 2
      BY <1>2, <1>3
    <3>2. ~(e >= m.maxDuration \div 2)
      BY <3>1 DEF Suggests
    <3>3. QED
      BY <2>1, <2>2, <3>2 DEF Timecode
  <2>5. QED
    BY <1>2, <1>3, <2>3, <2>4 DEF FileSpan
<1>7. ClosedExist(n) /\ n.maxDuration > 0 /\ n.state = "STARTED"
  BY <1>2, <1>3 DEF Appendable, ClosedExist
<1>8. /\ f.stream # "subtitle" => \A o : ShowsOsd(m, o) => ShowsOsd(n, o)
      /\ f.stream = "subtitle" => ShowsOsd(n, f.data)
  BY <1>2, <1>3 DEF ShowsOsd
<1>11. FrameShown(m, f, n)
  BY <1>2, <1>3 DEF FrameShown
<1>9. MuxerInv(n)
  BY <1>3, <1>4, <1>5, <1>6, <1>7 DEF MuxerInv
<1>10. QED
  BY <1>1, <1>2, <1>3, <1>7, <1>8, <1>9, <1>11 DEF r, n

LEMMA AppendFrameInv ==
  ASSUME NEW m, MuxerInv(m), NEW f \in Frame
  PROVE  MuxerInv(AppendFrame(m, f))
<1>1. Appendable(m) /\ m.state \in {"STOPPED", "STARTED"}
  BY MuxerInvAppendable DEF MuxerInv, MuxerState
<1>2. CASE m.state = "STOPPED"
  BY <1>2 DEF AppendFrame
<1>3. CASE m.state = "STARTED"
  BY <1>1, <1>3, AppendFrameStops, AppendFrameWrites
<1>4. QED
  BY <1>1, <1>2, <1>3

\* The first frame of a file is always written.
LEMMA StartMuxingInv ==
  ASSUME NEW m, MuxerInv(m), NEW f \in Frame, m.state = "STOPPED"
  PROVE  LET n == StartMuxing(m, f) IN
         /\ MuxerInv(n)
         /\ n.state = "STARTED" /\ n.closed = m.closed /\ n.maxDuration = m.maxDuration
         /\ n.first = f.timecode /\ n.last = f.timecode
         /\ m.maxDuration \div 2 > 0 => n.isSuggest
<1> DEFINE o == Opened(m)
<1>1. Appendable(o) /\ o.state = "STARTED"
  BY OpenedAppendable
<1>2. /\ o.closed = m.closed /\ o.maxDuration = m.maxDuration /\ o.first = 0
      /\ ~o.hasCluster /\ o.isSuggest
  BY OpenedFields DEF MuxerInv
<1> HIDE DEF o
<1>3. ~Exceeds(o, f)
  BY <1>1, <1>2, ExceedsHasCluster
<1>4. FirstFrameTimecode(o, f) = f.timecode
  BY <1>2 DEF FirstFrameTimecode
<1>5. StartMuxing(m, f) = AppendFrame(o, f)
  BY DEF StartMuxing, o
<1>6. m.maxDuration \div 2 > 0 => ~Suggests(o, f)
  <2>1. Elapsed(f.timecode, f.timecode) = 0 /\ m.maxDuration \in Nat
    BY FrameFields, ElapsedZero DEF MuxerInv, MuxerState
  <2>2. QED
    BY <1>2, <1>4, <2>1 DEF Suggests
<1>7. QED
  BY <1>1, <1>2, <1>3, <1>4, <1>5, <1>6, AppendFrameWrites, ZenonT(60)

-----------------------------------------------------------------------------
(* The theorems about a muxer with an arbitrary client.                    *)

\* The OSD the client expects is the one the file shows, now and in its next cluster.
Shows(m, g) ==
  /\ m.subtitleData = g.data
  /\ m.shown = IF g.emptied THEN NoData ELSE g.data

MuxerIInv ==
  /\ MuxerInv(muxer)
  /\ given \in [data : Data \cup {NoData}, emptied : BOOLEAN]
  /\ muxer.hasCluster => Shows(muxer, given)

LEMMA NewMuxerInv == MuxerInv(NewMuxer)
<1>1. 0 \in Timecode
  BY MuxerAssumption DEF Timecode
<1>2. NewMuxer \in MuxerState
  BY <1>1 DEF NewMuxer, MuxerState
<1>3. QED
  BY <1>2 DEF NewMuxer, MuxerInv, ClusterSpan, FileSpan, SubtitlePointer, SubtitleAtHead, ClosedExist

LEMMA StopMuxingKeeps ==
  ASSUME NEW m, MuxerInv(m)
  PROVE  MuxerInv(StopMuxing(m))
BY StopMuxingInv DEF MuxerInv, FileSpan

LEMMA GivesType ==
  ASSUME NEW g \in [data : Data \cup {NoData}, emptied : BOOLEAN], NEW f \in Frame,
         NEW opens \in BOOLEAN
  PROVE  Gives(g, f, opens) \in [data : Data \cup {NoData}, emptied : BOOLEAN]
<1>1. f.data \in Data \cup {NoData}
  BY FrameFields
<1>2. CASE f.stream # "subtitle"
  BY <1>2 DEF Gives
<1>3. CASE f.stream = "subtitle" /\ f.data = NoData
  BY <1>3 DEF Gives
<1>4. CASE f.stream = "subtitle" /\ f.data # NoData
  BY <1>1, <1>4 DEF Gives
<1>5. QED
  BY <1>2, <1>3, <1>4

\* A frame that is written changes what the file shows and what the client expects in
\* the same way; a file that has no cluster yet shows nothing.
LEMMA FrameShows ==
  ASSUME NEW m, NEW n, NEW f \in Frame, FrameShown(m, f, n),
         NEW g \in [data : Data \cup {NoData}, emptied : BOOLEAN],
         m.subtitleData = g.data, NEW opens \in BOOLEAN,
         opens <=> OpensCluster(m, f),
         ~opens => Shows(m, g)
  PROVE  Shows(n, Gives(g, f, opens))
<1>1. CASE f.stream # "subtitle"
  <2>1. /\ Gives(g, f, opens).data = g.data
        /\ Gives(g, f, opens).emptied = (g.emptied /\ ~opens)
    BY <1>1 DEF Gives
  <2>2. QED
    BY <1>1, <2>1 DEF FrameShown, Shows
<1>2. CASE f.stream = "subtitle" /\ f.data = NoData
  <2>1. Gives(g, f, opens).data = g.data /\ Gives(g, f, opens).emptied = TRUE
    BY <1>2 DEF Gives
  <2>2. QED
    BY <1>2, <2>1 DEF FrameShown, Shows
<1>3. CASE f.stream = "subtitle" /\ f.data # NoData
  <2>1. Gives(g, f, opens) = [data |-> f.data, emptied |-> FALSE]
    BY <1>3 DEF Gives
  <2>2. QED
    BY <1>3, <2>1 DEF FrameShown, Shows
<1>4. QED
  BY <1>1, <1>2, <1>3

LEMMA StartShows ==
  ASSUME NEW m, MuxerInv(m), NEW f \in Frame, m.state = "STOPPED"
  PROVE  Shows(StartMuxing(m, f), Gives(NothingGiven, f, TRUE))
<1> DEFINE o == Opened(m)
<1>1. Appendable(o) /\ o.state = "STARTED"
  BY OpenedAppendable
<1>2. ~o.hasCluster /\ o.subtitleData = NoData
  BY OpenedFields DEF MuxerInv
<1>3. StartMuxing(m, f) = AppendFrame(o, f)
  BY DEF StartMuxing
<1> HIDE DEF o
<1>4. ~Exceeds(o, f)
  BY <1>1, <1>2, ExceedsHasCluster
<1>5. FrameShown(o, f, AppendFrame(o, f))
  BY <1>1, <1>4, AppendFrameWrites
<1>6. OpensCluster(o, f)
  BY <1>2 DEF OpensCluster
<1>7. /\ NothingGiven \in [data : Data \cup {NoData}, emptied : BOOLEAN]
      /\ NothingGiven.data = NoData
  BY DEF NothingGiven
<1>8. QED
  BY <1>2, <1>3, <1>5, <1>6, <1>7, FrameShows

LEMMA AppendShows ==
  ASSUME NEW m, MuxerInv(m), NEW f \in Frame,
         NEW g \in [data : Data \cup {NoData}, emptied : BOOLEAN],
         m.hasCluster => Shows(m, g)
  PROVE  LET n == AppendFrame(m, f)
         IN n.hasCluster => Shows(n, Gives(g, f, OpensCluster(m, f)))
<1>0. m.state \in {"STOPPED", "STARTED"} /\ Appendable(m)
  BY MuxerInvAppendable DEF MuxerInv, MuxerState
<1>1. CASE m.state = "STOPPED"
  <2>1. AppendFrame(m, f) = m /\ ~m.hasCluster
    BY <1>1 DEF AppendFrame, MuxerInv
  <2>2. QED
    BY <2>1
<1>2. CASE m.state = "STARTED" /\ Exceeds(m, f)
  <2> DEFINE begun == [m EXCEPT !.first = FirstFrameTimecode(m, f)]
  <2>1. AppendFrame(m, f) = StopMuxing(begun)
    BY <1>2 DEF AppendFrame
  <2>2. begun.state = "STARTED" /\ begun \in MuxerState
    BY <1>0, <1>2, FirstFrameType DEF Appendable, MuxerState
  <2> HIDE DEF begun
  <2>3. ~StopMuxing(begun).hasCluster
    BY <2>2 DEF StopMuxing, MuxerState
  <2>4. QED
    BY <2>1, <2>3
<1>3. CASE m.state = "STARTED" /\ ~Exceeds(m, f)
  <2>1. FrameShown(m, f, AppendFrame(m, f))
    BY <1>0, <1>3, AppendFrameWrites
  <2>2. m.hasCluster
    BY <1>3 DEF MuxerInv, FileSpan
  <2>3. OpensCluster(m, f) \in BOOLEAN
    BY DEF OpensCluster
  <2>4. Shows(m, g) /\ m.subtitleData = g.data
    BY <2>2 DEF Shows
  <2>5. QED
    BY <2>1, <2>3, <2>4, FrameShows
<1>4. QED
  BY <1>0, <1>1, <1>2, <1>3

\* Whatever the client does, the muxer satisfies MuxerInv between two calls, and its
\* file shows the OSD that the client expects.
THEOREM MuxerSpecInv == MuxerSpec => []MuxerIInv
<1>1. MuxerInit => MuxerIInv
  BY NewMuxerInv DEF MuxerInit, MuxerIInv, NothingGiven, NewMuxer
<1>2. MuxerIInv /\ [MuxerNext]_clientVars => MuxerIInv'
  <2> SUFFICES ASSUME MuxerIInv, [MuxerNext]_clientVars PROVE MuxerIInv'
    OBVIOUS
  <2> DEFINE GivenType == [data : Data \cup {NoData}, emptied : BOOLEAN]
  <2>i. MuxerInv(muxer) /\ given \in GivenType /\ (muxer.hasCluster => Shows(muxer, given))
    BY DEF MuxerIInv
  <2>j. SUFFICES /\ MuxerInv(muxer')
                 /\ given' \in GivenType
                 /\ muxer'.hasCluster => Shows(muxer', given')
    BY DEF MuxerIInv, Shows
  <2>0. ASSUME NEW f \in Frames(Timecodes) PROVE f \in Frame
    BY ClientAssumption DEF Frame, Frames
  <2>1. CASE ClientConfigures
    <3>1. PICK d \in MaxDurations : muxer' = SetFileConfig(muxer, d)
      BY <2>1 DEF ClientConfigures
    <3>2. given' = given /\ MuxerInv(muxer')
      BY <2>1, <2>i, <3>1, SetFileConfigInv, ClientAssumption DEF ClientConfigures
    <3>3. /\ muxer'.hasCluster = muxer.hasCluster
          /\ muxer'.subtitleData = muxer.subtitleData /\ muxer'.shown = muxer.shown
      BY <2>i, <3>1 DEF SetFileConfig, MuxerInv, MuxerState
    <3>4. QED
      BY <2>i, <3>2, <3>3 DEF Shows
  <2>2. CASE ClientStarts
    <3>1. PICK f \in Frames(Timecodes) :
             /\ muxer' = StartMuxing(muxer, f)
             /\ given' = IF muxer.state = "STOPPED" THEN Gives(NothingGiven, f, TRUE) ELSE given
      BY <2>2 DEF ClientStarts
    <3>2. f \in Frame
      BY <2>0
    <3>3. CASE muxer.state = "STOPPED"
      <4>1. MuxerInv(muxer')
        BY <2>i, <3>1, <3>2, <3>3, StartMuxingInv
      <4>2. Shows(muxer', given')
        BY <2>i, <3>1, <3>2, <3>3, StartShows
      <4>3. given' \in GivenType
        BY <3>1, <3>2, <3>3, GivesType DEF NothingGiven
      <4>4. QED
        BY <4>1, <4>2, <4>3
    <3>4. CASE muxer.state # "STOPPED"
      BY <2>i, <3>1, <3>4 DEF StartMuxing
    <3>5. QED
      BY <3>3, <3>4
  <2>3. CASE ClientAppends
    <3>1. PICK f \in Frames(Timecodes) :
             /\ muxer' = AppendFrame(muxer, f)
             /\ given' = Gives(given, f, OpensCluster(muxer, f))
      BY <2>3 DEF ClientAppends
    <3>2. f \in Frame /\ OpensCluster(muxer, f) \in BOOLEAN
      BY <2>0 DEF OpensCluster
    <3>3. MuxerInv(muxer')
      BY <2>i, <3>1, <3>2, AppendFrameInv
    <3>4. given' \in GivenType
      BY <2>i, <3>1, <3>2, GivesType
    <3>5. muxer'.hasCluster => Shows(muxer', given')
      BY <2>i, <3>1, <3>2, AppendShows
    <3>6. QED
      BY <3>3, <3>4, <3>5
  <2>4. CASE ClientStops
    <3>1. muxer' = StopMuxing(muxer) /\ given' = given
      BY <2>4 DEF ClientStops
    <3>2. MuxerInv(muxer')
      BY <2>i, <3>1, StopMuxingKeeps
    <3>3. ~muxer'.hasCluster
      BY <2>i, <3>1 DEF StopMuxing, MuxerInv, MuxerState
    <3>4. QED
      BY <2>i, <3>1, <3>2, <3>3
  <2>5. CASE UNCHANGED clientVars
    BY <2>5, <2>i DEF clientVars
  <2>6. QED
    BY <2>1, <2>2, <2>3, <2>4, <2>5 DEF MuxerNext
<1>3. QED
  BY <1>1, <1>2, PTL DEF MuxerSpec

\* The state of the muxer is always well formed.
THEOREM MuxerTypeCorrect == MuxerSpec => []MuxerTypeOK
<1>1. MuxerIInv => MuxerTypeOK
  BY DEF MuxerIInv, MuxerInv, MuxerTypeOK
<1>2. QED
  BY <1>1, MuxerSpecInv, PTL

\* Block timecodes always fit their cluster, whatever timecodes the frames have.
THEOREM ClusterSpanBounded == MuxerSpec => []BlocksFitTheirCluster
<1>1. MuxerIInv => BlocksFitTheirCluster
  BY DEF MuxerIInv, MuxerInv, BlocksFitTheirCluster
<1>2. QED
  BY <1>1, MuxerSpecInv, PTL

\* A file is shorter than its maximum, and suggests to split before it reaches half.
THEOREM FileSpanBounded == MuxerSpec => []FileWithinBounds
<1>1. MuxerIInv => FileWithinBounds
  BY DEF MuxerIInv, MuxerInv, FileWithinBounds
<1>2. QED
  BY <1>1, MuxerSpecInv, PTL

\* No pointer to a subtitle outlives its cluster.
THEOREM SubtitleInCluster == MuxerSpec => []NoDanglingSubtitle
<1>1. MuxerIInv => NoDanglingSubtitle
  BY DEF MuxerIInv, MuxerInv, NoDanglingSubtitle
<1>2. QED
  BY <1>1, MuxerSpecInv, PTL

\* Only files with a cluster, which exist on disk, are reported closed.
THEOREM ReportedFilesExist == MuxerSpec => []ClosedFilesExist
<1>1. MuxerIInv => ClosedFilesExist
  BY DEF MuxerIInv, MuxerInv, ClosedExist, ClosedFilesExist
<1>2. QED
  BY <1>1, MuxerSpecInv, PTL

\* The open cluster shows the OSD the client gave last.
THEOREM SubtitleInEveryCluster == MuxerSpec => []EveryClusterHasSubtitle
<1>1. MuxerIInv => EveryClusterHasSubtitle
  BY DEF MuxerIInv, MuxerInv, EveryClusterHasSubtitle, Shows, SubtitleAtHead
<1>2. QED
  BY <1>1, MuxerSpecInv, PTL

-----------------------------------------------------------------------------
(* The recorder.                                                           *)
SplitPending ==
  /\ muxer.state = "STARTED" /\ ~muxer.isSuggest => isSplitting
  /\ muxer.state = "STARTED" => isRecording

FileShowsOsd == muxer.state = "STARTED" => ShowsOsd(muxer, osd)

RecorderInv ==
  /\ TypeOK
  /\ MuxerInv(muxer)
  /\ FlagsAgree
  /\ EveryFileReportedOnce
  /\ SplitPending
  /\ FileShowsOsd

-----------------------------------------------------------------------------
(* Frames and durations.                                                   *)

LEMMA NextFrameIsFrame ==
  ASSUME NEW f \in NextFrames
  PROVE  f \in Frame /\ f.timecode \in NextTimecodes
<1>1. NextTimecodes \subseteq Timecode
  BY RecorderAssumption, MuxerAssumption DEF NextTimecodes, Timecode
<1>2. QED
  BY <1>1 DEF NextFrames, Frame, Frames

LEMMA SuggestedType ==
  ASSUME NEW t \in Timecode
  PROVE  /\ SuggestedDuration(t) \in Nat \ {0}
         /\ 2 * SuggestedDuration(t) \in Nat \ {0}
         /\ (2 * SuggestedDuration(t)) \div 2 = SuggestedDuration(t)
<1>1. t \in Nat /\ SlotDuration \in Nat /\ SlotDuration > 0
  BY MuxerAssumption, RecorderAssumption DEF Timecode
<1>2. t % SlotDuration \in 0 .. SlotDuration - 1
  BY <1>1
<1>3. SuggestedDuration(t) \in Nat \ {0}
  BY <1>1, <1>2 DEF SuggestedDuration
<1>4. QED
  BY <1>3

LEMMA OsdFrameIsFrame ==
  ASSUME NEW f \in Frame, osd \in Data \cup {NoData}
  PROVE  OsdFrame(f) \in Frame
BY FrameFields DEF OsdFrame, Frame, Frames, Streams

LEMMA ExtraFrameIsFrame ==
  ASSUME NEW f \in Frame
  PROVE  LET e == [f EXCEPT !.isKey = FALSE] IN
         e \in Frame /\ e.timecode = f.timecode /\ e.stream = f.stream
BY DEF Frame, Frames, Streams

-----------------------------------------------------------------------------
(* The effect of the operations of the muxer on what the recorder sees.    *)

LEMMA StopMuxingEffect ==
  ASSUME NEW m, MuxerInv(m)
  PROVE  LET n == StopMuxing(m) IN
         /\ MuxerInv(n) /\ n.state = "STOPPED"
         /\ n.first = m.first /\ n.last = m.last /\ n.maxDuration = m.maxDuration
         /\ n.isSuggest = m.isSuggest
         /\ Len(n.closed) = Len(m.closed) + (IF m.state = "STARTED" THEN 1 ELSE 0)
<1>1. m \in MuxerState /\ MuxerInv(StopMuxing(m))
  BY StopMuxingKeeps DEF MuxerInv
<1>2. CASE m.state = "STOPPED"
  BY <1>1, <1>2 DEF StopMuxing, MuxerState
<1>3. CASE m.state = "STARTED"
  <2> DEFINE e == [start |-> m.first, end |-> m.last, hasName |-> m.hasCluster]
  <2>1. StopMuxing(m) = [m EXCEPT !.state = "STOPPED", !.hasCluster = FALSE,
                                  !.openSubtitle = NoBlock, !.closed = Append(@, e)]
    BY <1>3 DEF StopMuxing
  <2>2. e \in FileClosedEvent /\ m.closed \in Seq(FileClosedEvent)
    BY <1>1 DEF MuxerState, FileClosedEvent
  <2> HIDE DEF e
  <2>3. Len(Append(m.closed, e)) = Len(m.closed) + 1
    BY <2>2
  <2>4. QED
    BY <1>1, <1>3, <2>1, <2>3 DEF MuxerState
<1>4. QED
  BY <1>1, <1>2, <1>3 DEF MuxerState

LEMMA ExceedingFrameEffect ==
  ASSUME NEW m, MuxerInv(m), NEW f \in Frame, m.state = "STARTED", Exceeds(m, f)
  PROVE  LET n == AppendFrame(m, f) IN
         /\ MuxerInv(n) /\ n.state = "STOPPED"
         /\ n.first = FirstFrameTimecode(m, f) /\ n.last = m.last
         /\ n.maxDuration = m.maxDuration /\ n.isSuggest = m.isSuggest
         /\ Len(n.closed) = Len(m.closed) + 1
<1> DEFINE t == FirstFrameTimecode(m, f)
           b == [m EXCEPT !.first = t]
           e == [start |-> b.first, end |-> b.last, hasName |-> b.hasCluster]
<1>1. m \in MuxerState /\ t \in Timecode /\ MuxerInv(AppendFrame(m, f))
  BY FirstFrameType, AppendFrameInv DEF MuxerInv
<1>2. AppendFrame(m, f) = StopMuxing(b)
  BY DEF AppendFrame
<1> HIDE DEF t
<1>3. b \in MuxerState /\ b.first = t /\ b.state = m.state /\ b.last = m.last
      /\ b.maxDuration = m.maxDuration /\ b.isSuggest = m.isSuggest /\ b.closed = m.closed
  BY <1>1 DEF MuxerState
<1> HIDE DEF b
<1>4. StopMuxing(b) = [b EXCEPT !.state = "STOPPED", !.hasCluster = FALSE,
                                !.openSubtitle = NoBlock, !.closed = Append(@, e)]
  BY <1>3 DEF StopMuxing
<1>5. e \in FileClosedEvent /\ b.closed \in Seq(FileClosedEvent)
  BY <1>3 DEF MuxerState, FileClosedEvent
<1> HIDE DEF e
<1>6. Len(Append(b.closed, e)) = Len(b.closed) + 1
  BY <1>5
<1>7. QED
  BY <1>1, <1>2, <1>3, <1>4, <1>6 DEF MuxerState, t

LEMMA SameTimeFrame ==
  ASSUME NEW m, MuxerInv(m), NEW f \in Frame, m.state = "STARTED",
         m.first = f.timecode, m.isSuggest, m.maxDuration \div 2 > 0
  PROVE  LET n == AppendFrame(m, f) IN
         /\ MuxerInv(n) /\ n.state = "STARTED"
         /\ n.closed = m.closed /\ n.maxDuration = m.maxDuration
         /\ n.first = f.timecode /\ n.last = f.timecode /\ n.isSuggest
         /\ f.stream # "subtitle" => \A o : ShowsOsd(m, o) => ShowsOsd(n, o)
         /\ f.stream = "subtitle" => ShowsOsd(n, f.data)
<1>1. FirstFrameTimecode(m, f) = f.timecode
  BY DEF FirstFrameTimecode
<1>2. Elapsed(f.timecode, f.timecode) = 0
  BY FrameFields, ElapsedZero
<1>3. m.maxDuration \in Nat /\ m.maxDuration > 0
  BY DEF MuxerInv, MuxerState
<1>4. ~Exceeds(m, f) /\ ~Suggests(m, f)
  BY <1>1, <1>2, <1>3 DEF Exceeds, Suggests
<1>5. Appendable(m)
  BY MuxerInvAppendable
<1>6. QED
  BY <1>1, <1>4, <1>5, AppendFrameWrites

\* The file that OpenFile opens: it starts now, lasts twice the rest of the slot,
\* shows the OSD, and has not suggested to split yet.
Fresh(n, m, f) ==
  /\ MuxerInv(n) /\ n.state = "STARTED" /\ n.closed = m.closed
  /\ n.maxDuration = 2 * SuggestedDuration(f.timecode)
  /\ n.first = f.timecode /\ n.last = f.timecode /\ n.isSuggest

LEMMA StartedWithFresh ==
  ASSUME NEW m, MuxerInv(m), m.state = "STOPPED", NEW f \in Frame, osd \in Data \cup {NoData}
  PROVE  Fresh(StartedWith(m, f), m, f) /\ ShowsOsd(StartedWith(m, f), osd)
<1> DEFINE d == 2 * SuggestedDuration(f.timecode)
           c == SetFileConfig(m, d)
           s == StartMuxing(c, f)
<1>1. d \in Nat \ {0} /\ d \div 2 > 0
  BY FrameFields, SuggestedType
<1>2. MuxerInv(c)
  BY <1>1, SetFileConfigInv
<1>3. c.state = "STOPPED" /\ c.maxDuration = d /\ c.closed = m.closed
  <2>1. m \in MuxerState
    BY DEF MuxerInv
  <2> HIDE DEF d
  <2>2. QED
    BY <2>1 DEF SetFileConfig, MuxerState
<1> HIDE DEF c
<1>4. Fresh(s, m, f)
  BY <1>1, <1>2, <1>3, StartMuxingInv DEF Fresh
<1>5. StartedWith(m, f) = AppendOsdFrameIfExist(s, f)
  BY DEF StartedWith, c
<1> HIDE DEF s
<1>6. CASE osd = NoData
  BY <1>4, <1>5, <1>6 DEF AppendOsdFrameIfExist, ShowsOsd
<1>7. CASE osd # NoData
  <2>1. OsdFrame(f) \in Frame
    BY OsdFrameIsFrame
  <2>2. /\ OsdFrame(f).timecode = f.timecode /\ OsdFrame(f).stream = "subtitle"
        /\ OsdFrame(f).data = osd
    BY DEF OsdFrame
  <2>3. s.maxDuration \div 2 > 0
    BY <1>1, <1>4 DEF Fresh
  <2>4. StartedWith(m, f) = AppendFrame(s, OsdFrame(f))
    BY <1>5, <1>7 DEF AppendOsdFrameIfExist
  <2>5. QED
    BY <1>4, <2>1, <2>2, <2>3, <2>4, SameTimeFrame DEF Fresh
<1>8. QED
  BY <1>6, <1>7

LEMMA OpenFileFresh ==
  ASSUME RecorderInv, NEW f \in NextFrames, OpenFile(f)
  PROVE  \E ready :
           /\ MuxerInv(ready) /\ ready.state = "STOPPED"
           /\ ready = IF Splits(f) THEN Stopped ELSE muxer
           /\ Len(ready.closed) = opened
           /\ Fresh(muxer', ready, f) /\ ShowsOsd(muxer', osd)
<1> DEFINE ready == IF Splits(f) THEN Stopped ELSE muxer
           extra == [f EXCEPT !.isKey = FALSE]
<1>1. f \in Frame /\ osd \in Data \cup {NoData} /\ f.stream = "video"
  BY NextFrameIsFrame DEF RecorderInv, TypeOK, OpenFile, Splits, IsVideo
<1>2. MuxerInv(muxer) /\ (muxer.state = "STOPPED" \/ muxer.state = "STARTED")
  BY DEF RecorderInv, MuxerInv, MuxerState
<1>3. MuxerInv(ready) /\ ready.state = "STOPPED" /\ Len(ready.closed) = opened
  <2>1. CASE Splits(f)
    <3>1. ready = StopMuxing(muxer)
      BY <2>1 DEF Stopped, Splits
    <3>2. Len(muxer.closed) \in Nat
      BY <1>2 DEF MuxerInv, MuxerState
    <3>3. QED
      BY <1>2, <3>1, <3>2, StopMuxingEffect DEF RecorderInv, EveryFileReportedOnce
  <2>2. CASE ~Splits(f)
    <3>1. muxer.state = "STOPPED"
      BY <2>2 DEF OpenFile, RecorderInv, FlagsAgree
    <3>2. Len(muxer.closed) \in Nat
      BY <1>2 DEF MuxerInv, MuxerState
    <3>3. QED
      BY <1>2, <2>2, <3>1, <3>2 DEF RecorderInv, EveryFileReportedOnce
  <2>3. QED
    BY <2>1, <2>2
<1>4. muxer' = IF hasExtra THEN AppendFrame(StartedWith(ready, extra), f) ELSE StartedWith(ready, f)
  BY DEF OpenFile
<1> HIDE DEF ready
<1>5. CASE ~hasExtra
  <2>1. Fresh(muxer', ready, f) /\ ShowsOsd(muxer', osd)
    BY <1>1, <1>3, <1>4, <1>5, StartedWithFresh
  <2>2. QED
    BY <1>3, <2>1 DEF ready
<1>6. CASE hasExtra
  <2> DEFINE s == StartedWith(ready, extra)
  <2>1. extra \in Frame /\ extra.timecode = f.timecode
    BY <1>1, ExtraFrameIsFrame
  <2> HIDE DEF extra
  <2>2. Fresh(s, ready, extra) /\ ShowsOsd(s, osd)
    BY <1>1, <1>3, <2>1, StartedWithFresh
  <2>3. Fresh(s, ready, f)
    BY <2>1, <2>2 DEF Fresh
  <2>4. s.maxDuration \div 2 > 0
    BY <1>1, <2>3, FrameFields, SuggestedType DEF Fresh
  <2>5. muxer' = AppendFrame(s, f)
    BY <1>4, <1>6
  <2> HIDE DEF s
  <2>6. Fresh(muxer', ready, f) /\ ShowsOsd(muxer', osd)
    BY <1>1, <2>2, <2>3, <2>4, <2>5, SameTimeFrame DEF Fresh
  <2>7. QED
    BY <1>3, <2>6 DEF ready
<1>7. QED
  BY <1>5, <1>6

-----------------------------------------------------------------------------
(* Each action keeps RecorderInv.                                          *)

LEMMA RecorderInvFacts ==
  ASSUME RecorderInv
  PROVE  /\ muxer \in MuxerState /\ muxer.state \in {"STOPPED", "STARTED"}
         /\ MuxerInv(muxer) /\ Len(muxer.closed) \in Nat
BY DEF RecorderInv, MuxerInv, MuxerState

LEMMA StoppedEffect ==
  ASSUME RecorderInv
  PROVE  /\ MuxerInv(Stopped) /\ Stopped.state = "STOPPED"
         /\ Len(Stopped.closed) = opened
<1>1. CASE isRecording
  <2>1. Stopped = StopMuxing(muxer)
    BY <1>1 DEF Stopped
  <2>2. opened = Len(muxer.closed) + (IF muxer.state = "STARTED" THEN 1 ELSE 0)
    BY DEF RecorderInv, EveryFileReportedOnce
  <2>3. /\ MuxerInv(StopMuxing(muxer)) /\ StopMuxing(muxer).state = "STOPPED"
        /\ Len(StopMuxing(muxer).closed)
             = Len(muxer.closed) + (IF muxer.state = "STARTED" THEN 1 ELSE 0)
    BY RecorderInvFacts, StopMuxingEffect
  <2>4. QED
    BY <2>1, <2>2, <2>3
<1>2. CASE ~isRecording
  <2>1. Stopped = muxer /\ muxer.state = "STOPPED"
    BY <1>2 DEF Stopped, RecorderInv, FlagsAgree
  <2>2. opened = Len(muxer.closed) + 0
    BY <2>1 DEF RecorderInv, EveryFileReportedOnce
  <2>3. QED
    BY <2>1, <2>2, RecorderInvFacts
<1>3. QED
  BY <1>1, <1>2

LEMMA StopKeepsInv ==
  ASSUME RecorderInv, muxer' = Stopped, ~isSplitting',
         isRecording' \in BOOLEAN, isWaitingForFirstFrame' = isRecording',
         isSplitting' \in BOOLEAN, hasAudio' \in BOOLEAN, hasExtra' \in BOOLEAN,
         UNCHANGED <<osd, clock, opened>>
  PROVE  RecorderInv'
<1>1. MuxerInv(muxer') /\ muxer'.state = "STOPPED" /\ Len(muxer'.closed) = opened'
  BY StoppedEffect
<1>2. TypeOK'
  BY <1>1 DEF RecorderInv, TypeOK, MuxerInv
<1>3. FlagsAgree' /\ SplitPending' /\ FileShowsOsd'
  BY <1>1 DEF FlagsAgree, SplitPending, FileShowsOsd
<1>4. EveryFileReportedOnce'
  <2>1. opened' \in Nat
    BY DEF RecorderInv, TypeOK
  <2>2. QED
    BY <1>1, <2>1 DEF EveryFileReportedOnce
<1>5. QED
  BY <1>1, <1>2, <1>3, <1>4 DEF RecorderInv

LEMMA RefusedKeepsInv ==
  ASSUME RecorderInv, NEW f \in NextFrames, AppendRefused(f)
  PROVE  RecorderInv'
<1>1. f.timecode \in Timecode /\ f.data \in Data \cup {NoData}
  BY NextFrameIsFrame, FrameFields
<1>2. UNCHANGED <<muxer, isRecording, isWaitingForFirstFrame, isSplitting, hasAudio, hasExtra, opened>>
  BY DEF AppendRefused, flags, config
<1>3. muxer.state = "STARTED" => osd' = osd
  <2>1. SUFFICES ASSUME muxer.state = "STARTED" PROVE f.stream = "audio"
    BY DEF AppendRefused, BackupOsdBuffer
  <2>2. isRecording /\ ~isWaitingForFirstFrame
    BY <2>1 DEF RecorderInv, FlagsAgree
  <2>3. QED
    BY <2>2 DEF AppendRefused, NoFileToWrite, DropsFirstFrame, NoStreamFor
<1>4. osd' \in Data \cup {NoData} /\ clock' \in Timecode
  BY <1>1 DEF AppendRefused, BackupOsdBuffer, RecorderInv, TypeOK
<1>5. TypeOK'
  BY <1>2, <1>4 DEF RecorderInv, TypeOK
<1>6. MuxerInv(muxer') /\ FlagsAgree' /\ EveryFileReportedOnce' /\ SplitPending'
  BY <1>2 DEF RecorderInv, FlagsAgree, EveryFileReportedOnce, SplitPending
<1>7. FileShowsOsd'
  BY <1>2, <1>3 DEF RecorderInv, FileShowsOsd
<1>8. QED
  BY <1>5, <1>6, <1>7 DEF RecorderInv

LEMMA OpenKeepsInv ==
  ASSUME RecorderInv, NEW f \in NextFrames, OpenFile(f)
  PROVE  RecorderInv'
<1>1. PICK ready : /\ Len(ready.closed) = opened
                   /\ Fresh(muxer', ready, f) /\ ShowsOsd(muxer', osd)
  BY OpenFileFresh
<1>2. f.timecode \in Timecode
  BY NextFrameIsFrame, FrameFields
<1>3. UNCHANGED <<isRecording, hasAudio, hasExtra, osd>> /\ isRecording /\ ~isWaitingForFirstFrame'
      /\ opened' = opened + 1 /\ clock' = f.timecode
  BY DEF OpenFile, config, Splits
<1>4. isSplitting' = (isSplitting /\ ~Splits(f))
  BY <1>1 DEF OpenFile, Fresh
<1>5. TypeOK'
  <2>1. isWaitingForFirstFrame' \in BOOLEAN /\ isSplitting' \in BOOLEAN
    BY <1>4 DEF OpenFile, Splits, RecorderInv, TypeOK
  <2>2. muxer' \in MuxerState
    BY <1>1 DEF Fresh, MuxerInv
  <2>3. QED
    BY <1>2, <1>3, <2>1, <2>2 DEF RecorderInv, TypeOK
<1>6. FlagsAgree' /\ SplitPending' /\ FileShowsOsd'
  BY <1>1, <1>3 DEF FlagsAgree, SplitPending, FileShowsOsd, Fresh
<1>7. EveryFileReportedOnce'
  <2>1. opened \in Nat /\ muxer'.state = "STARTED" /\ Len(muxer'.closed) = opened
    BY <1>1 DEF RecorderInv, TypeOK, Fresh
  <2>2. QED
    BY <1>3, <2>1 DEF EveryFileReportedOnce
<1>8. QED
  BY <1>1, <1>5, <1>6, <1>7 DEF RecorderInv, Fresh

\* What AppendToFile does to the muxer: nothing, close the file, or write the frame.
LEMMA AppendToFileEffect ==
  ASSUME RecorderInv, NEW f \in NextFrames, AppendToFile(f)
  PROVE  /\ MuxerInv(muxer')
         /\ \/ muxer.state = "STOPPED" /\ muxer' = muxer /\ (isSplitting' <=> isSplitting)
            \/ /\ muxer.state = "STARTED" /\ muxer'.state = "STOPPED" /\ Exceeds(muxer, f)
               /\ Len(muxer'.closed) = Len(muxer.closed) + 1
               /\ muxer'.maxDuration = muxer.maxDuration
               /\ muxer'.first = FirstFrameTimecode(muxer, f)
               /\ muxer'.isSuggest = muxer.isSuggest
               /\ isSplitting' <=> isSplitting
            \/ /\ muxer.state = "STARTED" /\ muxer'.state = "STARTED"
               /\ muxer'.closed = muxer.closed
               /\ muxer'.maxDuration = muxer.maxDuration
               /\ muxer'.first = FirstFrameTimecode(muxer, f) /\ muxer'.last = f.timecode
               /\ muxer'.isSuggest = (muxer.isSuggest /\ ~Suggests(muxer, f))
               /\ isSplitting' = (isSplitting \/ Suggests(muxer, f))
               /\ FileShowsOsd'
<1>1. f \in Frame /\ MuxerInv(muxer) /\ Appendable(muxer) /\ muxer.state \in {"STOPPED", "STARTED"}
  BY NextFrameIsFrame, RecorderInvFacts, MuxerInvAppendable
<1>2. muxer' = AppendFrame(muxer, f) /\ isSplitting' = (isSplitting \/ Suggests(muxer, f))
  BY DEF AppendToFile
<1>3. isSplitting \in BOOLEAN
  BY DEF RecorderInv, TypeOK
<1>4. CASE muxer.state = "STOPPED"
  BY <1>1, <1>2, <1>3, <1>4 DEF AppendFrame, Suggests
<1>5. CASE muxer.state = "STARTED" /\ Exceeds(muxer, f)
  BY <1>1, <1>2, <1>3, <1>5, ExceedingFrameEffect DEF Suggests
<1>6. CASE muxer.state = "STARTED" /\ ~Exceeds(muxer, f)
  <2>1. ShowsOsd(muxer, osd)
    BY <1>6 DEF RecorderInv, FileShowsOsd
  <2>2. osd' = IF f.stream = "subtitle" THEN f.data ELSE osd
    BY DEF AppendToFile, BackupOsdBuffer
  <2>3. ShowsOsd(muxer', osd')
    BY <1>1, <1>2, <1>6, <2>1, <2>2, AppendFrameWrites
  <2>4. QED
    BY <1>1, <1>2, <1>6, <2>3, AppendFrameWrites DEF FileShowsOsd
<1>7. QED
  BY <1>1, <1>4, <1>5, <1>6

LEMMA AppendKeepsInv ==
  ASSUME RecorderInv, NEW f \in NextFrames, AppendToFile(f)
  PROVE  RecorderInv'
<1>1. f.timecode \in Timecode /\ f.data \in Data \cup {NoData}
  BY NextFrameIsFrame, FrameFields
<1>2. UNCHANGED <<isRecording, isWaitingForFirstFrame, hasAudio, hasExtra, opened>>
      /\ isRecording /\ ~isWaitingForFirstFrame
  BY DEF AppendToFile, config
<1>3. osd' \in Data \cup {NoData} /\ clock' \in Timecode
  BY <1>1 DEF AppendToFile, BackupOsdBuffer, RecorderInv, TypeOK
<1>4. MuxerInv(muxer') /\ muxer' \in MuxerState /\ isSplitting' \in BOOLEAN
  BY AppendToFileEffect DEF MuxerInv, AppendToFile, Suggests, RecorderInv, TypeOK
<1>5. TypeOK'
  BY <1>2, <1>3, <1>4 DEF RecorderInv, TypeOK
<1>6. FlagsAgree'
  BY <1>2 DEF FlagsAgree
<1>7. EveryFileReportedOnce'
  <2> DEFINE open  == IF muxer.state = "STARTED" THEN 1 ELSE 0
             open2 == IF muxer'.state = "STARTED" THEN 1 ELSE 0
  <2>1. opened = Len(muxer.closed) + open /\ Len(muxer.closed) \in Nat
    BY RecorderInvFacts DEF RecorderInv, EveryFileReportedOnce
  <2>2. Len(muxer'.closed) + open2 = Len(muxer.closed) + open
    <3>1. CASE muxer.state = "STOPPED" /\ muxer' = muxer
      BY <3>1
    <3>2. CASE muxer.state = "STARTED" /\ muxer'.state = "STOPPED"
      <4>1. Len(muxer'.closed) = Len(muxer.closed) + 1
        BY <3>2, AppendToFileEffect
      <4>2. QED
        BY <2>1, <3>2, <4>1
    <3>3. CASE muxer.state = "STARTED" /\ muxer'.state = "STARTED"
      BY <3>3, AppendToFileEffect
    <3>4. QED
      BY <3>1, <3>2, <3>3, AppendToFileEffect
  <2>3. QED
    BY <1>2, <2>1, <2>2 DEF EveryFileReportedOnce
<1>8. SplitPending'
  BY <1>2, AppendToFileEffect DEF RecorderInv, SplitPending
<1>9. FileShowsOsd'
  BY AppendToFileEffect DEF FileShowsOsd
<1>10. QED
  BY <1>4, <1>5, <1>6, <1>7, <1>8, <1>9 DEF RecorderInv

LEMMA InitInv == Init => RecorderInv
<1> SUFFICES ASSUME Init PROVE RecorderInv
  OBVIOUS
<1>1. MuxerInv(muxer) /\ muxer.state = "STOPPED" /\ muxer.closed = <<>>
  BY NewMuxerInv DEF Init, NewMuxer
<1>2. 1 \in Timecode
  BY RecorderAssumption, MuxerAssumption DEF Timecode, Init
<1>3. TypeOK
  BY <1>1, <1>2 DEF Init, TypeOK, MuxerInv
<1>4. EveryFileReportedOnce
  BY <1>1 DEF Init, EveryFileReportedOnce
<1>5. QED
  BY <1>1, <1>3, <1>4 DEF Init, RecorderInv, FlagsAgree, SplitPending, FileShowsOsd

LEMMA NextInv == RecorderInv /\ [Next]_vars => RecorderInv'
<1> SUFFICES ASSUME RecorderInv, [Next]_vars PROVE RecorderInv'
  OBVIOUS
<1>1. ASSUME NEW video \in BOOLEAN, NEW audio \in BOOLEAN, NEW extra \in BOOLEAN,
             StartRecording(video, audio, extra)
      PROVE  RecorderInv'
  <2>1. hasAudio' \in BOOLEAN /\ hasExtra' \in BOOLEAN
    BY <1>1 DEF StartRecording, config, RecorderInv, TypeOK
  <2>2. QED
    BY <1>1, <2>1, StopKeepsInv DEF StartRecording
<1>2. CASE StopRecording
  BY <1>2, StopKeepsInv DEF StopRecording, config, RecorderInv, TypeOK
<1>3. ASSUME NEW f \in NextFrames, AppendRefused(f) \/ OpenFile(f) \/ AppendToFile(f)
      PROVE  RecorderInv'
  BY <1>3, RefusedKeepsInv, OpenKeepsInv, AppendKeepsInv
<1>4. CASE UNCHANGED vars
  BY <1>4 DEF vars, flags, config, RecorderInv, TypeOK, FlagsAgree, EveryFileReportedOnce,
       SplitPending, FileShowsOsd
<1>5. QED
  BY <1>1, <1>2, <1>3, <1>4 DEF Next

-----------------------------------------------------------------------------
(* The theorems.                                                           *)

\* The inductive invariant holds in every reachable state.
THEOREM RecorderInvariant == Spec => []RecorderInv
<1>1. QED
  BY InitInv, NextInv, PTL DEF Spec

\* The state of the recorder is always well formed.
THEOREM TypeCorrect == Spec => []TypeOK
<1>1. RecorderInv => TypeOK
  BY DEF RecorderInv
<1>2. QED
  BY <1>1, RecorderInvariant, PTL

\* The flags of the recorder agree with the state of the muxer.
THEOREM FlagsAlwaysAgree == Spec => []FlagsAgree
<1>1. RecorderInv => FlagsAgree
  BY DEF RecorderInv
<1>2. QED
  BY <1>1, RecorderInvariant, PTL

\* No file is reported to the library twice, none is forgotten.
THEOREM FilesReportedOnce == Spec => []EveryFileReportedOnce
<1>1. RecorderInv => EveryFileReportedOnce
  BY DEF RecorderInv
<1>2. QED
  BY <1>1, RecorderInvariant, PTL

\* The OSD of the channel is in the current cluster of every open file.
THEOREM OsdInEveryCluster == Spec => []ClusterShowsOsd
<1>1. RecorderInv => ClusterShowsOsd
  BY DEF RecorderInv, FileShowsOsd, ShowsOsd, ClusterShowsOsd
<1>2. QED
  BY <1>1, RecorderInvariant, PTL

\* Arithmetic of StuckOnlyAfterGap: what lies between the last frame of a file
\* and a frame that exceeds its maximum.
LEMMA GapArithmetic ==
  ASSUME NEW t \in Timecode, NEW last \in Timecode, NEW first \in Timecode, NEW d \in Nat,
         Elapsed(t, first) >= d, Elapsed(last, first) < d \div 2
  PROVE  Elapsed(t, last) > d \div 2
BY MuxerAssumption DEF Elapsed, Timecode

\* Only a gap in the stream can leave a recording without a file for good.
THEOREM OnlyGapsGetStuck == Spec => StuckOnlyAfterGap
<1>1. RecorderInv /\ [Next]_vars =>
        [~Stuck /\ Stuck' => Elapsed(clock', muxer.last) > muxer.maxDuration \div 2]_vars
  <2> SUFFICES ASSUME RecorderInv, Next, ~Stuck, Stuck'
               PROVE  Elapsed(clock', muxer.last) > muxer.maxDuration \div 2
    OBVIOUS
  <2>1. PICK f \in NextFrames : AppendToFile(f)
    <3>1. ASSUME NEW video \in BOOLEAN, NEW audio \in BOOLEAN, NEW extra \in BOOLEAN,
                 StartRecording(video, audio, extra)
          PROVE  FALSE
      BY <3>1 DEF StartRecording, Stuck
    <3>2. ASSUME StopRecording PROVE FALSE
      BY <3>2 DEF StopRecording, Stuck
    <3>3. ASSUME NEW f \in NextFrames, AppendRefused(f) PROVE FALSE
      BY <3>3 DEF AppendRefused, flags, Stuck
    <3>4. ASSUME NEW f \in NextFrames, OpenFile(f) PROVE FALSE
      BY <3>4, OpenFileFresh DEF Fresh, Stuck
    <3>5. QED
      BY <3>1, <3>2, <3>3, <3>4 DEF Next
  <2>2. isRecording /\ ~isWaitingForFirstFrame /\ clock' = f.timecode /\ f.timecode \in Timecode
    BY <2>1, NextFrameIsFrame, FrameFields DEF AppendToFile
  <2>3. /\ muxer.state = "STARTED" /\ Exceeds(muxer, f) /\ ~isSplitting
    BY <2>1, <2>2, AppendToFileEffect DEF Stuck
  <2>4. muxer.isSuggest
    BY <2>3 DEF RecorderInv, SplitPending
  <2>5. /\ muxer.first \in Timecode /\ muxer.last \in Timecode /\ muxer.maxDuration \in Nat
        /\ Elapsed(muxer.last, muxer.first) < muxer.maxDuration \div 2
    BY <2>3, <2>4 DEF RecorderInv, MuxerInv, MuxerState, FileSpan
  <2>6. muxer.first # 0
    \* else the frame would be the first one, and no frame exceeds on its own
    <3>1. SUFFICES ASSUME muxer.first = 0 PROVE FALSE
      OBVIOUS
    <3>2. Elapsed(f.timecode, f.timecode) >= muxer.maxDuration
      BY <2>3, <3>1 DEF Exceeds, FirstFrameTimecode
    <3>3. QED
      BY <2>2, <3>2, ElapsedZero, RecorderInvFacts DEF MuxerInv, MuxerState
  <2>7. Elapsed(f.timecode, muxer.first) >= muxer.maxDuration
    BY <2>3, <2>6 DEF Exceeds, FirstFrameTimecode
  <2>8. QED
    BY <2>2, <2>5, <2>7, GapArithmetic
<1>2. QED
  BY <1>1, RecorderInvariant, PTL DEF Spec, StuckOnlyAfterGap

-----------------------------------------------------------------------------
(***************************************************************************)
(* The times of the files of one channel, for a channel whose clock is not *)
(* set back (Steps \subseteq Nat).  To RecorderInv the proofs add          *)
(* the invariant OrderInv: every file of a recording started in the past   *)
(* and ends the slot of its first frame, a pending split means that the    *)
(* slot is over, and the files that were closed ended before the one that  *)
(* is open.                                                                *)
(***************************************************************************)

HasFile == isRecording /\ ~isWaitingForFirstFrame

SlotInv ==
  HasFile =>
    /\ 1 <= muxer.first /\ muxer.first <= clock
    /\ muxer.maxDuration = 2 * SuggestedDuration(muxer.first)
    /\ isSplitting => clock >= muxer.first + SuggestedDuration(muxer.first)

\* The files of s are in the order of time and end before b.
Ordered(s, b) ==
  /\ \A i \in DOMAIN s : s[i].start <= s[i].end /\ s[i].end <= b
  /\ \A i, j \in DOMAIN s : i < j => s[i].end <= s[j].start

OpenFileLast ==
  muxer.state = "STARTED" =>
    /\ 1 <= muxer.first /\ muxer.first <= muxer.last /\ muxer.last <= clock
    /\ Ordered(muxer.closed, muxer.first)

OrderInv ==
  /\ RecorderInv
  /\ clock \in Nat
  /\ SlotInv
  /\ OpenFileLast
  /\ Ordered(muxer.closed, clock)

-----------------------------------------------------------------------------
LEMMA TimesOfFiles ==
  ASSUME NEW s \in Seq(FileClosedEvent), NEW i \in DOMAIN s
  PROVE  s[i].start \in Nat /\ s[i].end \in Nat
<1>1. s[i] \in FileClosedEvent
  OBVIOUS
<1>2. \A e \in FileClosedEvent : e.start \in Nat /\ e.end \in Nat
  BY MuxerAssumption DEF FileClosedEvent, Timecode
<1>3. QED
  BY <1>1, <1>2

LEMMA OrderedLater ==
  ASSUME NEW s \in Seq(FileClosedEvent), NEW b \in Nat, NEW c \in Nat, b <= c, Ordered(s, b)
  PROVE  Ordered(s, c)
<1>1. \A i \in DOMAIN s : s[i].end \in Nat
  BY TimesOfFiles
<1>2. QED
  BY <1>1 DEF Ordered

LEMMA OrderedAppend ==
  ASSUME NEW s \in Seq(FileClosedEvent), NEW e \in FileClosedEvent, NEW c \in Nat,
         Ordered(s, e.start), e.start <= e.end, e.end <= c
  PROVE  Ordered(Append(s, e), c)
<1> DEFINE n == Len(s)
           a == Append(s, e)
<1>1. n \in Nat /\ DOMAIN s = 1 .. n /\ DOMAIN a = 1 .. n + 1
  OBVIOUS
<1>2. \A i \in 1 .. n : a[i] = s[i]
  OBVIOUS
<1>3. a[n + 1] = e
  OBVIOUS
<1>4. /\ e.start \in Nat /\ e.end \in Nat
      /\ \A i \in 1 .. n : s[i].end \in Nat /\ s[i].start \in Nat
  <2>1. e.start \in Nat /\ e.end \in Nat
    BY MuxerAssumption DEF FileClosedEvent, Timecode
  <2>2. QED
    BY <1>1, <2>1, TimesOfFiles
<1> HIDE DEF a, n
<1>5. ASSUME NEW i \in 1 .. n + 1
      PROVE  a[i].start <= a[i].end /\ a[i].end <= c
  <2>1. CASE i = n + 1
    BY <1>3, <2>1
  <2>2. CASE i \in 1 .. n
    <3>1. s[i].start <= s[i].end /\ s[i].end <= e.start
      BY <1>1, <2>2 DEF Ordered
    <3>2. QED
      BY <1>2, <1>4, <2>2, <3>1
  <2>3. QED
    BY <1>1, <2>1, <2>2
<1>6. ASSUME NEW i \in 1 .. n + 1, NEW j \in 1 .. n + 1, i < j
      PROVE  a[i].end <= a[j].start
  <2>1. i \in 1 .. n
    BY <1>1, <1>6
  <2>2. CASE j = n + 1
    BY <1>1, <1>2, <1>3, <2>1, <2>2 DEF Ordered
  <2>3. CASE j \in 1 .. n
    BY <1>1, <1>2, <1>6, <2>1, <2>3 DEF Ordered
  <2>4. QED
    BY <1>1, <2>2, <2>3
<1>7. QED
  BY <1>1, <1>5, <1>6 DEF Ordered, a

\* A file that is closed is reported with the times of its first and last frame.
LEMMA StopMuxingReports ==
  ASSUME NEW m \in MuxerState, m.state = "STARTED"
  PROVE  \E e \in FileClosedEvent :
           /\ e.start = m.first /\ e.end = m.last
           /\ StopMuxing(m).closed = Append(m.closed, e)
<1> DEFINE e == [start |-> m.first, end |-> m.last, hasName |-> m.hasCluster]
<1>1. e \in FileClosedEvent /\ e.start = m.first /\ e.end = m.last
  BY DEF MuxerState, FileClosedEvent
<1>2. StopMuxing(m) = [m EXCEPT !.state = "STOPPED", !.hasCluster = FALSE,
                                !.openSubtitle = NoBlock, !.closed = Append(@, e)]
  BY DEF StopMuxing
<1> HIDE DEF e
<1>3. StopMuxing(m).closed = Append(m.closed, e)
  BY <1>2 DEF MuxerState
<1>4. QED
  BY <1>1, <1>3

LEMMA ExceedingFrameReports ==
  ASSUME NEW m \in MuxerState, m.state = "STARTED", m.first # 0,
         NEW f \in Frame, Exceeds(m, f)
  PROVE  \E e \in FileClosedEvent :
           /\ e.start = m.first /\ e.end = m.last
           /\ AppendFrame(m, f).closed = Append(m.closed, e)
<1> DEFINE b == [m EXCEPT !.first = FirstFrameTimecode(m, f)]
<1>1. AppendFrame(m, f) = StopMuxing(b)
  BY DEF AppendFrame
<1>2. b = m
  BY DEF FirstFrameTimecode, MuxerState
<1>3. QED
  BY <1>1, <1>2, StopMuxingReports

-----------------------------------------------------------------------------
(* Each action keeps OrderInv when the clock is not set back.              *)

LEMMA ClockAdvances ==
  ASSUME Steps \subseteq Nat, clock \in Nat, NEW f \in NextFrames
  PROVE  f.timecode \in Nat /\ f.timecode >= clock /\ f.timecode >= 1
<1>1. f.timecode \in NextTimecodes
  BY NextFrameIsFrame
<1>2. QED
  BY <1>1, RecorderAssumption DEF NextTimecodes

LEMMA OrderFacts ==
  ASSUME OrderInv
  PROVE  /\ muxer \in MuxerState /\ muxer.closed \in Seq(FileClosedEvent)
         /\ muxer.first \in Nat /\ muxer.last \in Nat
         /\ SuggestedDuration(muxer.first) \in Nat
<1>1. muxer \in MuxerState
  BY RecorderInvFacts DEF OrderInv
<1>2. muxer.first \in Timecode /\ muxer.last \in Timecode /\ muxer.closed \in Seq(FileClosedEvent)
  BY <1>1 DEF MuxerState
<1>3. SuggestedDuration(muxer.first) \in Nat
  BY <1>2, SuggestedType
<1>4. muxer.first \in Nat /\ muxer.last \in Nat
  BY <1>2, MuxerAssumption DEF Timecode
<1>5. QED
  BY <1>1, <1>2, <1>3, <1>4

LEMMA StoppedOrdered ==
  ASSUME OrderInv
  PROVE  Ordered(Stopped.closed, clock) /\ Stopped.closed \in Seq(FileClosedEvent)
<1>1. CASE ~isRecording \/ muxer.state = "STOPPED"
  <2>1. Stopped = muxer
    BY <1>1, OrderFacts DEF Stopped, StopMuxing
  <2>2. QED
    BY <2>1, OrderFacts DEF OrderInv
<1>2. CASE isRecording /\ muxer.state = "STARTED"
  <2>1. PICK e \in FileClosedEvent :
          /\ e.start = muxer.first /\ e.end = muxer.last
          /\ StopMuxing(muxer).closed = Append(muxer.closed, e)
    BY <1>2, OrderFacts, StopMuxingReports
  <2>2. Stopped.closed = Append(muxer.closed, e)
    BY <1>2, <2>1 DEF Stopped
  <2>3. Ordered(Append(muxer.closed, e), clock)
    BY <1>2, <2>1, OrderFacts, OrderedAppend DEF OrderInv, OpenFileLast
  <2>4. QED
    BY <2>1, <2>2, <2>3, OrderFacts
<1>3. QED
  BY <1>1, <1>2, OrderFacts DEF MuxerState

LEMMA StopKeepsOrder ==
  ASSUME OrderInv, RecorderInv', muxer' = Stopped, isWaitingForFirstFrame' = isRecording',
         UNCHANGED clock
  PROVE  OrderInv'
<1>1. muxer'.state = "STOPPED"
  BY StoppedEffect DEF OrderInv
<1>2. Ordered(muxer'.closed, clock')
  BY StoppedOrdered
<1>3. QED
  BY <1>1, <1>2 DEF OrderInv, SlotInv, HasFile, OpenFileLast

LEMMA RefusedKeepsOrder ==
  ASSUME Steps \subseteq Nat, OrderInv, RecorderInv', NEW f \in NextFrames, AppendRefused(f)
  PROVE  OrderInv'
<1>1. clock \in Nat /\ clock' \in Nat /\ clock' >= clock
  BY ClockAdvances DEF AppendRefused, OrderInv
<1>2. UNCHANGED <<muxer, isRecording, isWaitingForFirstFrame, isSplitting>>
  BY DEF AppendRefused, flags
<1>3. Ordered(muxer'.closed, clock')
  BY <1>1, <1>2, OrderFacts, OrderedLater DEF OrderInv
<1>4. SlotInv'
  BY <1>1, <1>2, OrderFacts DEF OrderInv, SlotInv, HasFile
<1>5. OpenFileLast'
  BY <1>1, <1>2, OrderFacts DEF OrderInv, OpenFileLast
<1>6. QED
  BY <1>1, <1>3, <1>4, <1>5 DEF OrderInv

\* The file a frame opens starts now, after all the files that were closed.
LEMMA OpenKeepsOrder ==
  ASSUME Steps \subseteq Nat, OrderInv, RecorderInv', NEW f \in NextFrames, OpenFile(f)
  PROVE  OrderInv'
<1>1. PICK ready : /\ ready = IF Splits(f) THEN Stopped ELSE muxer
                   /\ Fresh(muxer', ready, f)
  BY OpenFileFresh DEF OrderInv
<1>2. clock' = f.timecode /\ clock' \in Nat /\ clock' >= clock /\ clock' >= 1 /\ clock \in Nat
  BY ClockAdvances DEF OpenFile, OrderInv
<1>3. Ordered(ready.closed, clock) /\ ready.closed \in Seq(FileClosedEvent)
  BY <1>1, StoppedOrdered, OrderFacts DEF OrderInv
<1>4. Ordered(muxer'.closed, clock')
  BY <1>1, <1>2, <1>3, OrderedLater DEF Fresh
<1>5. ~isSplitting'
  <2>1. isSplitting => Splits(f)
    BY DEF OpenFile, OrderInv, RecorderInv, FlagsAgree
  <2>2. QED
    BY <1>1, <2>1 DEF OpenFile, Fresh
<1>6. SlotInv'
  BY <1>1, <1>2, <1>5 DEF SlotInv, Fresh
<1>7. OpenFileLast'
  BY <1>1, <1>2, <1>4 DEF OpenFileLast, Fresh
<1>8. QED
  BY <1>2, <1>4, <1>6, <1>7 DEF OrderInv

LEMMA AppendKeepsOrder ==
  ASSUME Steps \subseteq Nat, OrderInv, RecorderInv', NEW f \in NextFrames, AppendToFile(f)
  PROVE  OrderInv'
<1>1. clock' = f.timecode /\ clock' \in Nat /\ clock' >= clock /\ clock' >= 1 /\ clock \in Nat
  BY ClockAdvances DEF AppendToFile, OrderInv
<1>2. UNCHANGED <<isRecording, isWaitingForFirstFrame>> /\ HasFile
      /\ muxer' = AppendFrame(muxer, f) /\ f \in Frame
  BY NextFrameIsFrame DEF AppendToFile, HasFile
<1>3. /\ 1 <= muxer.first /\ muxer.first <= clock
      /\ muxer.maxDuration = 2 * SuggestedDuration(muxer.first)
      /\ isSplitting => clock >= muxer.first + SuggestedDuration(muxer.first)
  BY <1>2 DEF OrderInv, SlotInv
<1>4. FirstFrameTimecode(muxer, f) = muxer.first
  BY <1>3 DEF FirstFrameTimecode
<1>5. muxer'.first = muxer.first /\ muxer'.maxDuration = muxer.maxDuration
  BY <1>4, AppendToFileEffect DEF OrderInv
<1>6. isSplitting' => isSplitting \/ Suggests(muxer, f)
  BY DEF AppendToFile
<1>7. Suggests(muxer, f) => f.timecode >= muxer.first + SuggestedDuration(muxer.first)
  <2>1. SUFFICES ASSUME Suggests(muxer, f)
                 PROVE  f.timecode >= muxer.first + SuggestedDuration(muxer.first)
    OBVIOUS
  <2>2. Elapsed(f.timecode, muxer.first) >= muxer.maxDuration \div 2
    BY <1>4, <2>1 DEF Suggests
  <2>3. muxer.first \in Timecode
    BY OrderFacts DEF MuxerState
  <2>4. muxer.maxDuration \div 2 = SuggestedDuration(muxer.first)
    BY <1>3, <2>3, SuggestedType
  <2>5. Elapsed(f.timecode, muxer.first) = f.timecode - muxer.first
    BY <1>1, <1>3, OrderFacts DEF Elapsed
  <2>6. QED
    BY <1>1, <2>2, <2>4, <2>5, OrderFacts
<1>8. SlotInv'
  <2>1. /\ 1 <= muxer'.first /\ muxer'.first <= clock'
        /\ muxer'.maxDuration = 2 * SuggestedDuration(muxer'.first)
    BY <1>1, <1>3, <1>5, OrderFacts
  <2>2. isSplitting' => clock' >= muxer.first + SuggestedDuration(muxer.first)
    BY <1>1, <1>3, <1>6, <1>7, OrderFacts
  <2>3. QED
    BY <1>5, <2>1, <2>2 DEF SlotInv
<1>9. OpenFileLast' /\ Ordered(muxer'.closed, clock')
  <2>1. CASE muxer.state = "STOPPED"
    <3>1. muxer' = muxer
      BY <1>2, <2>1 DEF AppendFrame
    <3>2. QED
      BY <1>1, <2>1, <3>1, OrderFacts, OrderedLater DEF OrderInv, OpenFileLast
  <2>2. CASE muxer.state = "STARTED" /\ Exceeds(muxer, f)
    <3>1. PICK e \in FileClosedEvent :
            /\ e.start = muxer.first /\ e.end = muxer.last
            /\ muxer'.closed = Append(muxer.closed, e)
      BY <1>2, <1>3, <2>2, OrderFacts, ExceedingFrameReports
    <3>2. muxer'.state = "STOPPED"
      BY <1>2, <2>2, RecorderInvFacts, ExceedingFrameEffect DEF OrderInv
    <3>3. Ordered(muxer'.closed, clock')
      BY <1>1, <2>2, <3>1, OrderFacts, OrderedAppend DEF OrderInv, OpenFileLast
    <3>4. QED
      BY <3>2, <3>3 DEF OpenFileLast
  <2>3. CASE muxer.state = "STARTED" /\ ~Exceeds(muxer, f)
    <3>1. muxer'.last = f.timecode /\ muxer'.closed = muxer.closed
      BY <2>3, AppendToFileEffect DEF OrderInv
    <3>2. Ordered(muxer.closed, muxer.first) /\ Ordered(muxer.closed, clock)
      BY <2>3 DEF OrderInv, OpenFileLast
    <3>3. Ordered(muxer.closed, clock')
      BY <1>1, <3>2, OrderFacts, OrderedLater
    <3>4. QED
      BY <1>1, <1>3, <1>5, <3>1, <3>2, <3>3, OrderFacts DEF OpenFileLast
  <2>4. QED
    BY <2>1, <2>2, <2>3, RecorderInvFacts DEF OrderInv
<1>10. QED
  BY <1>1, <1>8, <1>9 DEF OrderInv

LEMMA InitOrder == Init => OrderInv
<1> SUFFICES ASSUME Init PROVE OrderInv
  OBVIOUS
<1>1. RecorderInv /\ clock = 1
  BY InitInv DEF Init
<1>2. muxer.state = "STOPPED" /\ muxer.closed = <<>> /\ ~isRecording
  BY DEF Init, NewMuxer
<1>3. QED
  BY <1>1, <1>2 DEF OrderInv, SlotInv, HasFile, OpenFileLast, Ordered

LEMMA NextOrder ==
  ASSUME Steps \subseteq Nat, OrderInv, [Next]_vars
  PROVE  OrderInv'
<1>1. RecorderInv'
  BY NextInv DEF OrderInv
<1>2. ASSUME NEW video \in BOOLEAN, NEW audio \in BOOLEAN, NEW extra \in BOOLEAN,
             StartRecording(video, audio, extra)
      PROVE  OrderInv'
  BY <1>1, <1>2, StopKeepsOrder DEF StartRecording
<1>3. CASE StopRecording
  BY <1>1, <1>3, StopKeepsOrder DEF StopRecording
<1>4. ASSUME NEW f \in NextFrames, AppendRefused(f) \/ OpenFile(f) \/ AppendToFile(f)
      PROVE  OrderInv'
  BY <1>1, <1>4, RefusedKeepsOrder, OpenKeepsOrder, AppendKeepsOrder
<1>5. CASE UNCHANGED vars
  BY <1>1, <1>5 DEF vars, flags, OrderInv, SlotInv, HasFile, OpenFileLast
<1>6. QED
  BY <1>2, <1>3, <1>4, <1>5 DEF Next

-----------------------------------------------------------------------------
(* The theorems.                                                           *)

\* The invariant of a channel whose clock is not set back.
THEOREM OrderInvariant == ASSUME Steps \subseteq Nat PROVE Spec => []OrderInv
<1>1. OrderInv /\ [Next]_vars => OrderInv'
  BY NextOrder
<1>2. QED
  BY <1>1, InitOrder, PTL DEF Spec

\* The files of the library are in the order of time and do not overlap.
THEOREM FilesAlwaysInOrder == ASSUME Steps \subseteq Nat PROVE Spec => []FilesInOrder
<1>1. OrderInv => FilesInOrder
  BY DEF OrderInv, Ordered, FilesInOrder
<1>2. QED
  BY <1>1, OrderInvariant, PTL

\* A recording never continues in the slot of the file before: no entry of the
\* index is replaced by another of the same recording.
THEOREM SplitsChangeSlot == ASSUME Steps \subseteq Nat PROVE Spec => NextFileInLaterSlot
<1>1. ASSUME OrderInv, [Next]_vars
      PROVE  [Continues => muxer'.first >= muxer.first + SuggestedDuration(muxer.first)]_vars
  <2> SUFFICES ASSUME Next, Continues
               PROVE  muxer'.first >= muxer.first + SuggestedDuration(muxer.first)
    BY <1>1
  <2>1. PICK f \in NextFrames : OpenFile(f)
    <3>1. ASSUME NEW video \in BOOLEAN, NEW audio \in BOOLEAN, NEW extra \in BOOLEAN,
                 StartRecording(video, audio, extra)
          PROVE  FALSE
      BY <3>1 DEF StartRecording, Continues
    <3>2. ASSUME StopRecording PROVE FALSE
      BY <3>2 DEF StopRecording, Continues
    <3>3. ASSUME NEW f \in NextFrames, AppendRefused(f) \/ AppendToFile(f) PROVE FALSE
      BY <3>3 DEF AppendRefused, AppendToFile, Continues
    <3>4. QED
      BY <3>1, <3>2, <3>3 DEF Next
  <2>2. muxer'.first = f.timecode
    BY <1>1, <2>1, OpenFileFresh DEF OrderInv, Fresh
  <2>3. f.timecode >= clock /\ f.timecode \in Nat /\ clock \in Nat
    BY <1>1, ClockAdvances DEF OrderInv
  <2>4. isSplitting
    BY <2>1 DEF Continues, OpenFile, Splits
  <2>5. clock >= muxer.first + SuggestedDuration(muxer.first)
    BY <1>1, <2>4 DEF Continues, OrderInv, SlotInv, HasFile
  <2>6. QED
    BY <1>1, <2>2, <2>3, <2>5, OrderFacts
<1>2. QED
  BY <1>1, OrderInvariant, PTL DEF Spec, NextFileInLaterSlot
==============================================================================
