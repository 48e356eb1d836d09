------------------------------- MODULE Recorder -------------------------------
(***************************************************************************)
(* One channel of the streaming media recorder,                            *)
(* src/nvr/mkv/librecorder/streaming_media_recorder.cpp: class Recorder    *)
(* with the muxer it owns (module MkvMuxer) and the calls it gets from its *)
(* application: StartRecording, StopRecording and AppendFrame.             *)
(*                                                                         *)
(* The recorder cuts the stream of a channel into files.  A file may last  *)
(* twice the time that is left, at its first frame, of the current slot of *)
(* the library's index (GetSuggestedDuration), and the muxer suggests to   *)
(* split it at half of that, the end of the slot; the recorder then closes *)
(* the file and opens the next one at the next key video frame.            *)
(***************************************************************************)
EXTENDS MkvMuxer

CONSTANTS
  SlotDuration,  \* GetCurrentDuration: the length of a slot of the library's index
  Steps,         \* how far the timecode of a frame may be from that of the frame before
  OsdData,       \* what the OSD frames of the channel hold
  MaxTime,       \* bound: the largest timecode
  MaxFiles       \* bound: the number of files opened

ASSUME RecorderAssumption ==
  /\ SlotDuration \in Nat \ {0}
  /\ Steps \subseteq Int
  /\ OsdData \subseteq Data \cup {NoData}
  /\ MaxTime \in Nat \ {0}
  /\ MaxTime < TimeModulus
  /\ MaxFiles \in Nat

VARIABLES
  isRecording,
  isWaitingForFirstFrame,
  isSplitting,
  hasAudio,   \* pMuxerStreams->pAudio # NULL
  hasExtra,   \* extraBufferSize # 0: the H.264 parameter sets to put first in a file
  osd,        \* pOsdBuffer, NoData when osdBufferSize = 0
  clock,      \* history: the timecode of the last frame
  opened      \* history: the number of files opened

flags == <<isRecording, isWaitingForFirstFrame, isSplitting>>
config == <<hasAudio, hasExtra>>
vars == <<muxer, flags, config, osd, clock, opened>>

-----------------------------------------------------------------------------
\* Mutant: the operands are swapped.
SuggestedDurationSwapped(t) == (t % SlotDuration) - SlotDuration

(* StreamingMediaLibrary::GetSuggestedDuration: the rest of the slot.      *)
SuggestedDuration(t) == SlotDuration - (t % SlotDuration)

(* The frames the channel may deliver next.                                *)
NextTimecodes == {t \in 1 .. MaxTime : \E s \in Steps : t = clock + s}
NextFrames == {f \in Frames(NextTimecodes) : f.stream = "subtitle" => f.data \in OsdData}

IsVideo(f) == f.stream = "video"

\* Mutant: an OSD without data does not replace the one before.
BackupOsdBufferWithData(f) ==
  osd' = IF f.stream = "subtitle" /\ f.data # NoData THEN f.data ELSE osd

\* BackupOsdBuffer, the first thing AppendFrame does with an OSD frame.
BackupOsdBuffer(f) == osd' = IF f.stream = "subtitle" THEN f.data ELSE osd

-----------------------------------------------------------------------------
Init ==
  /\ muxer = NewMuxer
  /\ isRecording = FALSE /\ isWaitingForFirstFrame = FALSE /\ isSplitting = FALSE
  /\ hasAudio = TRUE /\ hasExtra = FALSE
  /\ osd = NoData
  /\ clock = 1 /\ opened = 0

\* The muxer after StopRecording, which leaves it alone unless recording.
Stopped == IF isRecording THEN StopMuxing(muxer) ELSE muxer

(* StartRecording stops first, and stays stopped when there is no video    *)
(* codec.                                                                  *)
StartRecording(hasVideo, audio, extra) ==
  /\ muxer' = Stopped
  /\ isRecording' = hasVideo
  /\ isWaitingForFirstFrame' = hasVideo
  /\ isSplitting' = FALSE
  /\ IF hasVideo THEN hasAudio' = audio /\ hasExtra' = extra ELSE UNCHANGED config
  /\ UNCHANGED <<osd, clock, opened>>

\* Mutant: a pending split survives the recording.
StopRecordingSplitting ==
  /\ muxer' = Stopped
  /\ isRecording' = FALSE /\ isWaitingForFirstFrame' = FALSE
  /\ UNCHANGED <<isSplitting, config, osd, clock, opened>>

StopRecording ==
  /\ muxer' = Stopped
  /\ isRecording' = FALSE /\ isWaitingForFirstFrame' = FALSE /\ isSplitting' = FALSE
  /\ UNCHANGED <<config, osd, clock, opened>>

(* The early returns (false) of AppendFrame: not recording, a frame other  *)
(* than video before the first file is open, audio without a stream.       *)
NoFileToWrite(f) == ~isRecording
DropsFirstFrame(f) == isRecording /\ isWaitingForFirstFrame /\ ~IsVideo(f)
NoStreamFor(f) == /\ isRecording /\ ~isWaitingForFirstFrame
                  /\ f.stream = "audio" /\ ~hasAudio

AppendRefused(f) ==
  /\ NoFileToWrite(f) \/ DropsFirstFrame(f) \/ NoStreamFor(f)
  /\ BackupOsdBuffer(f)
  /\ clock' = f.timecode
  /\ UNCHANGED <<muxer, flags, config, opened>>

(* A key video frame that ends a suggested split, or any video frame that  *)
(* the recorder waits for, opens a file: the extra buffer (if any) comes   *)
(* first, then the OSD (if any) and the frame, in the order of the code.   *)
Splits(f) == isRecording /\ isSplitting /\ IsVideo(f) /\ f.isKey

OsdFrame(f) == [stream |-> "subtitle", isKey |-> FALSE, timecode |-> f.timecode, data |-> osd]

\* Mutant: the OSD is left to the next OSD frame of the channel.
AppendOsdFrameLater(m, f) == m

AppendOsdFrameIfExist(m, f) == IF osd = NoData THEN m ELSE AppendFrame(m, OsdFrame(f))

StartedWith(m, f) ==
  LET configured == SetFileConfig(m, 2 * SuggestedDuration(f.timecode))
  IN  AppendOsdFrameIfExist(StartMuxing(configured, f), f)

OpenFile(f) ==
  LET ready == IF Splits(f) THEN Stopped ELSE muxer
      file  == IF hasExtra
               THEN AppendFrame(StartedWith(ready, [f EXCEPT !.isKey = FALSE]), f)
               ELSE StartedWith(ready, f)
  IN  /\ opened < MaxFiles
      /\ Splits(f) \/ (isRecording /\ isWaitingForFirstFrame /\ IsVideo(f))
      /\ muxer' = file
      /\ isWaitingForFirstFrame' = FALSE
      /\ isSplitting' = ((isSplitting /\ ~Splits(f)) \/ ~file.isSuggest)
      /\ clock' = f.timecode
      /\ opened' = opened + 1
      /\ UNCHANGED <<isRecording, config, osd>>

\* Mutant: SuggestSplitting is not heard.
AppendToFileDeaf(f) ==
  /\ isRecording /\ ~isWaitingForFirstFrame
  /\ ~Splits(f) /\ ~NoStreamFor(f)
  /\ BackupOsdBuffer(f)
  /\ muxer' = AppendFrame(muxer, f)
  /\ clock' = f.timecode
  /\ UNCHANGED <<flags, config, opened>>

(* Any other frame is handed to the muxer, whose answer is ignored (the    *)
(* recorder returns true); the muxer may call back SuggestSplitting, or    *)
(* close the file (FileClosed).                                            *)
AppendToFile(f) ==
  LET after == AppendFrame(muxer, f)
  IN  /\ isRecording /\ ~isWaitingForFirstFrame
      /\ ~Splits(f) /\ ~NoStreamFor(f)
      /\ BackupOsdBuffer(f)
      /\ muxer' = after
      /\ isSplitting' = (isSplitting \/ Suggests(muxer, f))
      /\ clock' = f.timecode
      /\ UNCHANGED <<isRecording, isWaitingForFirstFrame, config, opened>>

Next ==
  \/ \E video, audio, extra \in BOOLEAN : StartRecording(video, audio, extra)
  \/ StopRecording
  \/ \E f \in NextFrames : AppendRefused(f) \/ OpenFile(f) \/ AppendToFile(f)

Spec == Init /\ [][Next]_vars

-----------------------------------------------------------------------------
(* Properties.                                                             *)

\* The state of the recorder and of its muxer is well formed.
TypeOK ==
  /\ muxer \in MuxerState
  /\ isRecording \in BOOLEAN /\ isWaitingForFirstFrame \in BOOLEAN /\ isSplitting \in BOOLEAN
  /\ hasAudio \in BOOLEAN /\ hasExtra \in BOOLEAN
  /\ osd \in Data \cup {NoData}
  /\ clock \in Timecode /\ opened \in Nat

\* The flags of the recorder and the state of its muxer agree: a recorder that
\* is stopped, or has not got its first frame, has no file open, so neither
\* SetFileConfig nor StartMuxing is refused when a file is to be opened (both
\* results are ignored, streaming_media_recorder.cpp:270-271, 300-301).
FlagsAgree ==
  /\ isWaitingForFirstFrame => isRecording
  /\ isSplitting => isRecording /\ ~isWaitingForFirstFrame
  /\ ~isRecording \/ isWaitingForFirstFrame => muxer.state = "STOPPED"

\* Every file that was opened is open or was reported to the library exactly
\* once, also when the muxer closed it on its own and the recorder, which is
\* not told, closes it again later.
EveryFileReportedOnce ==
  opened = Len(muxer.closed) + (IF muxer.state = "STARTED" THEN 1 ELSE 0)

\* The muxer closed the file of a recording and no split is pending: no frame
\* will open another file, the rest of the recording is lost.
Stuck ==
  isRecording /\ ~isWaitingForFirstFrame /\ muxer.state = "STOPPED" /\ ~isSplitting

\* A recording gets stuck only at a gap in the stream longer than what was left
\* of the slot when the file was opened (or at a clock that is set back): any
\* shorter gap meets the suggestion to split first, and the next key frame
\* opens a new file.
StuckOnlyAfterGap ==
  [][~Stuck /\ Stuck' => Elapsed(clock', muxer.last) > muxer.maxDuration \div 2]_vars

\* Whoever opens a file at any of its clusters sees the OSD of the channel:
\* each file gets the OSD that was there before it, each cluster repeats it.
ClusterShowsOsd ==
  muxer.state = "STARTED" /\ osd # NoData => muxer.shown = osd

\* The files of the library are in the order of time and do not overlap, across
\* splits, files the muxer closed on its own, and restarts by the application
\* (for clocks that are not set back).
FilesInOrder ==
  /\ \A i \in DOMAIN muxer.closed : muxer.closed[i].start <= muxer.closed[i].end
  /\ \A i, j \in DOMAIN muxer.closed : i < j => muxer.closed[i].end <= muxer.closed[j].start

\* A file that the recorder opens to continue a recording starts in a later slot
\* of the index than the file before it, so that the library, which has one
\* entry for each slot, never replaces the entry of one by the other's
\* (streaming_media_library.cpp, InsertIndex, "FIXME: collision list").
Continues == isRecording /\ ~isWaitingForFirstFrame /\ opened' # opened
NextFileInLaterSlot ==
  [][Continues => muxer'.first >= muxer.first + SuggestedDuration(muxer.first)]_vars

\* "error: there is no recording file to write" (streaming_media_recorder.cpp:234):
\* a frame is answered with false when there is no recording file to write it to.
TrueMeansFileOpen ==
  [][\A f \in NextFrames : AppendToFile(f) => muxer'.state = "STARTED"]_vars
===============================================================================
