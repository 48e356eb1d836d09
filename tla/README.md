# Verification of the network video recorder

TLA+ models of the programs in this repository, the TLC runs that check them on
small instances, and proofs that TLAPS checks for every value of the constants.
All paths below are relative to the repository; `mkvmuxer.cpp` and so on stand
for the only file of that name among the sources listed in section 1.

The repository has two programs that share no code:

- a **network video recorder** (`src/nvr/mkv`): a library that records the
  streams of cameras to Matroska files and keeps an index of them, and a server
  that plays them back over TCP;
- a **transcoding sample** (`src/msdk-ffmpeg-integration`): the encoder and the
  decoder of Intel's Media SDK, changed to read and write with ffmpeg.

There are no tests and next to no documentation; what the code is meant to do is
taken from its own comments, error branches and the use it makes of itself.

## 1. Inventory

### Recording (`nvr/mkv/librecorder`, `nvr/mkv/libmkvmuxer`)

| component | state | operations | correct when |
|---|---|---|---|
| **Matroska muxer** `MkvMuxer` | stopped or started; first and last timecode of the file, current cluster, pointer to the last subtitle block, copy of the last subtitle, whether it has suggested to split | `SetFileConfig`, `StartMuxing`, `AppendFrame`, `StopMuxing`; calls its listener: `FileClosed`, `SuggestSplitting` | files and clusters stay within their limits, no pointer outlives its cluster, each cluster shows the current OSD |
| **Channel recorder** `Recorder` | `isRecording`, `isWaitingForFirstFrame`, `isSplitting`; the streams, the extra buffer (H.264 parameter sets), the OSD buffer | `StartRecording`, `StopRecording`, `AppendFrame`; listens to the muxer | every frame is in a file while recording, each file is reported once, files are in order and in slots of their own |
| **Recorder facade** `IdStreamingMediaRecorder` | eight recorders, one static write lock | `GetInstance`, the same three operations per channel, destructor | one writer at a time |
| **Media library and index** `StreamingMediaLibrary` | `.index`: a tree of root, channel, year, date and file nodes, each loaded on demand and written in place; a ring of 128 temporary file names | `AllocateRecordingFile`, `AddMediaFile`, `GetSuggestedDuration`, `LocateMediaFile` in four ways | every file that was added is found, forwards and backwards, also after a crash and by another process |

The application calls the recorder, the recorder calls the muxer and the
library, and the muxer calls back into the recorder from inside
`AppendFrame` and `StopMuxing`; all of it is synchronous.  The hard part is not
concurrency but the long sequences of calls: three independent mechanisms close
a file (the application stops, a suggested split meets a key frame, the muxer
finds the file too long), the recorder is told about the last one only
indirectly, and unsigned timecodes come from a camera's clock.

### Playback (`nvr/mkv/playback`)

| component | state | operations | correct when |
|---|---|---|---|
| **Thread pool** `pb_handler`, `main`, `SignalHandler` | `HANDLER_NUM`, `SESSION_NUM`, the threads in `io_service::run` with their `try_num`, `service_running` | a session starts or exits; a thread is created or ends by an exception; another exception is caught and counted; a signal | counters agree with reality, somebody always serves, a signal ends everything, only failures end the process |
| **Session** `pb_session` | the pending asynchronous operation, `buffer_` (a send and a read area), `seek_packet_` | one handler per completed operation, with a second read pending while it plays | exits exactly once, is released when its client leaves, serves the seek requests it gets |
| **Reader** `idmkv::Reader` | the open demuxer, direction, the lists of frames to play backwards | `seek`, `next` | every frame of the channel in order, in both directions, across files |
| **Demuxer** `MkvDemuxer` | file, cluster, block | `StartDemuxing`, `GetOneFrame`, `StopDemuxing` | gives what the muxer wrote |
| **Domain types, clock** | none | translations, time arithmetic | pure |

The handlers of all sessions run on the threads of one `io_service`: those of a
session form a chain, except for the read of a new seek request, whose handler
runs whenever the request comes.  What sessions share without a lock is the
library: one static stream `pIndexFile`, the root and the nodes that were loaded.
The recorder and the server meet in the files and in `.index`.

### Transcoding (`msdk-ffmpeg-integration`)

| component | state | operations | correct when |
|---|---|---|---|
| **Task pool** `CEncTaskPool` | a ring of tasks with their sync points, buffers and writers; its start | `GetFreeTask`, `SynchronizeFirstTask`, `Init`, `Close` | bitstreams are written in the order of submission, each to the file of its view |
| **Encoding pipeline** `CEncodingPipeline` | pictures in the preprocessor (VPP), in the encoder, in the pool; the view that is read next | `Run` with three loops that empty VPP, encoder and pool; `ResetMFXComponents` after a lost device | no picture is skipped, repeated or left behind |
| **Decoding pipeline** `CDecodingPipeline` | the parameters it decodes with, the decoder's pictures, what it allocated | `Init`, `RunDecoding`, `ResetDevice`, `ResetDecoder`, `Close`, in a loop of `main` | every picture is written in order, through changes of size; frames live as long as they are used |
| **Frame allocators** `BaseFrameAllocator`, `SysMemFrameAllocator`, ... | reference-counted responses, frames in memory | `AllocFrames`, `FreeFrames`, `Close` | frames are shared until the last user frees them |

The encoder, VPP and the decoder are the Media SDK's: they work asynchronously,
hold pictures back and give the oldest one out when they get another, or none
any more.  A device can be lost in every call, and a wait can time out.

`libebml-*` and `libmatroska-*` are vendored, the command line tools `idmuxer`
and `iddemuxer` are straight-line drivers: not modelled.

## 2. Modules

| module | models | built on |
|---|---|---|
| `MkvMuxer` | the muxer; its operations are operators on a record, so that a client can use them | |
| `MuxerClient` | the muxer with an arbitrary client, who remembers which OSD it gave | `MkvMuxer` |
| `Recorder` | a channel: the recorder, its muxer, and the application that calls it | `MkvMuxer` |
| `PbHandlerPool` | the threads of the playback server | |
| `PbSession` | one session with its reader and its client | |
| `FileIndex` | the file `.index` as a recorder writes it for one channel: nodes in memory, writes one after the other, crashes, writes that fail | |
| `MediaChain` | the abstract index: a list of files that only changes at its end | |
| `FileSearch` | the sessions of a playback server that search `.index` while the recorder writes it | `FileIndex` |
| `MkvDemuxer` | the place of the demuxer in a file, and the cues | |
| `PbReader` | `idmkv::Reader`: playback in both directions across the files | `MkvDemuxer` |
| `EncOutputs` | the writers of the encoder: views, files, what one call writes | |
| `EncTaskPool` | the ring of tasks with any caller that keeps its protocol (`PoolSpec`) | `EncOutputs`, instance of `TaskQueue` |
| `TaskQueue` | the abstract pool: a queue with a capacity | `EncOutputs` |
| `EncodingPipeline` | `Run` and the loop of `main` around it | `EncTaskPool` |
| `FrameAllocator` | counted frames and two clients that share them | |
| `DecodingPipeline` | the decoder with its loops and the loop of `main` | `FrameAllocator` |
| `MC...` | the small instances for TLC | the module of that name |
| `RecorderProofs`, `PbHandlerPoolProofs`, `PbSessionProofs`, `FileIndexProofs`, `FileSearchProofs`, `PbReaderProofs`, `EncodingPipelineProofs`, `DecodingPipelineProofs` | theorems (those about `MkvMuxer` and `MuxerClient` are in `RecorderProofs`, those about `EncTaskPool` in `EncodingPipelineProofs`) | the module of that name |

In each module a comment that starts with *Mutant* introduces a faulty variant
of the definition after it.  Nothing refers to the variant: it is put in the
place of the definition to see that a property notices the fault.

### MkvMuxer

The record `muxer` has the members of class `MkvMuxer` that decide something:
`state`, `isSuggest`, `firstFrameTimecode` (`first`, 0 while unset, as in the
code), `lastFrameTimecode`, `pCluster # NULL`, `clusterMinTimecode`,
`pLastSubtitleBlockGroup` (`openSubtitle`, as the timecode of the block it points
to) and `pSubtitleData`.  `shown` is the data of the last subtitle block of the
current cluster and `closed` the `FileClosed` events sent so far: they are what
a viewer and the library get.

- Timecodes are `uint64_t`: differences are taken modulo `TimeModulus`, so a
  clock that is set back gives a huge difference, as in the code.
- A frame that finds the file too long closes it and is lost
  (`mkvmuxer.cpp:739-744`): this is inside `AppendFrame`, not an action.
- `isOneSubtitleForEachCluster` is a constant true (`mkvmuxer.cpp:30`); the code
  for false, which also uses `lastSubtitlePosition`, is left out.
- The bytes of the file, cues, metaseek and lacing are left out; so is who owns
  the buffers of frames.  The recorder always sets a listener and always has a
  video stream, so the branches for `pListener == NULL` and a missing stream
  do not occur.  The events carry timecodes; the code divides them by 10^9.
- `GetMaxSegmentDuration` goes through a `double`; the rounding is left out.
- A muxer that was never configured has the maximal duration 1 (the code: the
  default of 600 s); the recorder always configures it before it starts a file.
- The early return for a frame of an unknown stream (`mkvmuxer.cpp:728-732`) is
  left out.  The copy that `SetFileConfig` makes (`:341`) shares `pImpl` with the
  caller's object; the model copies the value, the recorder does not use its
  object again.

`MuxerClient` calls any operation with any frame in any order.  Its variable
`given` is what the client expects to see, from its own calls alone: the last OSD
with data of the open file, and whether an empty one followed it in the current
cluster.

### Recorder

`AppendFrame` of the recorder is three actions that exclude each other:
`AppendRefused` (the early returns), `OpenFile` (a video frame that the recorder
waits for, or a key frame that ends a suggested split: stop, configure, start,
extra buffer, OSD, frame, in the order of the code) and `AppendToFile`.  The
callbacks of the muxer are part of them.  `hasAudio` and `hasExtra` are what
`StartRecording` got.  `clock` and `opened` are history variables: frames come
from anywhere within `Steps` of the one before.

`SuggestedDuration` is `StreamingMediaLibrary::GetSuggestedDuration`: what is
left of the slot of the index at the first frame.  The code computes it from the
minutes and seconds of local time; that is the distance to the next multiple of
the slot when the slot divides an hour, which the model assumes (the default,
`DEFAULT_MEDIA_DURATION`, is 10 s).  The bounds `MaxTime` and `MaxFiles` end the runs.

### PbHandlerPool

`thread[t]` is `running` in its loop, `ending` while the exception of
`destroy_thread_on_demand` unwinds it, `left` after the shutdown.  The two
functions that count are under one mutex and each is called from one handler, so
a handler is one action; `SignalHandler` is two, since threads run between its two
statements.

Any handler may throw.  The exception is caught around `run()` (`caught`), and
`RunReturns` is what the loop does then, and when it finds the service stopped: it
leaves when the flag is down, otherwise it counts the round in `tries` (`try_num`)
and runs the service again, and the fifth round of a thread ends the process
(`fatal`).  `out_of_range`, which only `destroy_thread_on_demand` throws, ends the
thread instead (`ThreadEnds`).

- `AcceptThrows`: the handler of a new connection throws, because the thread
  cannot be created (`boost::thread`, after `HANDLER_NUM` was incremented) or memory
  runs out before or after the session has an operation pending.  No other accept
  is ever started.
- `HandlerThrows`: a handler of a session throws.  The session goes on if another
  operation of it is pending, and is otherwise released without `exit_session`;
  `lost` counts these.
- The service stops when it has no work left (`OutOfWork`: no accept, no session),
  and nothing resets it: `run` then returns at once, and the process ends in five
  rounds.  `finishing` are the handlers that had begun before the service was
  stopped; each thread may finish one.

Of asio this takes that an exception of a handler leaves `run` on its thread and
nothing else, that `run` returns when the service is stopped or has no work, and
that no handler begins after that.  Left out: errors of `accept`, after which the
code just accepts again, and a failure to create the first detached thread in
`main`, before anything is served.  `Spawned` are the names of the threads that exist
at one time; a thread that ends gives its name back when it has unwound.  The test
of the flag and the count of the round are one step.

### PbSession

`pending` is the operation whose handler runs next, `closed` after
`exit_session`; `readPending` the read of a new seek request, with its handler
`receive_seek_packet` as an action that may come between any two of the chain.
`buffer_` is `sendArea` and `readArea`, each the request that
`handle_seek_request` would parse there; the packets that are sent overwrite the
send area as the code does (`speed` becomes the signal type, `direction` the
resolution or the size of the frame).  Milliseconds are left out.  The library
and the files are a nondeterministic `NextPacket`; whether a file is found is a
nondeterministic `seek_flag`.  `Reader::start` and `stop` do nothing in the code.

### FileIndex and MediaChain

The tree of `.index` is channel, years, days, slots (one file in each).
`InsertIndex` computes at once what the handler does to the nodes in memory and
the sequence of writes it will make (`mem.writes`); `WriteNode` is one
`IndexFileWrite`.  Writes go through stdio: a day is larger than the buffer of
the stream and reaches the disk at once, together with what the buffer held; a
smaller node waits in the buffer (`pending`) for the next write or for `fclose`.
A crash between two writes loses the buffer and the rest of the handler; `Restart`
loads the last year, the last day and the last file, as `GetChannelNode` does.
A write that fails closes the stream, and later insertions change the memory only
(`faults.skipped`).

`heap` says which nodes were deleted.  `InsertIndex` deletes a day that is over
but the tables keep the pointer, and deleting the year deletes the day again
(`streaming_media_library.cpp:473-487`): `heap.corrupt` is this undefined
behaviour, after which the model stops to insert.

`MediaChain` is what playback relies on: following the links from the first file
gives the files in the order of time; files are added at the end, only the last
one may be lost or replaced.  The refinement maps its `files` to the walk along
the links *on the disk* (with the buffer of the stream flushed), in every state,
also in the middle of a handler and after a crash.

Left out: other channels (the root's table has one), more than one root, the
collision of two files in one slot ("FIXME: collision list"), the names in the
entries.  A year has `YearDays` days and no leap day.

### FileSearch

A search opens the file anew and has four steps (channel, year, day, file), each of
which reads one node, with any number of the recorder's writes between them.

The handlers of the sessions (`Searchers`) run on two or three threads and search at
once, without a lock: they share the static stream `pIndexFile`, which each search,
and each step along a link (`FollowLink`), closes and opens again
(`streaming_media_library.cpp:334-338`, `2014-2018`), and the nodes.  `using` are the
sessions between opening the stream, or going on to the next node, and having read
it.  A search can begin or go on while another one is using the stream; the one
closes it under the other or moves its position between `fseek` and `fread`.  What
follows is undefined behaviour, which no model can bound: the server takes no step
after that (`Defined`, `Alone`), and all that is said of its searches is said of runs
where it has not happened.  As long as it has not, the searches of the sessions
interleave at the nodes, each with its own place in the tree, and find the nodes that
the others have loaded for *their* requests.  The static buffer of `localtime` and the
read buffer of the stream are left out.

The server keeps the nodes it has loaded, and under a place of a table it may keep a
node made for the *requested* time (`Kept`), which later searches use.
`GetFileNodeForwardly` and `GetFileNodeBackwardly` follow links without a check
that they stay in the day: what they then read is undefined, and the model gives
either nothing or the entry that the link means (`search.wild`).  A search for
a channel the server does not know creates it (`CreateChannel`), here only while
the recorder has nothing to write.

### MkvDemuxer and PbReader

A file is a sequence of frames with times, kinds and the places where clusters
begin.  The demuxer's state is the next frame; `StartDemuxing` with a time goes
to the cluster of the last cue before that time, and only clusters with a video
frame have a cue.  `next` of the reader is `OpenFile`, `NextForward`,
`NextBackward`, according to what it has open: each runs to the frame it gives,
so one call may close a file and open another.  Backward playback reads all
frames before the time into two lists and gives them from the end, an OSD before
the frames it belongs to.  The index is reduced to which search may find what
(`LocateForwardly`, `LocateBackwardly`: every file for which the properties of
`FileSearch` allow it, or none) and its links.  The recorder goes on: `LinkFile`
writes the link to a file whose entry is not written yet, which happens at the first
file of a day (`streaming_media_library.cpp:448-459`), `AddFile` the entry and, where
it is not there, the link.  The reader finds 0 as the start in an entry that is not
written (`StartInEntry`) and takes it for no file.  `LoadNext` and `LoadPrev` are read in
one piece; they use the stream that the other sessions share, see `FileSearch`.
The order of calls is the session's: no seek once a file is open, no `next`
after it gave nothing.  A missing file would end in an exception of libebml
(`StdIOCallback.cpp:92`) and is left out.

### EncTaskPool, TaskQueue and EncodingPipeline

`tasks[i]` is the unit (a picture of a view) that is under way in task `i`.  The
code looks for a free task from the start of the ring, waits for the first when
none is free, writes its bitstream by the writer of the *task*, frees it and
moves the start to the next task under way.  No task knows its view: a unit gets
into the right file because tasks are given out in turn.  `mode` is one view,
or two views in one file, in two, or in two and a common one; the duplicating
writer ignores the status of its own file (`sample_utils.cpp:411`), which may or
may not get the unit.
`PoolSpec` leaves the caller free within the protocol that `Run` keeps; the
pipeline uses the same operators.

`EncodingPipeline` has one action for each round of the three loops and for each
way to leave one.  VPP and encoder are queues that may hold back up to `VppDelay`
and `EncDelay` units.  `DeviceLost` empties pool, VPP and encoder and starts with
the first view again; the files that are read and written stay where they are.
A wait that times out is a warning: in the last loop it ends the loop
(`pipeline_encode.cpp:1358-1370`), and the program reports success with tasks
left.  Left out: surfaces, the change of the frame rate in VPP, MVC without one
output for each view, the ffmpeg muxer, the growth of bitstream buffers.

### FrameAllocator and DecodingPipeline

A response has a size, a number of frames and a count.  A client asks with a
size and a minimum; it gets the response of that size if it has enough frames,
or a new one.  `holds[c]` is what client `c` may use, `resp[c]` the response it
keeps, which the code clears only when the frames are really freed.  Allocation
may fail; a failure partway leaves frames behind that nobody can free (`leaked`,
`sysmem_allocator.cpp:222`, `d3d11_allocator.cpp:398-424`).  `CloseAllocator` frees what
is still counted, except that `SysMemFrameAllocator::Close` has then deleted the
allocator of its buffers.  Direct3D 11 does not clear the list of a response that it
releases (`d3d11_allocator.cpp:280-305`), which the model does; it is not used again.

`DecodingPipeline` is `main` with `Init`, `RunDecoding` (two loops) and
`ResetDecoder`; `pc` names the call that comes next.  The stream is a sequence of
pictures with sizes, some preceded by a header; the decoder holds back up to
`Delay`.  A header with a new size empties the decoder, writes what it held and
sets everything up anew.  A lost device gives up what the decoder holds and what
lies before the next header, if the frames are in video memory.  In system memory
there is no device: `m_hwdev` stays `NULL`, `ResetDevice` (`pipeline_decode.cpp:173-176`)
follows it all the same, and the program dies there (`pc` is `crashed`).
A wait that times out is no error for either loop
(`pipeline_decode.cpp:790`): that picture is never written.  Left out: surfaces,
internal responses (nobody shares them), rendering, the low latency mode, the
video wall, MVC.

## 3. Runs

| run | instance | what it shows |
|---|---|---|
| `muxer` (`MCMkvMuxer.cfg`) | timecodes 0, 1, 3, 4, 6, 9, 15 modulo 16, clusters of 4, maximal durations 2, 7, 10, two files | the muxer keeps its promises to any client, whatever the order of calls and of timecodes |
| `recorder` (`MCRecorder.cfg`) | slots of 4, clusters of 3, time up to 11, three files, steps 0, 1, 3, 5 | files over more than two slots: reported once, in order, one for each slot; lost only after a gap |
| `recorder_uneven` (`MCRecorderUneven.cfg`) | steps -3, 1, 4, OSD frames with and without data, time up to 7, two files | what of this holds when the clock is set back and streams are not in step |
| `pool` (`MCPbHandlerPool.cfg`) | seven sessions, two names for detached threads, five exceptions of handlers | the third thread comes with the seventh session, goes, and comes again; counters, liveness, shutdown, the fatal error |
| `session` (`MCPbSession.cfg`) | four requests: both directions, a speed that is refused by closing (3), a time that is refused (-1); frame sizes 1 and 2 | the session exits once and is released |
| `file_index` (`MCFileIndex.cfg`) | slots of 1, two a day, three days a year, a table of two years; six files on five days of three years, two crashes, one failed write | the index is sound at every moment and implements `MediaChain` |
| `file_search` (`MCFileSearch.cfg`) | two sessions; slots of 2, two a day, two days a year, three years; three files, three times to ask for; no crashes, they are in `file_index` | searches during writes and between other searches find what is there |
| `playback` (`MCPbReader.cfg`) | five files, two units a second, the last file damaged; seven times to ask for, both directions | frames come in order, in both directions, with their OSD |
| `encoder` (`MCEncodingPipeline.cfg`) | four tasks, four pictures for each of up to two views, VPP and encoder hold one unit back, the device is lost twice | the ring is a queue; pictures are accounted for |
| `decoder` (`MCDecodingPipeline.cfg`) | seven pictures whose size changes and changes back, two held back, two lost devices, one timeout | frames outlive their users; pictures are accounted for |
| `recorder_return`, `session_seek` | the same instances as `recorder` and `session` | the two findings of section 5 |

Why the bounds are enough.  The muxer compares differences of timecodes with
four limits (threshold of cues, cluster, half a file, file); the values chosen
lie on both sides of each, on a wrap-around and on both sides of 0 (the value
that means *unset*), and two files show what one leaves to the next.  The
recorder needs three files to see a split, a file closed by the muxer and a
restart follow each other, and a gap (5) that is longer than a slot (4).  The
pool grows with the seventh session and shrinks when one exits; five exceptions are
what it takes to end the process, all on one thread, or fewer that leave the service
without work.  With two names a new thread waits until one that unwinds is gone; the
theorems do not need that.  A session has one client and finitely many states without any bound.

The index needs a second file in a day, a new day, a new year and a year beyond
the table; a crash in each of these insertions and another one in what follows
the restart; and a failed write before or after a crash.  Its search needs a file
longer than its slot and one after it in the same day, days and a year without files,
requests for the second slot of the long file, for the empty year and for the end of
the last file, and two sessions, one of which can leave its nodes to the other at any
point of its search.  The sessions are interchangeable, and the run has invariants
only: their permutations are a symmetry.  The reader needs clusters with
and without a key frame and an OSD, an OSD that changes within a cluster, a file
shorter than a second, a gap between files, a damaged one, and requests on both
sides of each of these.  The ring of four tasks is filled, drained by one and
filled again with four pictures, or eight units; two losses meet the pipeline in
different loops and views.  The decoder needs one size that returns (its frames
must not be those freed before), pictures held back at each change, and a loss
after a loss.

`CHECK_DEADLOCK FALSE`: the runs of index, search and playback end when all files
were added and played, the encoder and the decoder are programs that end; the
recorder runs end at `MaxTime` and `MaxFiles` (the
bounds) and the playback server really stops; `muxer` never stops and is checked
for deadlock.

**Properties**, besides one type invariant for each module:

- `BlocksFitTheirCluster`, `FileWithinBounds`: the limits of clusters and files,
  with unsigned timecodes.
- `NoDanglingSubtitle`: the pointer into the current cluster dies with it.
- `ClosedFilesExist`: the error branch for an empty file is never taken.
- `EveryClusterHasSubtitle`: every cluster shows the OSD that the client gave
  last to this file: the last one that had data, perhaps clusters ago, unless an empty
  one followed it in this cluster.  The run has two OSDs and the empty one.
- `ClusterShowsOsd`: the same for the recorder, across files: every cluster, of every
  file, shows the OSD of the channel.
- `FlagsAgree`: the recorder's flags and the muxer's state agree, so that results
  which the recorder ignores are never failures.
- `EveryFileReportedOnce`: nothing is lost to, or reported twice by, the three
  ways to close a file (`recorder`; the theorem covers every clock).
- `StuckOnlyAfterGap`: a recording that stops to write files, and never starts
  again by itself, has met a gap longer than half the maximal duration of a
  file.  This is the strongest form that holds: such a gap does get it stuck.
- `FilesInOrder`, `NextFileInLaterSlot`: for clocks that are not set back files do
  not overlap and splits never put two of them into one slot of the index.
- `SessionsCounted`, `HandlersCounted`: the counts are those of the sessions that are
  open and of the threads that serve, in every state, and what they are wrong by is the
  sessions that an exception took along and the threads that could not be created.
- `PoolKeepsServing`: the pool never loses its main thread nor shrinks below its two
  threads, but for one that could not be created.
- `FatalOnlyAfterFailures`: the process ends with the fatal error only when one thread
  has caught five exceptions or an accept that threw has left the service without work,
  never because of a signal that comes while handlers run, throw and end threads.
- `SignalEndsThreads`: a signal ends all threads, those that unwind or are in their
  `catch` too.
- `ExitsOnce`, `OneSeekAtATime`, `SessionReleased`: the count of sessions is
  right, the read area is never overwritten, a client that leaves costs nothing.
- `TablesLeadToNodes`: at every moment, the tables on the disk lead only to nodes
  that are on the disk, of the right kind.
- `TablesAgreeWithChain`: tables and links agree on the files, except for the last one.
- `LinksGoBothWays`: the file after a file leads back to it, so backward playback
  visits the files of forward playback.
- `CrashLosesAtMostOne`: a crash, or a failed write, costs at most one file whose
  insertion was complete, through the buffer of the stream.  (Zero would be
  wrong: a small node that waits in the buffer is lost with the process.)
- `HeapFailsOnlyAfterNewYear`: the double deletion needs a second file in a new
  year.  This is the strongest form that holds.
- `ImplementsMediaChain`: the refinement above.
- `FoundServesRequest`, `CoveringFileIsFound`: no forward search returns a file
  that has ended, no backward search one that has not begun, and a file that
  covers the time is found, in the middle of the recorder's writes and of the searches
  of other sessions, with whatever nodes these have left, as long as no two sessions
  used the stream at once.  Both are
  qualified by `ReaderInStep` where an earlier request has left a node with the
  wrong time in the server, or it has created the channel itself.  For a
  time beyond the slot of the file that covers it, the code finds that file only
  through a later file of the same day (`CoveringOnDisk` asks for one).
- `ForwardIsContiguous`, `BackwardMirrorsForward`: every frame once, in order,
  across clusters and files; backwards in reverse, with the OSD that each frame
  was recorded with, less the last part of a second of each earlier file, which the
  code skips because the index counts seconds.
- `EndsOnlyAtEnd`: playback ends after the last frame of the last file that is in
  the index at that moment, or before the first one; a link that leads to an entry which
  is not written is the end of neither.
- `RingInv`, `ImplementsTaskQueue`: the tasks under way are contiguous from the
  start of the ring and in step with the views; what is written to each file is
  what was submitted, in that order.
- `PicturesAccountedFor` (encoder): each picture that was read is in exactly one
  place, or was given up with a lost device; a run that ends well has read and
  written all, unless the last wait timed out; after a device was lost between
  two views, the last pictures of the second view may never be read.
- `FramesOutliveUsers`: counts agree with users, who may use frames finds them in
  memory, and after `Close` nothing is left but what a failed allocation leaked.
- `PicturesAccountedFor` (decoder): each picture is written, held, timed out or
  lost with the device, in one way only, and written in order; without timeouts
  and losses all are written, whatever the sizes.  A program that dies of a lost device
  has written what it had written, in order, and lost the rest.

**Fairness.**  `PbHandlerPool`: a signal handler that has begun goes on
(`SignalStop`), and so does a thread that unwinds or returns from `run`.
Sessions and clients need do nothing.  `PbSession`: once the client is gone an
operation on the socket fails (TCP's keep-alive is set in `start`), so the
handler runs with an error (`ChainFails`, and the aborted read); `play` stands
for a call from inside a handler.  Nothing is assumed about a client that is
there.  The recorder is driven by its application, the reader by its session and
the two pipelines by calls that may fail at any time: no liveness is claimed.

## 4. Proofs

Every theorem holds for all values of the constants that satisfy the named
`ASSUME`s of the modules (`MuxerAssumption`, `ClientAssumption`, `RecorderAssumption`,
`PoolAssumption`, `SessionAssumption`, `DepthAssumption`, `NoUnitAssumption`,
`PicturesAssumption`, `NeedAssumption`, `StreamAssumption`, `FileIndexAssumption`,
`SlotsDiffer`, `FileSearchAssumption`, `DemuxerAssumption`, `ReaderAssumption`).
Those that say more than what kind of value a constant has: `SlotsDiffer` takes over from the recorder that
no two files share a slot of the index (`NextFileInLaterSlot`, proved for clocks
that are not set back); `DemuxerAssumption` and `ReaderAssumption` describe
files as the muxer writes them and the index lists them, and say that the clock is past
its first second, since a start of 0 means *no file* in the code.

**RecorderProofs, muxer.**  `MuxerInv` is the type with `ClusterSpan`, `FileSpan`,
`SubtitlePointer` and `SubtitleAtHead`, each for the record of a muxer.  Lemmas
say of every operation, for any muxer that satisfies it and any frame, that the
result does and how `closed` has grown; the theorems about the arbitrary client
follow, and the recorder uses the same lemmas.  That the cluster shows what the client
expects (`given`) goes through the copy of the last subtitle, which a new cluster is
begun with.  The arithmetic of unsigned
timecodes enters through a lemma about `Elapsed`.

**RecorderProofs, recorder.**  The invariant adds to the muxer's what relates the two:
flags, count of files, the OSD shown, and that a file past its half has set
`isSplitting`, which is what makes `StuckOnlyAfterGap` an inductive argument: a
frame that closes the file without a split pending has jumped over the half.
No assumption on the clock.

**RecorderProofs, order** assumes `Steps \subseteq Nat` (the clock is never set
back) and adds that every file ends no later than the next one begins and the
clock is not before any of them.  `SplitsChangeSlot` needs that the maximal
duration is twice what was left of the slot at the first frame, and that a
split is pending only past half of it.

**PbHandlerPoolProofs.**  The count of threads is the cardinality of a set that changes
by one element, so the proof cites `FS_AddElement` and `FS_RemoveElement` for each action;
`HandlersCounted` with the main thread never ending gives that the pool keeps serving
(`ThreadsInPlace`: at most one thread could not be created, and none leaves before a
signal).  The type invariant is part of it: no count falls below zero.
`TriesAreThrows` is the argument for `FatalOnlyAfterFailures`: while the service
has work, a thread has counted no more rounds than the exceptions it has caught, because
a shutdown puts the flag down before it stops the service: a stopped service whose
flag is up is out of work (`ThreadsInPlace`), and a thread that returns from any other
one counts no round.  Any number of sessions, threads and exceptions.

**PbSessionProofs.**  Type, `ExitsOnce` and `OneSeekAtATime` are inductive
together; one lemma for each way to send a packet.

**EncodingPipelineProofs, pool.**  For any depth, any number of units and any caller that
keeps the protocol (`PoolSpec`).  The inductive invariant `IndInv` names the number
`c` of tasks under way: the ring is busy at the distances 0 to `c - 1` from the
start and nowhere else (`FirstBusy`).  `RingInv` alone would do for the steps,
but says the same without a witness, which the provers then have to find.
With it the search for a free task finds distance `c`, submission and delivery
change one end each, and moving the start by one keeps the parity of start and
views (the size of the ring is even: a ring of odd size would break it).
`PoolImplementsQueue` maps the ring to the sequence of its tasks from the start
(`PoolQueue`) and shows each action to be `Submit`, `Deliver`, `GiveUp` or a stutter.
What is left is the arithmetic of `%`, in lemmas that let a distance wrap once.

**EncodingPipelineProofs, pipeline.**  `RunInv` is what makes the pipeline a caller the pool
allows: what the encoder holds back, what VPP holds back and the picture to be
read next take turns between the views, counted from the view the pool expects,
and the pool drains only when all the rest is empty.  With it every step of `Run` is
a step of `PoolSpec` or leaves the pool alone (`RunUsesPool`), so the theorems of
the pool hold in the pipeline.  For the accounts, `Way` is pool, encoder and VPP in
one sequence: an action of the main loop appends to it, delivery takes its head,
a lost device empties it, and all others leave it as it is although they move
units between its parts.  `Accounted` says that the written, those on the `Way` and
the lost units are just what was read, and the `Way` in order and later than all
that is written; `EndInv` adds what is empty at which `pc` and that the second
view is never ahead of the first one.  For any depth, delays and number of losses.

**DecodingPipelineProofs, frames.**  The invariant says at each `pc` which of the two
clients uses frames, that these are in the list with the right count, and that
all that is in memory is in the list or leaked.  It is needed because
`FreeFrames` goes by the response a client keeps, which may be stale: at every
call that frees, the client either uses the frames of its response or has a
response nobody lists.

**DecodingPipelineProofs, pictures.**  `Placed` is the statement for four sets and sequences
that a picture can be in, with a lemma for each way a picture moves; `Whole` adds
that written and held pictures are exactly those before the current position,
which holds as long as nothing was lost and makes the last conjunct of
`PicturesAccountedFor` inductive.

**FileIndexProofs, nodes.**  For any calendar, any files, any number of crashes and
of failed writes.  What `TablesLeadToNodes` needs is the sequence `K` of the *owners*
of the places in the file: the channel, a year or a day gets a place once, and
no other node ever gets it.  `Fits` says of a buffer that each entry of its table
leads to the place of the owner that belongs there; it holds for every buffer in
memory (`MemoryOK`), in the queue of writes and on the disk (`FileOK`).  That a
place is also *written* when something leads to it is the matter of `QueueOK`: what
write `n` leads to has been on the disk before or is among the first `n - 1` writes
(`ThereAt`).  `IndexInv` says that there is a `K` for which all this holds, both for
the disk as it is and with the buffer of the stream flushed: a crash is the first
case, an exit the second one.  There is a lemma for each operation on the memory
(`UpdateYearHolds`, `GetDateNodeHolds`, ...): it may give out places, and `Holds` is
kept for the longer `K`.  When the process ends `K` is cut down to the places on
the disk, so places lost with the buffer can get another owner.

**FileIndexProofs, heap.**  `HeapInv`: files come in the order of time, so each day
the recorder has deleted lies before the day of the file before the last one, and a
handler follows only pointers to that day or later ones.  The double deletion is
then possible only when two of the days of the last files are of different years,
or a year lies beyond the table, which needs a later year too.  The proof showed
that the model did not say what happens after a file that got no day at all (the
code follows a null pointer); `InsertIndex` now stops there.

**FileIndexProofs, links.**  `LinkInv` extends `IndexInv` by a set `X` of the files that
have an entry: start, end, the place of the entry and the link back that it holds.
`SlotOK` says of slot `i` of the day at place `a` that it is empty or the entry of a
file of `X`, and that its link leads to the place of a file of `X` whose link leads
back (`NextOK`), wherever a copy of the day is: in memory, in the queue of writes, on
the disk, on the disk after a flush.  The entry at that place may not be written, so
the property speaks of a link to an entry that is there; that it is the one meant
follows from `SlotsDiffer`: no two files have the same day and slot, so nothing else
ever stands in it (`NewFileFresh`).  A day is written when it is created, and the file
before gets its link after that (`LinkLast`): when the write of a day has its turn,
all the days that its links lead to are on the disk (`LinksTo` in `QueueLinks`).
This is what lets a new process cut `K` down to the nodes on the disk
(`NewMemoryLinks`): otherwise a link on the disk could lead to a place that is then
given to another day, whose entry does not lead back.
`InOrder` adds what the search relies on: a link backwards leads to the same day or to an
earlier one, a link forwards to the same day or to a later one, in every copy.  It holds
because files come in the order of time, and stays so after a restart, where the
last file that is loaded is the last one of the last day.

**FileIndexProofs, losses.**  `CrashCostsAtMostOne` needs to know what the file will
be once the queue is written, and that nothing is ever taken from it.  `Below` says
that one copy of a node has all that another copy has: places in a table and files in
a slot are put in and never taken out, so the file only grows (`FileGrows`).  `Becomes`
names the file after all writes of the queue, `Synced` says that each clean node in
memory is the node of that file and that a dirty one is above it; each operation on the memory keeps
both (`UpdateYearFollows`, `GetDateNodeFollows`, ...).  So between two files, when the queue is
empty and nothing is dirty, all that is in memory is in the file with the buffer of the stream
flushed: every file whose insertion is complete is found there or lies beyond the table (`Found`), and stays
found.  What a crash can take back is the one small write in the buffer of the
stream, which is the last one of a handler: with it goes at most the file that the handler inserted.  `LossInv`
keeps the set `Lost` of such files, with at most one for each crash and each failed
write.  Which of them a write that fails takes is left open: the code closes the stream and
nothing is added to the index until the next start.

**FileSearchProofs.**  A server that does not find its channel appends one, and from then
on the tree that the recorder writes need not be the one the file begins with.  `SharedInv`
is what holds of the file all the same: every node is one its owner may have (`FileOK`), and the
memory of the recorder fits (`Holds`) or is closed and keeps nothing (`ClosedOK`).
Two corrections of the model came from this part: the memory of a
recorder that is not running must be that of the longer file, and the server looks
at the entry of a day before it loads the day, as at that of a year.
`ServerPhase` says that before that, while the channel is the recorder's, all of
`FileIndexProofs` holds (`RecorderInv`) and each node of the server is the one at its
place in the tables (`ServerInv`), which stays so because the file only grows
(`FileGrows`).  A search that has come to its file holds nodes on its way down (`Underway`).

Each session has a search of its own; they meet in the nodes.  A node, once loaded, is
never taken away or moved (`NodesStay`), so what holds of the search of one session
stays when another one loads a node (`SearchesKept`), and no search brings a server that
is out of step with the index back in step (`InStepKept`).

`FoundFileServes` then has two cases.  A walk that ends in the buffer returns an
entry at which its loop stopped, so the time is on the right side of it, whatever the
node believes about its day.  A walk that leaves the buffer took a link of the day: its node
is that of the day of its key (`DayInStep`), the link leads to a later or an
earlier day (`LinkedDay`, from `InOrder`), and the guards at the begin of
the search say that the time is not beyond this day.  The loop is a recursive function whose length is
bounded by the slots; that it stays among the entries and links of the buffer
(`WalkIn`) is an induction, by `SetInduction`: from the pigeonhole
principle for finite sets, without an operator as parameter.  The bound was one step short
in the model before this proof.

**PbReaderProofs.**  `ForwardInv` adds to the type of the reader that its demuxer is
one frame behind the last frame that was sent, in the same file (`AtCursor`).  The
first frame of each later file is 1: the reader asks for the second in which the
file starts and no cue lies before it.  The places of cues are found by minimum and
maximum, whose existence needs an induction: `SetInduction` gets it from the
pigeonhole principle for finite sets, without an operator as parameter.  The
proof corrected `ForwardIsContiguous`, which counted on the first file alone
when the client has sought a time within it.  `PlaysToTheEnd` is an action property:
it needs the same invariant, that the demuxer is at the end only after the last frame.
Backwards, `BackwardState` names what is left of the file as a set of its frames
(`Rest`): the first ones up to the index the lists have reached, or, while they are not
collected, those before the time, which are the first ones too because times do
not go back (`CountFacts`).  Its greatest element is the one `BackwardMirrorsForward`
asks for after the last frame that was sent (`Awaits`, `RestIsNext`), and when nothing is left
all of the file before is (`RestOfPrevious`).  For the OSDs, `Lists` says that the
list holds those in front of the index but the last, which is the last OSD that was
sent; the cases of the proof are those where the code skips an OSD for
which there is none before.

Only model-checked:

- the liveness properties (`SignalEndsThreads`, `SessionReleased`): out of the
  prover's reach;
- `TablesAgreeWithChain` and `ImplementsMediaChain`: they follow a chain of links as far
  as it goes, by a recursive function, and what they say of it needs an induction over the
  files;
- `CoveringFileIsFound`: that the walk does not pass the file that covers the time, nor ends
  before it, is again a matter of the whole chain of links.

## 5. Findings

1. **`AppendFrame` answers true without a file** (`recorder_return`).
   `streaming_media_recorder.cpp:234` has "error: there is no recording file to
   write" where it answers false; but after the muxer has closed a file that got
   too long (`mkvmuxer.cpp:739-744`) the recorder, which ignores the muxer's
   answer (`:310`), answers true to every frame although all are lost, until the
   application starts the recording again.
2. **A seek request that comes while a session plays is not served**
   (`session_seek`).  `async_pb_server.cpp:184` divides the buffer: "0-227 for
   send, 228-255 for read."  The request is read to byte 228 (`:431`) and parsed
   from byte 12 (`:358-361`), where the last packet was put together.

Two more defects are in the models as steps after which nothing is claimed.  They are
reached in a few steps, so no run is spent on them:

- **A lost device ends the decoder in system memory.**  `sample_decode.cpp:281`
  announces "Recovering...", but `ResetDevice` (`pipeline_decode.cpp:175`) follows
  `m_hwdev`, which is `NULL` (`:358`) unless the frames are in video memory
  (`:240-305`).  The encoder looks at the kind of memory first
  (`pipeline_encode.cpp:464-476`).
- **Searches of two sessions share one stream.**  "force to reload file"
  (`streaming_media_library.cpp:333`) closes and opens the static `pIndexFile` although
  another thread may be reading from it (`async_pb_server.cpp:774-795` runs two or three
  threads): `Cardinality(using)` becomes 2 as soon as two searches begin.

Observations that no finding is about, because no comment or test says
otherwise: an OSD that is cleared reappears at the next cluster
(`mkvmuxer.cpp:867`); five exceptions of handlers on one thread end the server, however
long it has run, since nothing resets `try_num`; one thread that cannot be created, or
one accept that throws, ends the accepting, and the server itself once its sessions
have gone; a session that an exception took along is counted for ever, so the pool
keeps a third thread or asks for it too early; the pool keeps its third thread, which
it created for a seventh session, until fewer than nine are open and then ends it, at
once, whichever session exits; the recorder follows a deleted pointer at the second file
of a new year; a search poisons the server's tables for later ones, also those of
other sessions; backward playback skips the last part of a second of each earlier
file (`id_mkv_pb_reader.hpp:363`), which `BackwardMirrorsForward` takes for granted;
after a device was lost between two views the encoder reads the views out of step; a
timeout makes the encoder end with success and tasks left.  Where a property is about
one of these it is stated in the strongest form that holds.

## 6. Not modelled

- *Temporary file names*: the ring of 128 names and the rename to the final one.
  That a name is still open when it is given out again needs 128 files of other
  channels in the meantime; nothing in the code refers to the bound.
- *Recorder facade*: it hands each call to the recorder of the channel.  The
  lifetime rules around its static lock are broken on purpose ("FIXME: just for
  debug"): the destructor of a writer deletes the library the next one uses.
- *Ownership of buffers*: the recorder's models keep contents.  The application
  that decides who owns a buffer is not in the repository.
- *Two sessions in the stream of the index at once*: undefined behaviour; the model of the
  server stops there.
- *Two processes that append to `.index` at once* (a server that creates a
  channel while the recorder writes): the outcome is that of two writes at the
  same place of a file.
- *Composition of the server's sessions with its pool*: each is modelled; they
  share two counters, which `PbHandlerPool` drives by sessions that start and exit
  once, and `PbSession` shows that a session does (`ExitsOnce`).
- *EBML and Matroska*: of the vendored libraries only the search among the cues
  matters to the state of this code; parsing and rendering are left out, and
  damage is a file that cannot be opened.
- *Media SDK, ffmpeg, Direct3D*: external; the models use queues with a delay.
  Surfaces and the locking of frames live in them.
- *Pure code*: translation tables and time arithmetic of the playback domain;
  `GetMaxSegmentDuration`'s rounding.
- *Drivers*: the command line tools.

What could follow: theorems about the whole chain of links, on top of `LinkInv`; the ring of
temporary names composed with several recorders.
