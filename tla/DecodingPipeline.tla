-------------------------- MODULE DecodingPipeline --------------------------
(***************************************************************************)
(* CDecodingPipeline and the loop of main around it: find the header of    *)
(* the stream, get frames and a decoder for it, decode picture after       *)
(* picture and write what comes out.  When the size of the pictures        *)
(* changes the decoder is emptied and set up anew; when the device is lost *)
(* it is reset, which only works with frames in video memory, and the      *)
(* decoder is set up anew at the next header.  The decoder is the Media    *)
(* SDK's: it holds some pictures back and puts out the oldest.             *)
(***************************************************************************)
EXTENDS FrameAllocator

CONSTANTS Stream,         \* the pictures: size, and whether a header precedes it
          Delay,          \* pictures the decoder may hold back
          MaxLosses,      \* bound: how often the device is lost
          MaxTimeouts     \* bound: how often a wait times out

ASSUME StreamAssumption == Stream \in Seq([size : Size, header : BOOLEAN])

VARIABLES pc,             \* where main and the pipeline are
          pos,            \* the next picture in m_mfxBS or in the file
          fmt,            \* m_mfxVideoParams: the size the decoder is set up for
          held,           \* pictures in the decoder
          out,            \* pictures written
          timedOut,       \* pictures whose wait timed out
          gone,           \* pictures lost with the device, or before the next header
          losses,
          changing,       \* mainloop_sts is INCOMPATIBLE_VIDEO_PARAM
          ending          \* main is about to end

streamVars == <<pos, fmt, held, out, timedOut, gone, losses, changing, ending>>
vars == <<allocVars, pc, streamVars>>

UnitsOf(s) == {s[i] : i \in DOMAIN s}

Init ==
    /\ AllocInit
    /\ pc = "header"
    /\ pos = 1
    /\ fmt \in Size
    /\ held = <<>> /\ out = <<>>
    /\ timedOut = {} /\ gone = {}
    /\ losses = 0
    /\ changing = FALSE /\ ending = FALSE

\* main gives up, or is done: the destructor of the pipeline closes everything.
End == pc' = "close" /\ ending' = TRUE

-----------------------------------------------------------------------------
(* Init and ResetDecoder.                                                  *)

\* InitMfxParams: what lies before the next header is skipped.
FindHeader ==
    /\ pc = "header"
    /\ \/ /\ \A p \in pos .. Len(Stream) : ~Stream[p].header
          /\ End /\ UNCHANGED <<pos, fmt, gone>>
       \/ \E p \in pos .. Len(Stream) :
             /\ Stream[p].header
             /\ \A q \in pos .. p - 1 : ~Stream[q].header
             /\ pos' = p
             /\ fmt' = Stream[p].size
             /\ gone' = gone \union pos .. p - 1
             /\ pc' = "alloc" /\ UNCHANGED ending
    /\ UNCHANGED <<allocVars, held, out, timedOut, losses, changing>>

\* AllocFrames of the pipeline.
AllocSurfaces ==
    /\ pc = "alloc"
    /\ \/ AllocFrames("app", fmt, Need[fmt]) /\ pc' = "init" /\ UNCHANGED ending
       \/ AllocFails(fmt, Need[fmt]) /\ End
    /\ UNCHANGED <<pos, fmt, held, out, timedOut, gone, losses, changing>>

\* Init of the decoder: with video memory it asks for its frames, and may ask for
\* more than there are.
InitDecoder ==
    /\ pc = "init"
    /\ \/ memory = "system" /\ pc' = "decode" /\ UNCHANGED <<allocVars, ending>>
       \/ memory = "video" /\ \E min \in {Need[fmt], Need[fmt] + 1} :
             \/ AllocFrames("decoder", fmt, min) /\ pc' = "decode" /\ UNCHANGED ending
             \/ AllocFails(fmt, min) /\ End
    /\ changing' = FALSE
    /\ UNCHANGED <<pos, fmt, held, out, timedOut, gone, losses>>

\* Close of the decoder, in ResetDecoder or in Close.
CloseDecoder ==
    /\ pc = "close"
    /\ IF holds["decoder"] # None THEN FreeFrames("decoder") ELSE UNCHANGED allocVars
    /\ pc' = "free"
    /\ UNCHANGED streamVars

\* DeleteFrames of the pipeline.
DeleteFrames ==
    /\ pc = "free"
    /\ FreeFrames("app")
    /\ pc' = IF ending THEN "delete" ELSE "header"
    /\ UNCHANGED streamVars

DeleteAllocator ==
    /\ pc = "delete"
    /\ CloseAllocator
    /\ pc' = "closed"
    /\ UNCHANGED streamVars

-----------------------------------------------------------------------------
(* RunDecoding.                                                            *)

\* SyncOperation for the oldest picture: it is written, or the wait times out,
\* which is no error: the loop goes on and nobody waits for that picture again.
Output(pictures) ==
    /\ held' = Tail(pictures)
    /\ \/ out' = Append(out, Head(pictures)) /\ UNCHANGED timedOut
       \/ /\ Cardinality(timedOut) < MaxTimeouts
          /\ timedOut' = timedOut \union {Head(pictures)} /\ UNCHANGED out

\* One round of the main loop that decodes a picture.
DecodeFrame ==
    LET pictures == Append(held, pos)
    IN /\ pc = "decode"
       /\ pos <= Len(Stream)
       /\ Stream[pos].header => Stream[pos].size = fmt
       /\ pos' = pos + 1
       /\ \/ Len(pictures) <= Delay /\ held' = pictures /\ UNCHANGED <<out, timedOut>>
          \/ Output(pictures)
       /\ UNCHANGED <<allocVars, pc, fmt, gone, losses, changing, ending>>

\* Mutant: with a new size the decoder is reset at once.
LeaveMainLoopAtOnce ==
    /\ pc = "decode"
    /\ \/ pos > Len(Stream) /\ pc' = "drain" /\ UNCHANGED <<changing, held>>
       \/ /\ pos <= Len(Stream)
          /\ Stream[pos].header /\ Stream[pos].size # fmt
          /\ changing' = TRUE
          /\ pc' = "close"
          /\ held' = <<>>
    /\ UNCHANGED <<allocVars, pos, fmt, out, timedOut, gone, losses, ending>>

\* The end of the file, or a header with another size.
LeaveMainLoop ==
    /\ pc = "decode"
    /\ \/ pos > Len(Stream) /\ UNCHANGED changing
       \/ /\ pos <= Len(Stream)
          /\ Stream[pos].header /\ Stream[pos].size # fmt
          /\ changing' = TRUE
    /\ pc' = "drain"
    /\ UNCHANGED <<allocVars, pos, fmt, held, out, timedOut, gone, losses, ending>>

\* The second loop: what the decoder held back.
DrainDecoder ==
    /\ pc = "drain"
    /\ IF held # <<>>
         THEN Output(held) /\ UNCHANGED <<pc, ending>>
         ELSE /\ IF changing THEN pc' = "close" /\ UNCHANGED ending ELSE End
              /\ UNCHANGED <<held, out, timedOut>>
    /\ UNCHANGED <<allocVars, pos, fmt, gone, losses, changing>>

\* The device is lost in a call that had taken n pictures, and RunDecoding ends.
DeviceLost ==
    /\ pc \in {"decode", "drain"}
    /\ losses < MaxLosses
    /\ losses' = losses + 1
    /\ \E n \in 0 .. IF pc = "decode" /\ pos <= Len(Stream) THEN 1 ELSE 0 :
          /\ pos' = pos + n
          /\ gone' = gone \union UnitsOf(held) \union pos .. pos + n - 1
    /\ held' = <<>>
    /\ changing' = FALSE
    /\ pc' = "reset"
    /\ UNCHANGED <<allocVars, fmt, out, timedOut, ending>>

\* main resets the device and then the decoder.  There is a device (m_hwdev) only
\* with frames in video memory: otherwise ResetDevice follows a null pointer, and the
\* program dies with nothing closed.
ResetDevice ==
    /\ pc = "reset"
    /\ \/ memory = "system" /\ pc' = "crashed" /\ UNCHANGED ending
       \/ memory = "video" /\ pc' = "close" /\ UNCHANGED ending
       \/ memory = "video" /\ End
    /\ UNCHANGED <<allocVars, pos, fmt, held, out, timedOut, gone, losses, changing>>

\* Any other error, of a write for example.
Fail ==
    /\ pc \in {"decode", "drain"}
    /\ End
    /\ UNCHANGED <<allocVars, pos, fmt, held, out, timedOut, gone, losses, changing>>

Next == \/ FindHeader \/ AllocSurfaces \/ InitDecoder
        \/ CloseDecoder \/ DeleteFrames \/ DeleteAllocator
        \/ DecodeFrame \/ LeaveMainLoop \/ DrainDecoder
        \/ DeviceLost \/ ResetDevice \/ Fail

Spec == Init /\ [][Next]_vars

-----------------------------------------------------------------------------

\* While the pipeline decodes, the pipeline and the decoder work on the same frames
\* and these are in memory; when all is closed, nothing is left in memory but what a
\* failed allocation lost (CDecodingPipeline::ResetDecoder, Close; BaseFrameAllocator).
FramesOutliveUsers ==
    /\ RefsAgree
    /\ pc \in {"decode", "drain"} =>
          /\ holds["app"] # None /\ resp["app"] = holds["app"]
          /\ memory = "video" => holds["decoder"] = holds["app"]
    /\ pc = "closed" => live = leaked

\* Pictures are written in the order of the stream and each is written, held back,
\* timed out or lost with the device, in one of these ways only, and a device that is
\* lost again and again or a program that dies of it adds no picture and takes none
\* back; without a timeout and a lost device all of a stream that begins with a header
\* is written, whatever sizes it has.
PicturesAccountedFor ==
    /\ \A i, j \in DOMAIN out : i < j => out[i] < out[j]
    /\ LET places == <<UnitsOf(out), UnitsOf(held), timedOut, gone>>
       IN /\ UNION UnitsOf(places) = 1 .. pos - 1
          /\ \A i, j \in DOMAIN places : i # j => places[i] \intersect places[j] = {}
    /\ pc = "drain" /\ held = <<>> /\ ~changing /\ losses = 0 /\ timedOut = {} /\ Stream[1].header =>
          out = [p \in DOMAIN Stream |-> p]
=============================================================================
