--------------------------- MODULE FrameAllocator ---------------------------
(***************************************************************************)
(* BaseFrameAllocator: who asks for frames of a size that is already there *)
(* gets the same frames, and a count says how many asked.  The pipeline    *)
(* and the decoder of the Media SDK ask for the decoder's frames this way, *)
(* the pipeline to make surfaces of them and the decoder to decode into    *)
(* them; the frames must live until both have freed them.  A client frees  *)
(* by the response it was given, and gets it cleared only when the frames  *)
(* are really released.                                                    *)
(***************************************************************************)
EXTENDS Integers, Sequences, FiniteSets

CONSTANTS Size,           \* the picture sizes (CropW and CropH)
          Need            \* how many frames a size needs

ASSUME NeedAssumption == Need \in [Size -> Nat \ {0}]

Client == {"app", "decoder"}
None == 0                 \* a response whose mids are null

VARIABLES memory,         \* "system", or "video" when the SDK uses the allocator too
          ext,            \* m_ExtResponses
          resp,           \* the response each client keeps
          holds,          \* the frames each client may use
          live,           \* the frames that are in memory
          leaked,         \* of these, what a failed allocation left behind
          ids             \* how many responses there have been

allocVars == <<memory, ext, resp, holds, live, leaked, ids>>

AllocInit ==
    /\ memory \in {"system", "video"}
    /\ ext = {}
    /\ resp = [c \in Client |-> None]
    /\ holds = [c \in Client |-> None]
    /\ live = {} /\ leaked = {}
    /\ ids = 0

\* A client asks for the frames of a size, at least min of them, and gets them.
AllocFrames(c, size, min) ==
    /\ \/ \E r \in ext :
             /\ r.size = size /\ min <= r.num
             /\ ext' = (ext \ {r}) \union {[r EXCEPT !.ref = @ + 1]}
             /\ resp' = [resp EXCEPT ![c] = r.id]
             /\ holds' = [holds EXCEPT ![c] = r.id]
             /\ UNCHANGED <<live, ids>>
       \/ /\ \A r \in ext : r.size # size
          /\ min <= Need[size]
          /\ ids' = ids + 1
          /\ ext' = ext \union {[id |-> ids + 1, size |-> size, num |-> Need[size], ref |-> 1]}
          /\ resp' = [resp EXCEPT ![c] = ids + 1]
          /\ holds' = [holds EXCEPT ![c] = ids + 1]
          /\ live' = live \union {ids + 1}
    /\ UNCHANGED <<memory, leaked>>

\* The same without success: there are frames of this size but too few, or memory
\* runs out.  In system memory, and with Direct3D 11, the frames made before stay
\* where they are.
AllocFails(size, min) ==
    /\ \/ \E r \in ext : r.size = size /\ min > r.num /\ UNCHANGED <<live, leaked, ids>>
       \/ /\ \A r \in ext : r.size # size
          /\ \/ UNCHANGED <<live, leaked, ids>>
             \/ /\ ids' = ids + 1
                /\ live' = live \union {ids + 1} /\ leaked' = leaked \union {ids + 1}
    /\ UNCHANGED <<memory, ext, resp, holds>>

\* Mutant: the count is not looked at.
FreeFramesAtOnce(c) ==
    LET mine == {r \in ext : r.id = resp[c]}
    IN /\ holds' = [holds EXCEPT ![c] = None]
       /\ ext' = ext \ mine
       /\ live' = live \ {resp[c]}
       /\ resp' = [resp EXCEPT ![c] = None]
       /\ UNCHANGED <<memory, leaked, ids>>

\* A client frees what its response stands for, if anything.
FreeFrames(c) ==
    /\ holds' = [holds EXCEPT ![c] = None]
    /\ \/ (\A r \in ext : r.id # resp[c]) /\ UNCHANGED <<ext, resp, live>>
       \/ \E r \in ext :
             /\ r.id = resp[c] /\ r.ref = 1
             /\ ext' = ext \ {r}
             /\ live' = live \ {r.id}
             /\ resp' = [resp EXCEPT ![c] = None]
       \/ \E r \in ext :
             /\ r.id = resp[c] /\ r.ref > 1
             /\ ext' = (ext \ {r}) \union {[r EXCEPT !.ref = @ - 1]}
             /\ UNCHANGED <<resp, live>>
    /\ UNCHANGED <<memory, leaked, ids>>

\* Close releases what is left.  In system memory the allocator of the buffers is
\* deleted before, so that nothing can be released any more.
CloseAllocator ==
    /\ ext' = {}
    /\ live' = IF memory = "system" THEN live ELSE live \ {r.id : r \in ext}
    /\ UNCHANGED <<memory, resp, holds, leaked, ids>>

-----------------------------------------------------------------------------

Uses(c, id) == IF holds[c] = id THEN 1 ELSE 0

\* The count of a response is the number of clients that may use its frames, these
\* are in memory, and who may use frames finds them in the list.
RefsAgree ==
    /\ \A r \in ext : r.ref = Uses("app", r.id) + Uses("decoder", r.id) /\ r.id \in live
    /\ \A c \in Client : holds[c] # None => \E r \in ext : r.id = holds[c]
=============================================================================
