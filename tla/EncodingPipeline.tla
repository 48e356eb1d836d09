-------------------------- MODULE EncodingPipeline --------------------------
(***************************************************************************)
(* CEncodingPipeline::Run and the loop of main around it: read a picture,  *)
(* let the preprocessor (VPP) and the encoder work on it, collect what     *)
(* they put out in the task pool, and when the source has ended empty VPP, *)
(* encoder and pool in this order.  VPP and encoder are the Media SDK's:   *)
(* each is a queue that holds some units back and puts out the oldest.     *)
(***************************************************************************)
EXTENDS EncTaskPool

CONSTANTS VppDelay,       \* units VPP may hold back
          EncDelay,       \* units the encoder may hold back
          MaxLosses       \* bound: how often the device is lost

VARIABLES pc,             \* where Run is
          vpp,            \* whether m_pmfxVPP exists
          read,           \* pictures read so far, by view
          currView,       \* currViewNum
          inVpp, inEnc,   \* what VPP and the encoder hold back
          lost,           \* units given up when the device was lost
          losses,
          timedOut        \* waiting for the last tasks was given up

runVars == <<vpp, read, currView, inVpp, inEnc, lost, losses, timedOut>>
allVars == <<poolVars, pc, runVars>>

Init ==
    /\ PoolInit
    /\ pc = "getTask"
    /\ vpp \in BOOLEAN
    /\ read = [v \in View |-> 0]
    /\ currView = 0
    /\ inVpp = <<>> /\ inEnc = <<>>
    /\ lost = {}
    /\ losses = 0
    /\ timedOut = FALSE

\* The step that follows GetFreeTask, in each of the three loops that call it.
After == [getTask |-> "load", getTaskVpp |-> "encodeVpp", getTaskEnc |-> "encodeNull"]

-----------------------------------------------------------------------------
(* GetFreeTask: when no task is free the first one is waited for.  A wait  *)
(* that times out is no error, but the second search finds no task either. *)

GetFreeTask ==
    /\ pc \in DOMAIN After
    /\ \/ ~IsFull /\ pc' = After[pc] /\ UNCHANGED poolVars
       \/ IsFull /\ SyncDone /\ pc' = After[pc]
       \/ IsFull /\ pc' = "failed" /\ UNCHANGED poolVars
    /\ UNCHANGED runVars

\* EncodeFrameAsync with the units held in it: it holds back up to EncDelay of
\* them (MORE_DATA, the task stays free) or puts out the oldest.
Encode(held) ==
    \/ Len(held) <= EncDelay /\ inEnc' = held /\ UNCHANGED poolVars
    \/ inEnc' = Tail(held) /\ Fill(Head(held))

\* One round of the main loop after GetFreeTask.
LoadAndEncode ==
    LET u == [view |-> currView, frame |-> read[currView]]
        inside == Append(inVpp, u)
    IN /\ pc = "load"
       /\ read[currView] < Pictures
       /\ read' = [read EXCEPT ![currView] = @ + 1]
       /\ currView' = IF TwoViews(mode) THEN 1 - currView ELSE currView
       /\ \/ vpp /\ Len(inside) <= VppDelay
             /\ inVpp' = inside /\ UNCHANGED <<inEnc, poolVars>>
          \/ vpp /\ inVpp' = Tail(inside) /\ Encode(Append(inEnc, Head(inside)))
          \/ ~vpp /\ Encode(Append(inEnc, u)) /\ UNCHANGED inVpp
       /\ pc' = "getTask"
       /\ UNCHANGED <<vpp, lost, losses, timedOut>>

\* Mutant: VPP is not drained.
EndOfSourceToEncoder ==
    /\ pc = "load"
    /\ read[currView] = Pictures
    /\ pc' = "getTaskEnc"
    /\ UNCHANGED <<poolVars, runVars>>

EndOfSource ==
    /\ pc = "load"
    /\ read[currView] = Pictures
    /\ pc' = IF vpp THEN "drainVpp" ELSE "getTaskEnc"
    /\ UNCHANGED <<poolVars, runVars>>

\* RunFrameVPPAsync(NULL): a unit that is put out waits for a free task.
DrainVpp ==
    /\ pc = "drainVpp"
    /\ pc' = IF inVpp = <<>> THEN "getTaskEnc" ELSE "getTaskVpp"
    /\ UNCHANGED <<poolVars, runVars>>

EncodeFromVpp ==
    /\ pc = "encodeVpp"
    /\ inVpp' = Tail(inVpp)
    /\ Encode(Append(inEnc, Head(inVpp)))
    /\ pc' = "drainVpp"
    /\ UNCHANGED <<vpp, read, currView, lost, losses, timedOut>>

\* EncodeFrameAsync(NULL): the encoder puts out what it held back.
DrainEncoder ==
    /\ pc = "encodeNull"
    /\ IF inEnc = <<>>
         THEN BeginDrain /\ pc' = "drainPool" /\ UNCHANGED inEnc
         ELSE Fill(Head(inEnc)) /\ inEnc' = Tail(inEnc) /\ pc' = "getTaskEnc"
    /\ UNCHANGED <<vpp, read, currView, inVpp, lost, losses, timedOut>>

\* The last loop: until no task is under way, or a wait times out.  That is a
\* warning, which main takes for success.
DrainPool ==
    /\ pc = "drainPool"
    /\ \/ SyncDone /\ pc' = pc /\ UNCHANGED timedOut
       \/ tasks[start] = NoUnit /\ pc' = "done" /\ UNCHANGED <<poolVars, timedOut>>
       \/ tasks[start] # NoUnit /\ pc' = "done" /\ timedOut' = TRUE /\ UNCHANGED poolVars
    /\ UNCHANGED <<vpp, read, currView, inVpp, inEnc, lost, losses>>

-----------------------------------------------------------------------------
(* Failures.  Any call to the SDK may report that the device was lost.     *)

UnitsIn(s) == {s[i] : i \in DOMAIN s}
UnderWay == {tasks[i] : i \in DOMAIN tasks} \ {NoUnit}

\* Whether Run may be inside a call to the SDK: GetFreeTask waits only when full.
InSdkCall == \/ pc \in {"drainVpp", "encodeVpp", "encodeNull"}
             \/ pc \in DOMAIN After /\ IsFull
             \/ pc = "load" /\ read[currView] < Pictures
             \/ pc = "drainPool" /\ UnderWay # {}

\* Run ends with DEVICE_LOST, main resets the device and all components and
\* calls Run again.  Readers and writers stay as they are, while Run begins with
\* the first view.  The picture just loaded is lost with the rest.
DeviceLost ==
    LET loaded == IF pc = "load" THEN {[view |-> currView, frame |-> read[currView]]}
                                 ELSE {}
    IN /\ InSdkCall
       /\ losses < MaxLosses
       /\ losses' = losses + 1
       /\ lost' = lost \union UnderWay \union UnitsIn(inVpp) \union UnitsIn(inEnc)
                       \union loaded
       /\ read' = [v \in View |-> read[v] + Cardinality({u \in loaded : u.view = v})]
       /\ inVpp' = <<>> /\ inEnc' = <<>>
       /\ currView' = 0
       /\ Renew
       /\ pc' = "getTask"
       /\ UNCHANGED <<vpp, timedOut>>

\* Any other error, one of a write or of the reset included: main ends.
Fail ==
    /\ InSdkCall
    /\ pc' = "failed"
    /\ UNCHANGED <<poolVars, runVars>>

Next == \/ GetFreeTask \/ LoadAndEncode \/ EndOfSource \/ DrainVpp \/ EncodeFromVpp
        \/ DrainEncoder \/ DrainPool \/ DeviceLost \/ Fail

Spec == Init /\ [][Next]_allVars

-----------------------------------------------------------------------------

\* The file in which every written unit can be found: a duplicating writer may
\* miss it in the view's own file.
Kept == IF mode = "merged" THEN file["merged"]
        ELSE file["first"] \o file["second"]

Places == <<Kept, PoolQueue, inEnc, inVpp>>

\* In every file the pictures of a view are in the order of the source.
FilesInOrder ==
    \A f \in File : \A i, j \in DOMAIN file[f] :
        i < j /\ file[f][i].view = file[f][j].view => file[f][i].frame < file[f][j].frame

\* A picture that was read is written, or under way, or held back, or was given
\* up with the device: in one of these places, never in two, never in none.
OnePlaceEach ==
    LET held == UNION {UnitsIn(Places[k]) : k \in DOMAIN Places}
    IN /\ held \union lost = {u \in Unit : u.frame < read[u.view]}
       /\ held \intersect lost = {}
       /\ Cardinality(held) = Len(Kept) + Len(PoolQueue) + Len(inEnc) + Len(inVpp)

\* Run ended well: the source was read to its end, in both views unless the device
\* was lost between the two, and nothing is left behind but what timed out.
CompleteAtEnd ==
    pc = "done" =>
        /\ read[0] = Pictures
        /\ losses = 0 /\ TwoViews(mode) => read[1] = Pictures
        /\ inVpp = <<>> /\ inEnc = <<>>
        /\ timedOut \/ PoolQueue = <<>>

\* No picture is skipped, repeated or left behind in a buffer on its way from the
\* source to the files (CEncodingPipeline::Run with its three draining loops).
PicturesAccountedFor == FilesInOrder /\ OnePlaceEach /\ CompleteAtEnd
=============================================================================
