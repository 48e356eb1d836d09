----------------------------- MODULE EncTaskPool -----------------------------
(***************************************************************************)
(* CEncTaskPool: a ring of tasks, each with the sync point and the buffer  *)
(* of one unit that the encoder works on, and with the writer that the     *)
(* unit will be written by.  With two views the even tasks have the first  *)
(* writer and the odd tasks the second one: a unit gets into the file of   *)
(* its view only because the ring turns in step with the views.            *)
(***************************************************************************)
EXTENDS EncOutputs, FiniteSets

CONSTANTS AsyncDepth,     \* m_nAsyncDepth
          NoUnit          \* a task whose EncSyncP is null

ASSUME DepthAssumption == AsyncDepth \in Nat \ {0}
ASSUME NoUnitAssumption == NoUnit \notin Unit

PoolSize == AsyncDepth * 2

VARIABLES mode,       \* how many writers there are, and on which files
          tasks,      \* m_pTasks: the unit that is under way, or NoUnit
          start,      \* m_nTaskBufferStart
          file,       \* what was written
          nextView,   \* the view of the unit the encoder puts out next
          draining    \* the encoder has nothing left

poolVars == <<mode, tasks, start, file, nextView, draining>>

Slot(d) == (start + d) % PoolSize

\* The writer CEncTaskPool::Init gave to task i, by its view.
Writer(i) == IF TwoViews(mode) THEN i % 2 ELSE 0

Least(S) == CHOOSE d \in S : \A e \in S : d <= e

\* GetFreeTaskIndex: the distance from start to the first free task.
Offset == LET free == {d \in 0 .. PoolSize - 1 : tasks[Slot(d)] = NoUnit}
          IN IF free = {} THEN PoolSize ELSE Least(free)

IsFull == Offset = PoolSize

PoolInit ==
    /\ mode \in Mode
    /\ tasks = [i \in 0 .. PoolSize - 1 |-> NoUnit]
    /\ start = 0
    /\ file = [f \in File |-> <<>>]
    /\ nextView = 0
    /\ draining = FALSE

\* EncodeFrameAsync gives the free task a sync point: u is under way.
Fill(u) ==
    /\ ~IsFull
    /\ tasks' = [tasks EXCEPT ![Slot(Offset)] = u]
    /\ nextView' = IF TwoViews(mode) THEN 1 - nextView ELSE nextView
    /\ UNCHANGED <<mode, start, file, draining>>

\* Mutant: start stays where it is.
SyncDoneInPlace ==
    LET u == tasks[start]
    IN /\ u # NoUnit
       /\ \E fs \in Writes(mode, Writer(start)) : file' = WriteTo(fs, file, u)
       /\ tasks' = [tasks EXCEPT ![start] = NoUnit]
       /\ UNCHANGED <<mode, start, nextView, draining>>

\* The first task is done: it is written and freed, and start moves on to the
\* next task under way; without one it comes round to where it was.
SyncDone ==
    LET u == tasks[start]
        left == {d \in 1 .. PoolSize - 1 : tasks[Slot(d)] # NoUnit}
    IN /\ u # NoUnit
       /\ \E fs \in Writes(mode, Writer(start)) : file' = WriteTo(fs, file, u)
       /\ tasks' = [tasks EXCEPT ![start] = NoUnit]
       /\ start' = IF left = {} THEN start ELSE Slot(Least(left))
       /\ UNCHANGED <<mode, nextView, draining>>

\* Mutant: start is not set back.
RenewTasksOnly ==
    /\ tasks' = [i \in 0 .. PoolSize - 1 |-> NoUnit]
    /\ nextView' = 0
    /\ draining' = FALSE
    /\ UNCHANGED <<mode, start, file>>

\* Close and Init once more, after the device was lost.
Renew ==
    /\ tasks' = [i \in 0 .. PoolSize - 1 |-> NoUnit]
    /\ start' = 0
    /\ nextView' = 0
    /\ draining' = FALSE
    /\ UNCHANGED <<mode, file>>

BeginDrain == draining' = TRUE /\ UNCHANGED <<mode, tasks, start, file, nextView>>

-----------------------------------------------------------------------------
(* The pool with any caller that keeps to the protocol of the pipeline: it *)
(* waits for the first task only when no task is free or nothing more will *)
(* be encoded, and the views take turns.                                   *)

Submit(u) == ~draining /\ u.view = nextView /\ Fill(u)

Wait == (draining \/ IsFull) /\ SyncDone

PoolNext == (\E u \in Unit : Submit(u)) \/ Wait \/ BeginDrain \/ Renew

PoolSpec == PoolInit /\ [][PoolNext]_poolVars

\* The units under way, the oldest first.
PoolQueue == [i \in 1 .. Offset |-> tasks[Slot(i - 1)]]

TQ == INSTANCE TaskQueue WITH Capacity <- PoolSize, queue <- PoolQueue

\* The ring of tasks is a queue: units are written in the order in which their
\* encoding was started, each once, in the file of their own view
\* (CEncTaskPool::SynchronizeFirstTask, GetFreeTaskIndex and Init together).
ImplementsTaskQueue == TQ!Spec

PoolTypeOK ==
    /\ mode \in Mode
    /\ tasks \in [0 .. PoolSize - 1 -> Unit \union {NoUnit}]
    /\ start \in 0 .. PoolSize - 1
    /\ file \in [File -> Seq(Unit)]
    /\ nextView \in View
    /\ draining \in BOOLEAN

\* The tasks under way follow start without a gap.
NoGap == \A d \in 0 .. PoolSize - 1 : d > Offset => tasks[Slot(d)] = NoUnit

\* The next free task has the writer of the view that comes next.
InStep == ~draining /\ TwoViews(mode) => (start + Offset) % 2 = nextView

\* Every unit lies in a task whose writer is that of its view.
RightWriter == \A i \in 0 .. PoolSize - 1 :
                   tasks[i] # NoUnit => tasks[i].view = Writer(i)

\* The ring never has a gap and turns in step with the views: what keeps the
\* units in order and a unit of one view out of the other's file, although no
\* task ever looks at the view of its unit (GetFreeTaskIndex, SynchronizeFirstTask).
RingInv == PoolTypeOK /\ NoGap /\ InStep /\ RightWriter
=============================================================================
