----------------------- MODULE EncodingPipelineProofs -----------------------
(***************************************************************************)
(* The ring of tasks is what it should be, and it implements the queue;    *)
(* the encoding pipeline keeps to the protocol of the pool, so that this   *)
(* holds in the pipeline, too, and it accounts for all its pictures: for   *)
(* every depth of the pool, every delay of VPP and encoder and any number  *)
(* of lost devices.                                                        *)
(***************************************************************************)
EXTENDS EncodingPipeline, SequenceTheorems, FiniteSetTheorems, TLAPS

-----------------------------------------------------------------------------
(***************************************************************************)
(* The ring of tasks keeps its invariant and implements the queue, for     *)
(* every depth of the pool and every number of pictures.                   *)
(***************************************************************************)

\* The tasks under way are the first c from start on.
FirstBusy(t, s, c) == \A d \in 0 .. PoolSize - 1 :
                          t[(s + d) % PoolSize] # NoUnit <=> d < c

\* The inductive invariant: RingInv, with the number of tasks under way named.
IndInv == /\ PoolTypeOK
          /\ \E c \in 0 .. PoolSize : FirstBusy(tasks, start, c)
          /\ InStep
          /\ ~TwoViews(mode) => nextView = 0
          /\ RightWriter

-----------------------------------------------------------------------------
(* The arithmetic of the ring.                                             *)

\* A distance below the size of the ring wraps round it at most once.
LEMMA WrapsOnce ==
    ASSUME NEW n \in Nat \ {0}, NEW s \in 0 .. n - 1, NEW d \in 0 .. n
    PROVE  /\ s + d < n => (s + d) % n = s + d
           /\ s + d >= n => (s + d) % n = s + d - n
           /\ (s + d) % n \in 0 .. n - 1
<1> DEFINE x == s + d
<1>1. CASE x < n
  BY <1>1, SMT
<1>2. CASE x >= n
  <2>1. x = n * 1 + (x - n) /\ x - n \in 0 .. n - 1
    BY <1>2, SMT
  <2> QED  BY <2>1, <1>2, SMT
<1> QED  BY <1>1, <1>2

LEMMA PoolSizeFacts == PoolSize \in Nat \ {0} /\ PoolSize % 2 = 0 /\ PoolSize >= 2
  BY DepthAssumption DEF PoolSize

\* The slot at distance d from s, without the modulus.
LEMMA SlotValue ==
    ASSUME NEW s \in 0 .. PoolSize - 1, NEW d \in 0 .. PoolSize
    PROVE  /\ s + d < PoolSize => (s + d) % PoolSize = s + d
           /\ s + d >= PoolSize => (s + d) % PoolSize = s + d - PoolSize
           /\ (s + d) % PoolSize \in 0 .. PoolSize - 1
  BY WrapsOnce, PoolSizeFacts, Zenon

\* Going round a ring of even size keeps parity.
LEMMA SlotParity ==
    ASSUME NEW s \in 0 .. PoolSize - 1, NEW d \in 0 .. PoolSize
    PROVE  ((s + d) % PoolSize) % 2 = (s + d) % 2
<1>1. CASE s + d < PoolSize
  <2>1. (s + d) % PoolSize = s + d
    BY <1>1, SlotValue, Zenon
  <2> QED  BY <2>1
<1>2. CASE s + d >= PoolSize
  <2>1. (s + d) % PoolSize = s + d - PoolSize
    BY <1>2, SlotValue, Zenon
  <2>2. (s + d - PoolSize) % 2 = (s + d) % 2
    BY DepthAssumption, PoolSizeFacts DEF PoolSize
  <2> QED  BY <2>1, <2>2
<1> QED  BY <1>1, <1>2, PoolSizeFacts

\* Two distances below the size of the ring lead to two slots.
LEMMA SlotsDiffer ==
    ASSUME NEW s \in 0 .. PoolSize - 1,
           NEW d \in 0 .. PoolSize - 1, NEW e \in 0 .. PoolSize - 1, d # e
    PROVE  (s + d) % PoolSize # (s + e) % PoolSize
<1>1. d \in 0 .. PoolSize /\ e \in 0 .. PoolSize
  BY PoolSizeFacts
<1>2. /\ s + d < PoolSize => (s + d) % PoolSize = s + d
      /\ s + d >= PoolSize => (s + d) % PoolSize = s + d - PoolSize
  BY <1>1, SlotValue, Zenon
<1>3. /\ s + e < PoolSize => (s + e) % PoolSize = s + e
      /\ s + e >= PoolSize => (s + e) % PoolSize = s + e - PoolSize
  BY <1>1, SlotValue, Zenon
<1> QED  BY <1>2, <1>3, PoolSizeFacts

\* One further on in the ring, seen from the next slot.
LEMMA NextSlot ==
    ASSUME NEW s \in 0 .. PoolSize - 1, NEW d \in 0 .. PoolSize - 1
    PROVE  /\ d = PoolSize - 1 => (((s + 1) % PoolSize) + d) % PoolSize = s
           /\ d < PoolSize - 1 =>
                 (((s + 1) % PoolSize) + d) % PoolSize = (s + (d + 1)) % PoolSize
<1> DEFINE r == (s + 1) % PoolSize
<1>0. 1 \in 0 .. PoolSize /\ d \in 0 .. PoolSize /\ d + 1 \in 0 .. PoolSize
  BY PoolSizeFacts
<1>1. /\ s + 1 < PoolSize => r = s + 1
      /\ s + 1 >= PoolSize => r = s + 1 - PoolSize
      /\ r \in 0 .. PoolSize - 1
  BY <1>0, SlotValue, Zenon
<1> HIDE DEF r
<1>2. /\ r + d < PoolSize => (r + d) % PoolSize = r + d
      /\ r + d >= PoolSize => (r + d) % PoolSize = r + d - PoolSize
  BY <1>0, <1>1, SlotValue, Zenon
<1>3. /\ s + (d + 1) < PoolSize => (s + (d + 1)) % PoolSize = s + (d + 1)
      /\ s + (d + 1) >= PoolSize => (s + (d + 1)) % PoolSize = s + (d + 1) - PoolSize
  BY <1>0, SlotValue, Zenon
<1>4. /\ d = PoolSize - 1 => (r + d) % PoolSize = s
      /\ d < PoolSize - 1 => (r + d) % PoolSize = (s + (d + 1)) % PoolSize
  BY <1>1, <1>2, <1>3, PoolSizeFacts
<1> QED  BY <1>4 DEF r

-----------------------------------------------------------------------------
(* The search for a free task.                                             *)

OffsetIn(t, s) == LET free == {d \in 0 .. PoolSize - 1 : t[(s + d) % PoolSize] = NoUnit}
                  IN IF free = {} THEN PoolSize ELSE Least(free)

LEMMA OffsetIs ==
    ASSUME NEW t, NEW s, NEW c \in 0 .. PoolSize, FirstBusy(t, s, c)
    PROVE  OffsetIn(t, s) = c
<1> DEFINE free == {d \in 0 .. PoolSize - 1 : t[(s + d) % PoolSize] = NoUnit}
<1>1. free = c .. PoolSize - 1
  BY PoolSizeFacts DEF FirstBusy
<1>2. CASE c = PoolSize
  BY <1>1, <1>2, PoolSizeFacts DEF OffsetIn
<1>3. CASE c < PoolSize
  <2>1. c \in free /\ \A e \in free : c <= e
    BY <1>1, <1>3, PoolSizeFacts
  <2>2. \A x \in free : (\A e \in free : x <= e) => x = c
    BY <2>1, <1>1, PoolSizeFacts
  <2>3. Least(free) = c
    BY <2>1, <2>2 DEF Least
  <2> QED  BY <2>1, <2>3 DEF OffsetIn
<1> QED  BY <1>2, <1>3, PoolSizeFacts

LEMMA OffsetDef == Offset = OffsetIn(tasks, start) /\ Offset' = OffsetIn(tasks', start')
  BY DEF Offset, OffsetIn, Slot

-----------------------------------------------------------------------------
(* The invariant is kept.                                                  *)

\* Under the invariant Offset is the number of tasks under way.
LEMMA OffsetFacts ==
    ASSUME NEW c \in 0 .. PoolSize, FirstBusy(tasks, start, c)
    PROVE  Offset = c
  BY OffsetIs, OffsetDef

LEMMA InitInv == PoolInit => IndInv
<1> SUFFICES ASSUME PoolInit PROVE IndInv
  OBVIOUS
<1>1. PoolTypeOK
  <2>1. start \in 0 .. PoolSize - 1 /\ nextView \in View
    BY PoolSizeFacts DEF PoolInit, View
  <2>2. file \in [File -> Seq(Unit)]
    <3>1. <<>> \in Seq(Unit)
      OBVIOUS
    <3> QED  BY <3>1 DEF PoolInit
  <2>3. tasks \in [0 .. PoolSize - 1 -> Unit \union {NoUnit}]
    BY DEF PoolInit
  <2> QED  BY <2>1, <2>2, <2>3 DEF PoolInit, PoolTypeOK
<1>2. FirstBusy(tasks, start, 0)
  <2> SUFFICES ASSUME NEW d \in 0 .. PoolSize - 1
               PROVE  tasks[(start + d) % PoolSize] = NoUnit
    BY PoolSizeFacts DEF FirstBusy
  <2>1. d \in 0 .. PoolSize /\ start \in 0 .. PoolSize - 1
    BY PoolSizeFacts DEF PoolInit
  <2>2. (start + d) % PoolSize \in 0 .. PoolSize - 1
    BY <2>1, SlotValue
  <2> QED  BY <2>2 DEF PoolInit
<1>3. 0 \in 0 .. PoolSize
  BY PoolSizeFacts
<1>4. Offset = 0
  BY <1>2, <1>3, OffsetFacts
<1>5. InStep
  BY <1>4 DEF PoolInit, InStep
<1>6. RightWriter
  BY DEF PoolInit, RightWriter
<1> QED  BY <1>1, <1>2, <1>3, <1>5, <1>6 DEF IndInv, PoolInit

\* Filling the first free task leaves no gap.
LEMMA FillBusy ==
    ASSUME PoolTypeOK, NEW c \in 0 .. PoolSize, FirstBusy(tasks, start, c),
           NEW u \in Unit, Fill(u)
    PROVE  /\ c < PoolSize /\ Offset = c
           /\ (start + c) % PoolSize \in 0 .. PoolSize - 1
           /\ tasks' = [tasks EXCEPT ![(start + c) % PoolSize] = u]
           /\ FirstBusy(tasks', start', c + 1)
<1>1. Offset = c
  BY OffsetFacts
<1>2. c < PoolSize
  BY <1>1, PoolSizeFacts DEF Fill, IsFull
<1>3. tasks' = [tasks EXCEPT ![(start + c) % PoolSize] = u] /\ start' = start
  BY <1>1 DEF Fill, Slot
<1>4. start \in 0 .. PoolSize - 1 /\ c \in 0 .. PoolSize - 1
  BY <1>2, PoolSizeFacts DEF PoolTypeOK
<1>5. \A d \in 0 .. PoolSize - 1 : (start + d) % PoolSize \in 0 .. PoolSize - 1
  <2> TAKE d \in 0 .. PoolSize - 1
  <2>1. d \in 0 .. PoolSize
    BY PoolSizeFacts
  <2> QED  BY <2>1, <1>4, SlotValue
<1>6. ASSUME NEW d \in 0 .. PoolSize - 1
      PROVE  tasks'[(start + d) % PoolSize] # NoUnit <=> d < c + 1
  <2>1. CASE d = c
    <3>1. tasks'[(start + d) % PoolSize] = u
      BY <1>3, <1>5, <2>1 DEF PoolTypeOK
    <3> QED  BY <3>1, <2>1, NoUnitAssumption, PoolSizeFacts
  <2>2. CASE d # c
    <3>1. (start + d) % PoolSize # (start + c) % PoolSize
      BY <2>2, <1>4, SlotsDiffer
    <3>2. tasks'[(start + d) % PoolSize] = tasks[(start + d) % PoolSize]
      BY <3>1, <1>3, <1>5 DEF PoolTypeOK
    <3>3. tasks[(start + d) % PoolSize] # NoUnit <=> d < c
      BY DEF FirstBusy
    <3>4. d < c <=> d < c + 1
      BY <2>2, PoolSizeFacts
    <3> QED  BY <3>2, <3>3, <3>4
  <2> QED  BY <2>1, <2>2
<1> QED  BY <1>1, <1>2, <1>3, <1>4, <1>5, <1>6 DEF FirstBusy

LEMMA SubmitInv ==
    ASSUME IndInv, NEW u \in Unit, Submit(u)
    PROVE  IndInv'
<1>1. PICK c \in 0 .. PoolSize : FirstBusy(tasks, start, c)
  BY DEF IndInv
<1>2. PoolTypeOK /\ Fill(u) /\ u.view = nextView /\ ~draining
  BY DEF IndInv, Submit
<1>3. /\ c < PoolSize /\ Offset = c
      /\ (start + c) % PoolSize \in 0 .. PoolSize - 1
      /\ tasks' = [tasks EXCEPT ![(start + c) % PoolSize] = u]
      /\ FirstBusy(tasks', start', c + 1)
  BY <1>1, <1>2, FillBusy
<1>4. c + 1 \in 0 .. PoolSize /\ start \in 0 .. PoolSize - 1
  BY <1>2, <1>3, PoolSizeFacts DEF PoolTypeOK
<1>5. PoolTypeOK'
  <2>1. nextView' \in View
    BY <1>2 DEF PoolTypeOK, Fill, View
  <2>2. tasks' \in [0 .. PoolSize - 1 -> Unit \union {NoUnit}]
    BY <1>2, <1>3 DEF PoolTypeOK
  <2>3. UNCHANGED <<mode, start, file, draining>>
    BY <1>2 DEF Fill
  <2> QED  BY <1>2, <2>1, <2>2, <2>3 DEF PoolTypeOK
<1>6. Offset' = c + 1
  BY <1>3, <1>4, OffsetIs, OffsetDef
<1>7. TwoViews(mode) => (start + c) % 2 = nextView
  BY <1>2, <1>3 DEF IndInv, InStep
<1>8. InStep'
  <2> SUFFICES ASSUME TwoViews(mode) PROVE (start + (c + 1)) % 2 = 1 - nextView
    BY <1>2, <1>6 DEF InStep, Fill
  <2>1. (start + c) % 2 = nextView /\ start + c \in Nat /\ nextView \in {0, 1}
    BY <1>7, <1>2, <1>4 DEF PoolTypeOK, View
  <2> QED  BY <2>1, <1>4
<1>9. u.view = Writer((start + c) % PoolSize)
  <2>1. ((start + c) % PoolSize) % 2 = (start + c) % 2
    BY <1>4, SlotParity
  <2> QED  BY <2>1, <1>7, <1>2 DEF Writer, IndInv
<1>10. RightWriter'
  <2> SUFFICES ASSUME NEW i \in 0 .. PoolSize - 1, tasks'[i] # NoUnit
               PROVE  tasks'[i].view = Writer(i)
    BY <1>2 DEF RightWriter, Writer, Fill
  <2>1. CASE i = (start + c) % PoolSize
    BY <2>1, <1>2, <1>3, <1>9 DEF PoolTypeOK
  <2>2. CASE i # (start + c) % PoolSize
    BY <2>2, <1>2, <1>3 DEF PoolTypeOK, RightWriter, IndInv
  <2> QED  BY <2>1, <2>2
<1>11. (~TwoViews(mode) => nextView = 0)'
  BY <1>2 DEF IndInv, Fill
<1> QED  BY <1>3, <1>4, <1>5, <1>8, <1>10, <1>11 DEF IndInv

\* Freeing the first task leaves the others as they were, and start moves on to
\* the oldest of them.
LEMMA SyncBusy ==
    ASSUME PoolTypeOK, NEW c \in 0 .. PoolSize, FirstBusy(tasks, start, c), SyncDone
    PROVE  /\ c >= 1
           /\ tasks' = [tasks EXCEPT ![start] = NoUnit]
           /\ c = 1 => start' = start
           /\ c > 1 => start' = (start + 1) % PoolSize
           /\ start' \in 0 .. PoolSize - 1
           /\ FirstBusy(tasks', start', c - 1)
<1> DEFINE left == {d \in 1 .. PoolSize - 1 : tasks[Slot(d)] # NoUnit}
<1>1. /\ tasks[start] # NoUnit
      /\ tasks' = [tasks EXCEPT ![start] = NoUnit]
      /\ start' = IF left = {} THEN start ELSE Slot(Least(left))
  BY DEF SyncDone
<1>2. /\ start \in 0 .. PoolSize - 1 /\ 0 \in 0 .. PoolSize - 1
      /\ 0 \in 0 .. PoolSize /\ 1 \in 0 .. PoolSize
  BY PoolSizeFacts DEF PoolTypeOK
<1>3. (start + 0) % PoolSize = start
  <2>1. start + 0 < PoolSize => (start + 0) % PoolSize = start + 0
    BY <1>2, SlotValue, Zenon
  <2> QED  BY <2>1, <1>2, PoolSizeFacts
<1>4. c >= 1
  <2>1. tasks[(start + 0) % PoolSize] # NoUnit <=> 0 < c
    BY <1>2 DEF FirstBusy
  <2> QED  BY <2>1, <1>1, <1>3
<1>5. left = 1 .. c - 1
  BY PoolSizeFacts, <1>4 DEF FirstBusy, Slot
<1>6. c = 1 => start' = start
  BY <1>1, <1>5
<1>7. c > 1 => start' = (start + 1) % PoolSize
  <2> SUFFICES ASSUME c > 1 PROVE start' = (start + 1) % PoolSize
    OBVIOUS
  <2>1. 1 \in left /\ \A e \in left : 1 <= e
    BY <1>5
  <2>2. \A x \in left : (\A e \in left : x <= e) => x = 1
    BY <2>1, <1>5
  <2>3. Least(left) = 1
    BY <2>1, <2>2 DEF Least
  <2> QED  BY <1>1, <2>1, <2>3 DEF Slot
<1>8. start' \in 0 .. PoolSize - 1
  <2>1. (start + 1) % PoolSize \in 0 .. PoolSize - 1
    BY <1>2, SlotValue
  <2> QED  BY <2>1, <1>2, <1>4, <1>6, <1>7, PoolSizeFacts
<1>9. \A d \in 0 .. PoolSize - 1 : (start + d) % PoolSize \in 0 .. PoolSize - 1
  <2> TAKE d \in 0 .. PoolSize - 1
  <2>1. d \in 0 .. PoolSize
    BY PoolSizeFacts
  <2> QED  BY <2>1, <1>2, SlotValue
<1>10. \A d \in 1 .. PoolSize - 1 :
           tasks'[(start + d) % PoolSize] # NoUnit <=> d < c
  <2> TAKE d \in 1 .. PoolSize - 1
  <2>1. d \in 0 .. PoolSize - 1 /\ d # 0
    BY PoolSizeFacts
  <2>2. (start + d) % PoolSize # (start + 0) % PoolSize
    BY <2>1, <1>2, SlotsDiffer
  <2>3. (start + d) % PoolSize # start
    BY <2>2, <1>3
  <2>4. tasks'[(start + d) % PoolSize] = tasks[(start + d) % PoolSize]
    BY <2>1, <2>3, <1>1, <1>9 DEF PoolTypeOK
  <2> QED  BY <2>1, <2>4 DEF FirstBusy
<1>11. tasks'[start] = NoUnit
  BY <1>1, <1>2 DEF PoolTypeOK
<1>12. FirstBusy(tasks', start', c - 1)
  <2> SUFFICES ASSUME NEW d \in 0 .. PoolSize - 1
               PROVE  tasks'[(start' + d) % PoolSize] # NoUnit <=> d < c - 1
    BY DEF FirstBusy
  <2>1. CASE c = 1
    <3>1. CASE d = 0
      BY <3>1, <2>1, <1>3, <1>6, <1>11
    <3>2. CASE d # 0
      <4>1. d \in 1 .. PoolSize - 1
        BY <3>2, PoolSizeFacts
      <4>2. tasks'[(start + d) % PoolSize] # NoUnit <=> d < c
        BY <4>1, <1>10
      <4> QED  BY <4>1, <4>2, <2>1, <1>6
    <3> QED  BY <3>1, <3>2
  <2>2. CASE c > 1
    <3>1. start' = (start + 1) % PoolSize
      BY <2>2, <1>7
    <3>2. CASE d = PoolSize - 1
      <4>1. (start' + d) % PoolSize = start
        BY <3>1, <3>2, <1>2, NextSlot
      <4> QED  BY <4>1, <1>11, <3>2, PoolSizeFacts
    <3>3. CASE d < PoolSize - 1
      <4>1. (start' + d) % PoolSize = (start + (d + 1)) % PoolSize
        BY <3>1, <3>3, <1>2, NextSlot
      <4>2. d + 1 \in 1 .. PoolSize - 1
        BY <3>3, PoolSizeFacts
      <4>3. tasks'[(start + (d + 1)) % PoolSize] # NoUnit <=> d + 1 < c
        BY <4>2, <1>10
      <4>4. d + 1 < c <=> d < c - 1
        BY PoolSizeFacts
      <4> QED  BY <4>1, <4>3, <4>4
    <3> QED  BY <3>2, <3>3, PoolSizeFacts
  <2> QED  BY <2>1, <2>2, <1>4, PoolSizeFacts
<1> QED  BY <1>1, <1>4, <1>6, <1>7, <1>8, <1>12

\* What a write adds to the files is in its place.
LEMMA WriteType ==
    ASSUME file \in [File -> Seq(Unit)], NEW u \in Unit, NEW fs
    PROVE  WriteTo(fs, file, u) \in [File -> Seq(Unit)]
<1>1. \A f \in File : Append(file[f], u) \in Seq(Unit) /\ file[f] \in Seq(Unit)
  OBVIOUS
<1> QED  BY <1>1 DEF WriteTo

LEMMA WaitInv ==
    ASSUME IndInv, Wait
    PROVE  IndInv'
<1>1. PICK c \in 0 .. PoolSize : FirstBusy(tasks, start, c)
  BY DEF IndInv
<1>2. PoolTypeOK /\ SyncDone /\ Offset = c
  BY <1>1, OffsetFacts DEF IndInv, Wait
<1>3. /\ c >= 1
      /\ tasks' = [tasks EXCEPT ![start] = NoUnit]
      /\ c = 1 => start' = start
      /\ c > 1 => start' = (start + 1) % PoolSize
      /\ start' \in 0 .. PoolSize - 1
      /\ FirstBusy(tasks', start', c - 1)
  BY <1>1, <1>2, SyncBusy
<1>4. c - 1 \in 0 .. PoolSize
  BY <1>3, PoolSizeFacts
<1>5. Offset' = c - 1
  BY <1>3, <1>4, OffsetIs, OffsetDef
<1>6. PoolTypeOK'
  <2>1. tasks[start] \in Unit
    BY <1>2 DEF PoolTypeOK, SyncDone
  <2>2. file' \in [File -> Seq(Unit)]
    BY <2>1, <1>2, WriteType DEF PoolTypeOK, SyncDone
  <2>3. tasks' \in [0 .. PoolSize - 1 -> Unit \union {NoUnit}]
    BY <1>2, <1>3 DEF PoolTypeOK
  <2>4. UNCHANGED <<mode, nextView, draining>>
    BY <1>2 DEF SyncDone
  <2> QED  BY <1>2, <1>3, <2>2, <2>3, <2>4 DEF PoolTypeOK
<1>7. InStep'
  <2> SUFFICES ASSUME ~draining, TwoViews(mode)
               PROVE  (start' + (c - 1)) % 2 = nextView
    BY <1>2, <1>5 DEF InStep, SyncDone
  <2>1. c = PoolSize /\ c > 1 /\ start \in 0 .. PoolSize - 1
    BY <1>2, PoolSizeFacts DEF Wait, IsFull, PoolTypeOK
  <2>2. (start + c) % 2 = nextView
    BY <1>2 DEF IndInv, InStep
  <2>3. 1 \in 0 .. PoolSize
    BY PoolSizeFacts
  <2>4. /\ start + 1 < PoolSize => start' = start + 1
        /\ start + 1 >= PoolSize => start' = start + 1 - PoolSize
    <3>1. start' = (start + 1) % PoolSize
      BY <1>3, <2>1
    <3> QED  BY <3>1, <2>1, <2>3, SlotValue, Zenon
  <2>5. CASE start + 1 < PoolSize
    <3>1. start' + (c - 1) = start + c
      BY <2>5, <2>4, <2>1, PoolSizeFacts
    <3> QED  BY <3>1, <2>2
  <2>6. CASE start + 1 >= PoolSize
    <3>1. start' + (c - 1) = start /\ start + c = start + 2 * AsyncDepth
      BY <2>6, <2>4, <2>1, PoolSizeFacts, DepthAssumption DEF PoolSize
    <3>2. (start + 2 * AsyncDepth) % 2 = start % 2
      BY <2>1, DepthAssumption, PoolSizeFacts
    <3> QED  BY <3>1, <3>2, <2>2
  <2> QED  BY <2>1, <2>5, <2>6, PoolSizeFacts
<1>8. RightWriter'
  <2> SUFFICES ASSUME NEW i \in 0 .. PoolSize - 1, tasks'[i] # NoUnit
               PROVE  tasks'[i].view = Writer(i)
    BY <1>2 DEF RightWriter, Writer, SyncDone
  <2>1. tasks'[i] = tasks[i]
    BY <1>2, <1>3 DEF PoolTypeOK
  <2> QED  BY <2>1 DEF RightWriter, IndInv
<1>9. (~TwoViews(mode) => nextView = 0)'
  BY <1>2 DEF IndInv, SyncDone
<1> QED  BY <1>3, <1>4, <1>6, <1>7, <1>8, <1>9 DEF IndInv

LEMMA RenewInv ==
    ASSUME IndInv, Renew
    PROVE  IndInv'
<1>1. PoolTypeOK'
  <2>0. start' = 0 /\ nextView' = 0 /\ draining' = FALSE
    BY DEF Renew
  <2>1. start' \in 0 .. PoolSize - 1 /\ nextView' \in View
    BY <2>0, PoolSizeFacts DEF View
  <2>4. draining' \in BOOLEAN
    BY <2>0, Zenon
  <2>2. tasks' \in [0 .. PoolSize - 1 -> Unit \union {NoUnit}]
    BY DEF Renew
  <2>3. UNCHANGED <<mode, file>>
    BY DEF Renew
  <2> QED  BY <2>1, <2>2, <2>3, <2>4 DEF PoolTypeOK, IndInv
<1>2. FirstBusy(tasks', start', 0)
  <2> SUFFICES ASSUME NEW d \in 0 .. PoolSize - 1
               PROVE  tasks'[(start' + d) % PoolSize] = NoUnit
    BY PoolSizeFacts DEF FirstBusy
  <2>1. d \in 0 .. PoolSize /\ start' \in 0 .. PoolSize - 1
    BY <1>1, PoolSizeFacts DEF PoolTypeOK
  <2>2. (start' + d) % PoolSize \in 0 .. PoolSize - 1
    BY <2>1, SlotValue
  <2> QED  BY <2>2 DEF Renew
<1>3. 0 \in 0 .. PoolSize
  BY PoolSizeFacts
<1>4. Offset' = 0
  BY <1>2, <1>3, OffsetIs, OffsetDef
<1>5. InStep'
  BY <1>4 DEF Renew, InStep
<1>6. RightWriter'
  BY DEF Renew, RightWriter
<1> QED  BY <1>1, <1>2, <1>3, <1>5, <1>6 DEF IndInv, Renew

LEMMA BeginDrainInv ==
    ASSUME IndInv, BeginDrain
    PROVE  IndInv'
<1>1. UNCHANGED <<mode, tasks, start, file, nextView>> /\ draining' = TRUE
  BY DEF BeginDrain
<1> QED  BY <1>1 DEF IndInv, PoolTypeOK, FirstBusy, InStep, RightWriter, Writer, TwoViews

LEMMA StutterInv ==
    ASSUME IndInv, UNCHANGED poolVars
    PROVE  IndInv'
<1>1. Offset' = Offset
  BY DEF poolVars, Offset, Slot
<1> QED  BY <1>1 DEF poolVars, IndInv, PoolTypeOK, FirstBusy, InStep, RightWriter, Writer

\* The invariant says what RingInv says.
LEMMA IndInvGivesRingInv == IndInv => RingInv
<1> SUFFICES ASSUME IndInv PROVE NoGap
  BY DEF IndInv, RingInv
<1>1. PICK c \in 0 .. PoolSize : FirstBusy(tasks, start, c)
  BY DEF IndInv
<1>2. Offset = c
  BY <1>1, OffsetFacts
<1> QED  BY <1>1, <1>2, PoolSizeFacts DEF NoGap, FirstBusy, Slot

LEMMA InvariantKept == PoolSpec => []IndInv
<1>1. IndInv /\ [PoolNext]_poolVars => IndInv'
  BY SubmitInv, WaitInv, RenewInv, BeginDrainInv, StutterInv DEF PoolNext
<1> QED  BY <1>1, InitInv, PTL DEF PoolSpec

\* The ring has no gaps, turns in step with the views and holds every unit in a
\* task whose writer is that of its view (CEncTaskPool).
THEOREM RingCorrect == PoolSpec => []RingInv
  BY InvariantKept, IndInvGivesRingInv, PTL

-----------------------------------------------------------------------------
(* The ring is a queue.                                                    *)

\* The c tasks under way of a ring, the oldest first.
RingSeq(t, s, c) == [i \in 1 .. c |-> t[(s + (i - 1)) % PoolSize]]

LEMMA QueueIs ==
    /\ \A c \in 0 .. PoolSize : FirstBusy(tasks, start, c) =>
           PoolQueue = RingSeq(tasks, start, c)
    /\ \A c \in 0 .. PoolSize : FirstBusy(tasks', start', c) =>
           PoolQueue' = RingSeq(tasks', start', c)
  BY OffsetIs, OffsetDef DEF PoolQueue, RingSeq, Slot

\* Every slot at a distance of a task under way holds a unit.
LEMMA RingSeqType ==
    ASSUME NEW t \in [0 .. PoolSize - 1 -> Unit \union {NoUnit}],
           NEW s \in 0 .. PoolSize - 1,
           NEW c \in 0 .. PoolSize, FirstBusy(t, s, c)
    PROVE  /\ RingSeq(t, s, c) \in Seq(Unit)
           /\ Len(RingSeq(t, s, c)) = c
<1>1. ASSUME NEW i \in 1 .. c
      PROVE  t[(s + (i - 1)) % PoolSize] \in Unit
  <2>1. i - 1 \in 0 .. PoolSize - 1 /\ i - 1 \in 0 .. PoolSize /\ i - 1 < c
    BY PoolSizeFacts
  <2>2. (s + (i - 1)) % PoolSize \in 0 .. PoolSize - 1
    BY <2>1, SlotValue
  <2>3. t[(s + (i - 1)) % PoolSize] # NoUnit
    BY <2>1 DEF FirstBusy
  <2> QED  BY <2>2, <2>3
<1>2. c \in Nat
  BY PoolSizeFacts
<1> QED  BY <1>1, <1>2 DEF RingSeq

LEMMA InitImplements == PoolInit => TQ!Init
<1> SUFFICES ASSUME PoolInit PROVE TQ!Init
  OBVIOUS
<1>1. Offset = 0
  <2>1. PICK c \in 0 .. PoolSize : FirstBusy(tasks, start, c)
    BY InitInv DEF IndInv
  <2>2. 0 \in 0 .. PoolSize - 1 /\ start = 0 /\ 0 \in 0 .. PoolSize
    BY PoolSizeFacts DEF PoolInit
  <2>3. (start + 0) % PoolSize \in 0 .. PoolSize - 1
    BY <2>2, SlotValue
  <2>4. tasks[(start + 0) % PoolSize] = NoUnit
    BY <2>3 DEF PoolInit
  <2>5. ~(0 < c)
    BY <2>1, <2>2, <2>4 DEF FirstBusy
  <2>6. c = 0
    BY <2>5, PoolSizeFacts
  <2> QED  BY <2>1, <2>6, OffsetFacts
<1>2. PoolQueue = <<>>
  BY <1>1 DEF PoolQueue
<1> QED  BY <1>2 DEF PoolInit, TQ!Init, TQ!Mode, TQ!File, Mode, File

LEMMA SubmitImplements ==
    ASSUME IndInv, NEW u \in Unit, Submit(u)
    PROVE  TQ!Submit(u)
<1>1. PICK c \in 0 .. PoolSize : FirstBusy(tasks, start, c)
  BY DEF IndInv
<1>2. PoolTypeOK /\ Fill(u) /\ start' = start
  BY DEF IndInv, Submit, Fill
<1>3. /\ c < PoolSize
      /\ (start + c) % PoolSize \in 0 .. PoolSize - 1
      /\ tasks' = [tasks EXCEPT ![(start + c) % PoolSize] = u]
      /\ FirstBusy(tasks', start', c + 1)
  BY <1>1, <1>2, FillBusy
<1>4. /\ c + 1 \in 0 .. PoolSize /\ start \in 0 .. PoolSize - 1
      /\ c \in 0 .. PoolSize - 1 /\ c \in Nat
  BY <1>2, <1>3, PoolSizeFacts DEF PoolTypeOK
<1>5. PoolQueue = RingSeq(tasks, start, c) /\ PoolQueue' = RingSeq(tasks', start, c + 1)
  BY <1>1, <1>2, <1>3, <1>4, QueueIs
<1>6. RingSeq(tasks, start, c) \in Seq(Unit) /\ Len(RingSeq(tasks, start, c)) = c
  BY <1>1, <1>2, RingSeqType DEF PoolTypeOK
<1>7. \A i \in 1 .. c : tasks'[(start + (i - 1)) % PoolSize] =
                          tasks[(start + (i - 1)) % PoolSize]
  <2> TAKE i \in 1 .. c
  <2>1. i - 1 \in 0 .. PoolSize - 1 /\ i - 1 # c /\ i - 1 \in 0 .. PoolSize
    BY PoolSizeFacts
  <2>2. (start + (i - 1)) % PoolSize # (start + c) % PoolSize
    BY <2>1, <1>4, SlotsDiffer
  <2>3. (start + (i - 1)) % PoolSize \in 0 .. PoolSize - 1
    BY <2>1, <1>4, SlotValue
  <2> QED  BY <2>2, <2>3, <1>2, <1>3 DEF PoolTypeOK
<1>8. tasks'[(start + ((c + 1) - 1)) % PoolSize] = u
  <2>1. start + ((c + 1) - 1) = start + c
    BY <1>4
  <2> QED  BY <2>1, <1>2, <1>3 DEF PoolTypeOK
<1>9. RingSeq(tasks', start, c + 1) = Append(RingSeq(tasks, start, c), u)
  <2> DEFINE old == RingSeq(tasks, start, c)
             new == RingSeq(tasks', start, c + 1)
  <2>1. /\ Append(old, u) \in Seq(Unit)
        /\ Len(Append(old, u)) = c + 1
        /\ \A i \in 1 .. c : Append(old, u)[i] = old[i]
        /\ Append(old, u)[c + 1] = u
    BY <1>6, AppendProperties
  <2>2. tasks' \in [0 .. PoolSize - 1 -> Unit \union {NoUnit}]
    BY <1>2, <1>3 DEF PoolTypeOK
  <2>3. new \in Seq(Unit) /\ Len(new) = c + 1
    BY <2>2, <1>2, <1>3, <1>4, RingSeqType
  <2>4. \A i \in 1 .. c : new[i] = old[i]
    BY <1>4, <1>7 DEF RingSeq
  <2>5. new[c + 1] = u
    BY <1>4, <1>8 DEF RingSeq
  <2> HIDE DEF old, new
  <2>6. \A i \in 1 .. Len(new) : new[i] = Append(old, u)[i]
    BY <2>1, <2>3, <2>4, <2>5, <1>4
  <2>7. new = Append(old, u)
    BY <2>1, <2>3, <2>6, SeqEqual
  <2> QED  BY <2>7 DEF old, new
<1>10. Len(PoolQueue) < PoolSize /\ PoolQueue' = Append(PoolQueue, u)
  BY <1>3, <1>5, <1>6, <1>9
<1> QED  BY <1>10, <1>2 DEF TQ!Submit, Fill

LEMMA WaitImplements ==
    ASSUME IndInv, Wait
    PROVE  TQ!Deliver
<1>1. PICK c \in 0 .. PoolSize : FirstBusy(tasks, start, c)
  BY DEF IndInv
<1>2. PoolTypeOK /\ SyncDone
  BY DEF IndInv, Wait
<1>3. /\ c >= 1
      /\ tasks' = [tasks EXCEPT ![start] = NoUnit]
      /\ c = 1 => start' = start
      /\ c > 1 => start' = (start + 1) % PoolSize
      /\ start' \in 0 .. PoolSize - 1
      /\ FirstBusy(tasks', start', c - 1)
  BY <1>1, <1>2, SyncBusy
<1>4. /\ c - 1 \in 0 .. PoolSize /\ c \in Nat /\ start \in 0 .. PoolSize - 1
      /\ 0 \in 0 .. PoolSize - 1 /\ 0 \in 0 .. PoolSize
  BY <1>2, <1>3, PoolSizeFacts DEF PoolTypeOK
<1>5. PoolQueue = RingSeq(tasks, start, c) /\ PoolQueue' = RingSeq(tasks', start', c - 1)
  BY <1>1, <1>3, <1>4, QueueIs
<1>6. RingSeq(tasks, start, c) \in Seq(Unit) /\ Len(RingSeq(tasks, start, c)) = c
  BY <1>1, <1>2, RingSeqType DEF PoolTypeOK
<1>7. (start + 0) % PoolSize = start
  <2>1. start + 0 < PoolSize => (start + 0) % PoolSize = start + 0
    BY <1>4, SlotValue, Zenon
  <2> QED  BY <2>1, <1>4, PoolSizeFacts
<1>8. PoolQueue # <<>> /\ Head(PoolQueue) = tasks[start]
  <2>1. RingSeq(tasks, start, c)[1] = tasks[(start + (1 - 1)) % PoolSize]
    BY <1>3, <1>4 DEF RingSeq
  <2>2. start + (1 - 1) = start + 0
    BY <1>4
  <2> QED  BY <2>1, <2>2, <1>3, <1>5, <1>6, <1>7
<1>9. RingSeq(tasks', start', c - 1) = Tail(RingSeq(tasks, start, c))
  <2> DEFINE old == RingSeq(tasks, start, c)
             new == RingSeq(tasks', start', c - 1)
  <2>1. /\ Tail(old) \in Seq(Unit)
        /\ Len(Tail(old)) = c - 1
        /\ \A i \in 1 .. c - 1 : Tail(old)[i] = old[i + 1]
    BY <1>5, <1>6, <1>8, HeadTailProperties
  <2>2. tasks' \in [0 .. PoolSize - 1 -> Unit \union {NoUnit}]
    BY <1>2, <1>3 DEF PoolTypeOK
  <2>3. new \in Seq(Unit) /\ Len(new) = c - 1
    BY <2>2, <1>3, <1>4, RingSeqType
  <2>4. ASSUME NEW i \in 1 .. c - 1
        PROVE  new[i] = old[i + 1]
    <3>1. /\ i - 1 \in 0 .. PoolSize - 1 /\ i - 1 < PoolSize - 1 /\ c > 1
          /\ i \in 0 .. PoolSize - 1 /\ i # 0 /\ i + 1 \in 1 .. c /\ i \in 0 .. PoolSize
      BY PoolSizeFacts
    <3>2. (start' + (i - 1)) % PoolSize = (start + ((i - 1) + 1)) % PoolSize
      BY <3>1, <1>3, <1>4, NextSlot
    <3>3. (i - 1) + 1 = i /\ (i + 1) - 1 = i
      BY <3>1
    <3>4. (start + i) % PoolSize # (start + 0) % PoolSize
      BY <3>1, <1>4, SlotsDiffer
    <3>5. (start + i) % PoolSize \in 0 .. PoolSize - 1
      BY <3>1, <1>4, SlotValue
    <3>6. tasks'[(start + i) % PoolSize] = tasks[(start + i) % PoolSize]
      BY <3>4, <3>5, <1>2, <1>3, <1>7 DEF PoolTypeOK
    <3> QED  BY <3>1, <3>2, <3>3, <3>6 DEF RingSeq
  <2> HIDE DEF old, new
  <2>5. \A i \in 1 .. Len(new) : new[i] = Tail(old)[i]
    BY <2>1, <2>3, <2>4
  <2>6. new = Tail(old)
    BY <2>1, <2>3, <2>5, SeqEqual
  <2> QED  BY <2>6 DEF old, new
<1>10. Writer(start) = tasks[start].view
  BY <1>2, <1>4 DEF SyncDone, IndInv, RightWriter
<1>11. /\ \E fs \in Writes(mode, Writer(start)) : file' = WriteTo(fs, file, tasks[start])
       /\ UNCHANGED mode
  BY <1>2 DEF SyncDone
<1>12. \E fs \in TQ!Writes(mode, Head(PoolQueue).view) :
            file' = TQ!WriteTo(fs, file, Head(PoolQueue))
  BY <1>8, <1>10, <1>11 DEF TQ!Writes, TQ!WriteTo, TQ!OwnFile, TQ!File,
                            Writes, WriteTo, OwnFile, File
<1>13. PoolQueue' = Tail(PoolQueue)
  BY <1>5, <1>9
<1> QED  BY <1>8, <1>11, <1>12, <1>13 DEF TQ!Deliver

LEMMA RenewImplements ==
    ASSUME IndInv, Renew
    PROVE  TQ!GiveUp
<1>1. PoolTypeOK' /\ RightWriter' /\ \E c \in 0 .. PoolSize : FirstBusy(tasks', start', c)
  BY RenewInv DEF IndInv
<1>2. PICK c \in 0 .. PoolSize : FirstBusy(tasks', start', c)
  BY <1>1
<1>3. 0 \in 0 .. PoolSize - 1 /\ 0 \in 0 .. PoolSize /\ start' \in 0 .. PoolSize - 1
  BY <1>1, PoolSizeFacts DEF PoolTypeOK
<1>4. (start' + 0) % PoolSize \in 0 .. PoolSize - 1
  BY <1>3, SlotValue
<1>5. tasks'[(start' + 0) % PoolSize] = NoUnit
  BY <1>4 DEF Renew
<1>6. ~(0 < c)
  BY <1>2, <1>3, <1>5 DEF FirstBusy
<1>7. c = 0
  BY <1>6, PoolSizeFacts
<1>8. PoolQueue' = RingSeq(tasks', start', 0)
  BY <1>2, <1>3, <1>7, QueueIs
<1>9. PoolQueue' = <<>>
  BY <1>8 DEF RingSeq
<1> QED  BY <1>9 DEF TQ!GiveUp, Renew

\* The pool implements the queue: what it writes is what was submitted, in order,
\* once, and to the files of its view (CEncTaskPool, with the writers).
THEOREM PoolImplementsQueue == PoolSpec => ImplementsTaskQueue
<1>1. IndInv /\ [PoolNext]_poolVars => [TQ!Next]_TQ!vars
  <2> SUFFICES ASSUME IndInv, [PoolNext]_poolVars PROVE [TQ!Next]_TQ!vars
    OBVIOUS
  <2>1. ASSUME NEW u \in Unit, Submit(u) PROVE TQ!Next
    BY <2>1, SubmitImplements DEF TQ!Next, TQ!Unit, TQ!View, Unit, View
  <2>2. CASE Wait
    BY <2>2, WaitImplements DEF TQ!Next
  <2>3. CASE Renew
    BY <2>3, RenewImplements DEF TQ!Next
  <2>4. CASE BeginDrain \/ UNCHANGED poolVars
    BY <2>4 DEF BeginDrain, poolVars, TQ!vars, PoolQueue, Offset, Slot
  <2> QED  BY <2>1, <2>2, <2>3, <2>4 DEF PoolNext
<1> QED  BY <1>1, InitImplements, InvariantKept, PTL
         DEF PoolSpec, ImplementsTaskQueue, TQ!Spec

-----------------------------------------------------------------------------
(* The pipeline as a caller of the pool.                                   *)

\* The view of unit n, counted from a unit of the first view.
Turn(m, n) == IF TwoViews(m) THEN n % 2 ELSE 0

\* The units of s take turns, the first one is of the view of unit n.
Alternates(m, s, n) == \A i \in 1 .. Len(s) : s[i].view = Turn(m, n + (i - 1))

\* What the encoder puts out next is of the view the pool waits for, and so on up
\* to the picture that is read next.
RunInv ==
    /\ mode \in Mode /\ nextView \in View /\ nextView = Turn(mode, nextView)
    /\ read \in [View -> 0 .. Pictures] /\ currView \in View
    /\ inEnc \in Seq(Unit) /\ inVpp \in Seq(Unit)
    /\ Alternates(mode, inEnc, nextView)
    /\ Alternates(mode, inVpp, nextView + Len(inEnc))
    /\ currView = Turn(mode, nextView + Len(inEnc) + Len(inVpp))
    /\ vpp \in BOOLEAN /\ (~vpp => inVpp = <<>>)
    /\ draining => pc \in {"drainPool", "done", "failed"}
    /\ pc = "drainPool" => draining
    /\ pc \in {"getTaskVpp", "encodeVpp"} => inVpp # <<>>

-----------------------------------------------------------------------------
(* Units that take turns.                                                  *)

LEMMA ParityOfSum ==
    ASSUME NEW a \in Nat, NEW b \in Nat
    PROVE  /\ a % 2 \in {0, 1}
           /\ (a % 2) % 2 = a % 2
           /\ ((a % 2) + b) % 2 = (a + b) % 2
           /\ (1 - (a % 2)) = (a + 1) % 2
  BY SMTT(30)

LEMMA TurnFacts ==
    ASSUME NEW m \in Mode, NEW a \in Nat, NEW b \in Nat
    PROVE  /\ Turn(m, a) \in View
           /\ Turn(m, Turn(m, a)) = Turn(m, a)
           /\ Turn(m, Turn(m, a) + b) = Turn(m, a + b)
           /\ TwoViews(m) => 1 - Turn(m, a) = Turn(m, a + 1)
           /\ ~TwoViews(m) => Turn(m, a) = 0
  BY ParityOfSum DEF Turn, View

LEMMA AppendAlternates ==
    ASSUME NEW m, NEW s \in Seq(Unit), NEW n \in Nat, NEW u \in Unit,
           Alternates(m, s, n), u.view = Turn(m, n + Len(s))
    PROVE  Append(s, u) \in Seq(Unit) /\ Alternates(m, Append(s, u), n)
<1>1. /\ Append(s, u) \in Seq(Unit) /\ Len(Append(s, u)) = Len(s) + 1 /\ Len(s) \in Nat
      /\ \A i \in 1 .. Len(s) : Append(s, u)[i] = s[i]
      /\ Append(s, u)[Len(s) + 1] = u
  OBVIOUS
<1>2. SUFFICES ASSUME NEW i \in 1 .. Len(s) + 1
               PROVE  Append(s, u)[i].view = Turn(m, n + (i - 1))
  BY <1>1 DEF Alternates
<1>3. CASE i \in 1 .. Len(s)
  BY <1>1, <1>3 DEF Alternates
<1>4. CASE i = Len(s) + 1
  <2>1. i - 1 = Len(s)
    BY <1>1, <1>4
  <2> QED  BY <1>1, <1>4, <2>1
<1> QED  BY <1>1, <1>3, <1>4

LEMMA TailAlternates ==
    ASSUME NEW m, NEW s \in Seq(Unit), s # <<>>, NEW n \in Nat, Alternates(m, s, n)
    PROVE  /\ Head(s) \in Unit /\ Head(s).view = Turn(m, n)
           /\ Tail(s) \in Seq(Unit) /\ Len(Tail(s)) = Len(s) - 1 /\ Len(s) \in Nat \ {0}
           /\ Alternates(m, Tail(s), n + 1)
<1>1. /\ Tail(s) \in Seq(Unit) /\ Len(Tail(s)) = Len(s) - 1 /\ Len(s) \in Nat \ {0}
      /\ Head(s) = s[1] /\ s[1] \in Unit
      /\ \A i \in 1 .. Len(s) - 1 : Tail(s)[i] = s[i + 1]
  OBVIOUS
<1>2. s[1].view = Turn(m, n)
  <2>1. 1 \in 1 .. Len(s) /\ n + (1 - 1) = n
    BY <1>1
  <2>2. s[1].view = Turn(m, n + (1 - 1))
    BY <2>1 DEF Alternates
  <2> QED  BY <2>1, <2>2
<1>3. ASSUME NEW i \in 1 .. Len(s) - 1
      PROVE  Tail(s)[i].view = Turn(m, (n + 1) + (i - 1))
  <2>1. i + 1 \in 1 .. Len(s) /\ n + ((i + 1) - 1) = (n + 1) + (i - 1)
    BY <1>1
  <2>2. s[i + 1].view = Turn(m, n + ((i + 1) - 1))
    BY <2>1 DEF Alternates
  <2> QED  BY <1>1, <2>1, <2>2
<1> QED  BY <1>1, <1>2, <1>3 DEF Alternates

\* Only the parity of the place matters.
LEMMA SamePlace ==
    ASSUME NEW m \in Mode, NEW s \in Seq(Unit), NEW a \in Nat, NEW b \in Nat,
           \A k \in Nat : Turn(m, a + k) = Turn(m, b + k),
           Alternates(m, s, a)
    PROVE  Alternates(m, s, b)
<1>1. SUFFICES ASSUME NEW i \in 1 .. Len(s) PROVE s[i].view = Turn(m, b + (i - 1))
  BY DEF Alternates
<1>2. i - 1 \in Nat
  OBVIOUS
<1> QED  BY <1>1, <1>2 DEF Alternates

-----------------------------------------------------------------------------
(* Each step of Run is a step of the pool or leaves it alone.              *)

\* The encoder gets units that take turns and puts out the first one or none.
LEMMA EncodeKeeps ==
    ASSUME mode \in Mode, nextView \in View, nextView = Turn(mode, nextView), ~draining,
           NEW held \in Seq(Unit), held # <<>>, Alternates(mode, held, nextView), Encode(held)
    PROVE  /\ [PoolNext]_poolVars
           /\ mode' = mode /\ draining' = draining
           /\ nextView' \in View /\ nextView' = Turn(mode, nextView')
           /\ inEnc' \in Seq(Unit) /\ Alternates(mode, inEnc', nextView')
           /\ \A k \in Nat : Turn(mode, nextView' + Len(inEnc') + k) = Turn(mode, nextView + Len(held) + k)
<1>1. CASE inEnc' = held /\ UNCHANGED poolVars
  BY <1>1 DEF poolVars
<1>2. CASE inEnc' = Tail(held) /\ Fill(Head(held))
  <2>1. /\ Head(held) \in Unit /\ Head(held).view = nextView
        /\ Tail(held) \in Seq(Unit) /\ Len(Tail(held)) = Len(held) - 1 /\ Len(held) \in Nat \ {0}
        /\ Alternates(mode, Tail(held), nextView + 1)
    <3>1. nextView \in Nat
      BY DEF View
    <3> QED  BY <3>1, TailAlternates
  <2>2. Submit(Head(held))
    BY <1>2, <2>1 DEF Submit
  <2>3. /\ mode' = mode /\ draining' = draining
        /\ nextView' = IF TwoViews(mode) THEN 1 - nextView ELSE nextView
    BY <1>2 DEF Fill
  <2>4. nextView \in Nat /\ nextView + 1 \in Nat
    BY DEF View
  <2>5. nextView' = Turn(mode, nextView + 1)
    BY <2>3, <2>4, TurnFacts DEF Turn
  <2>6. nextView' \in View /\ nextView' = Turn(mode, nextView') /\ nextView' \in Nat
    <3>1. nextView' \in View /\ nextView' = Turn(mode, nextView')
      BY <2>4, <2>5, TurnFacts
    <3> QED  BY <3>1 DEF View
  <2>7. \A k \in Nat : Turn(mode, nextView' + k) = Turn(mode, nextView + 1 + k)
    BY <2>4, <2>5, TurnFacts
  <2>8. Alternates(mode, Tail(held), nextView')
    <3>1. \A k \in Nat : Turn(mode, nextView + 1 + k) = Turn(mode, nextView' + k)
      BY <2>7
    <3>2. \A a, b \in Nat :
             (\A k \in Nat : Turn(mode, a + k) = Turn(mode, b + k)) /\ Alternates(mode, Tail(held), a)
               => Alternates(mode, Tail(held), b)
      BY <2>1, SamePlace
    <3> QED  BY <2>1, <2>4, <2>6, <3>1, <3>2
  <2>9. ASSUME NEW k \in Nat
        PROVE  Turn(mode, nextView' + Len(inEnc') + k) = Turn(mode, nextView + Len(held) + k)
    <3>1. Len(inEnc') = Len(held) - 1 /\ Len(held) - 1 + k \in Nat
      BY <1>2, <2>1
    <3>2. Turn(mode, nextView' + (Len(held) - 1 + k)) = Turn(mode, nextView + 1 + (Len(held) - 1 + k))
      BY <3>1, <2>7
    <3>3. /\ nextView' + (Len(held) - 1 + k) = nextView' + Len(inEnc') + k
          /\ nextView + 1 + (Len(held) - 1 + k) = nextView + Len(held) + k
      BY <3>1, <2>1, <2>4, <2>6
    <3> QED  BY <3>2, <3>3
  <2> QED  BY <1>2, <2>1, <2>2, <2>3, <2>6, <2>8, <2>9 DEF PoolNext
<1> QED  BY <1>1, <1>2 DEF Encode

\* The encoder gets the oldest of the units that VPP has, or would have held.
LEMMA EncodeFirst ==
    ASSUME mode \in Mode, nextView \in View, nextView = Turn(mode, nextView), ~draining,
           inEnc \in Seq(Unit), Alternates(mode, inEnc, nextView),
           NEW inside \in Seq(Unit), inside # <<>>,
           Alternates(mode, inside, nextView + Len(inEnc)),
           Encode(Append(inEnc, Head(inside))), inVpp' = Tail(inside)
    PROVE  /\ [PoolNext]_poolVars
           /\ mode' = mode /\ draining' = draining
           /\ nextView' \in View /\ nextView' = Turn(mode, nextView')
           /\ inEnc' \in Seq(Unit) /\ Alternates(mode, inEnc', nextView')
           /\ inVpp' \in Seq(Unit) /\ Alternates(mode, inVpp', nextView' + Len(inEnc'))
           /\ \A k \in Nat : Turn(mode, nextView' + Len(inEnc') + Len(inVpp') + k)
                               = Turn(mode, nextView + Len(inEnc) + Len(inside) + k)
<1> DEFINE held == Append(inEnc, Head(inside))
           n == nextView + Len(inEnc)
<1>1. nextView \in Nat /\ Len(inEnc) \in Nat /\ n \in Nat
  BY DEF View
<1>2. /\ Head(inside) \in Unit /\ Head(inside).view = Turn(mode, n)
      /\ Tail(inside) \in Seq(Unit) /\ Len(Tail(inside)) = Len(inside) - 1
      /\ Len(inside) \in Nat \ {0}
      /\ Alternates(mode, Tail(inside), n + 1)
  BY <1>1, TailAlternates
<1>3. held \in Seq(Unit) /\ Alternates(mode, held, nextView)
  BY <1>1, <1>2, AppendAlternates
<1>4. Len(held) = Len(inEnc) + 1 /\ held # <<>>
  BY <1>2
<1>5. Encode(held)
  OBVIOUS
<1> HIDE DEF held
<1>6. /\ [PoolNext]_poolVars
      /\ mode' = mode /\ draining' = draining
      /\ nextView' \in View /\ nextView' = Turn(mode, nextView')
      /\ inEnc' \in Seq(Unit) /\ Alternates(mode, inEnc', nextView')
      /\ \A k \in Nat : Turn(mode, nextView' + Len(inEnc') + k) = Turn(mode, nextView + Len(held) + k)
  BY <1>3, <1>4, <1>5, EncodeKeeps
<1>7. nextView' \in Nat /\ Len(inEnc') \in Nat /\ nextView' + Len(inEnc') \in Nat
  <2>1. nextView' \in View /\ inEnc' \in Seq(Unit)
    BY <1>6
  <2> QED  BY <2>1 DEF View
<1>8. \A k \in Nat : Turn(mode, n + 1 + k) = Turn(mode, nextView' + Len(inEnc') + k)
  <2>1. n + 1 = nextView + Len(held)
    BY <1>1, <1>4
  <2> QED  BY <1>6, <2>1
<1>9. Alternates(mode, Tail(inside), nextView' + Len(inEnc'))
  <2>1. \A a, b \in Nat :
           (\A k \in Nat : Turn(mode, a + k) = Turn(mode, b + k)) /\ Alternates(mode, Tail(inside), a)
             => Alternates(mode, Tail(inside), b)
    BY <1>2, SamePlace
  <2>2. n + 1 \in Nat
    BY <1>1
  <2> QED  BY <2>1, <2>2, <1>2, <1>7, <1>8
<1>10. ASSUME NEW k \in Nat
       PROVE  Turn(mode, nextView' + Len(inEnc') + Len(inVpp') + k) = Turn(mode, n + Len(inside) + k)
  <2> DEFINE j == Len(inside) - 1 + k
  <2>1. j \in Nat /\ Len(inVpp') = Len(inside) - 1
    BY <1>2
  <2>2. Turn(mode, n + 1 + j) = Turn(mode, nextView' + Len(inEnc') + j)
    BY <2>1, <1>8
  <2>3. /\ n + 1 + j = n + Len(inside) + k
        /\ nextView' + Len(inEnc') + j = nextView' + Len(inEnc') + Len(inVpp') + k
    BY <2>1, <1>1, <1>2, <1>7
  <2> QED  BY <2>2, <2>3
<1> QED  BY <1>2, <1>6, <1>9, <1>10

LEMMA InitRun == Init => RunInv
<1> SUFFICES ASSUME Init PROVE RunInv
  OBVIOUS
<1>1. \A m : Turn(m, 0) = 0 /\ Alternates(m, <<>>, 0)
  BY DEF Turn, Alternates
<1>2. read \in [View -> 0 .. Pictures]
  BY PicturesAssumption DEF Init
<1> QED  BY <1>1, <1>2 DEF Init, PoolInit, RunInv, View, After

\* A round of the main loop.
LEMMA LoadKeeps ==
    ASSUME RunInv, LoadAndEncode
    PROVE  RunInv' /\ [PoolNext]_poolVars
<1> DEFINE u == [view |-> currView, frame |-> read[currView]]
           n == nextView + Len(inEnc)
           inside == Append(inVpp, u)
<1>1. /\ pc = "load" /\ pc' = "getTask" /\ ~draining /\ read[currView] < Pictures
      /\ UNCHANGED <<vpp, lost, losses, timedOut>>
      /\ read' = [read EXCEPT ![currView] = @ + 1]
      /\ currView' = IF TwoViews(mode) THEN 1 - currView ELSE currView
  BY DEF LoadAndEncode, RunInv
<1>2. u \in Unit
  BY <1>1, PicturesAssumption DEF RunInv, Unit
<1>3. /\ nextView \in Nat /\ Len(inEnc) \in Nat /\ Len(inVpp) \in Nat /\ n \in Nat
      /\ n + Len(inVpp) \in Nat
  BY DEF RunInv, View
<1>4. u.view = Turn(mode, n + Len(inVpp))
  BY DEF RunInv
<1>5. read' \in [View -> 0 .. Pictures]
  BY <1>1, PicturesAssumption DEF RunInv
<1>6. currView' = Turn(mode, n + Len(inVpp) + 1) /\ currView' \in View
  <2> DEFINE a == n + Len(inVpp)
  <2>1. mode \in Mode /\ a \in Nat /\ a + 1 \in Nat /\ currView = Turn(mode, a)
    BY <1>3 DEF RunInv
  <2> HIDE DEF a
  <2>2. /\ TwoViews(mode) => 1 - Turn(mode, a) = Turn(mode, a + 1)
        /\ ~TwoViews(mode) => Turn(mode, a) = 0 /\ Turn(mode, a + 1) = 0
        /\ Turn(mode, a + 1) \in View
    BY <2>1, TurnFacts
  <2>3. currView' = Turn(mode, a + 1) /\ currView' \in View
    BY <1>1, <2>1, <2>2
  <2> QED  BY <2>3 DEF a
<1>7. inside \in Seq(Unit) /\ Len(inside) = Len(inVpp) + 1 /\ inside # <<>>
  BY <1>2 DEF RunInv
<1>8. Alternates(mode, inside, n)
  BY <1>2, <1>3, <1>4, AppendAlternates DEF RunInv
<1>9. CASE vpp /\ inVpp' = inside /\ UNCHANGED <<inEnc, poolVars>>
  <2>1. n + Len(inside) = n + Len(inVpp) + 1
    BY <1>3, <1>7
  <2>2. UNCHANGED <<mode, nextView, draining, inEnc>>
    BY <1>9 DEF poolVars
  <2> HIDE DEF u, inside
  <2> QED  BY <1>1, <1>5, <1>6, <1>7, <1>8, <1>9, <2>1, <2>2 DEF RunInv
<1>10. ASSUME inVpp' = Tail(inside), Encode(Append(inEnc, Head(inside)))
       PROVE  RunInv' /\ [PoolNext]_poolVars
  <2>1. /\ [PoolNext]_poolVars
        /\ mode' = mode /\ draining' = draining
        /\ nextView' \in View /\ nextView' = Turn(mode, nextView')
        /\ inEnc' \in Seq(Unit) /\ Alternates(mode, inEnc', nextView')
        /\ inVpp' \in Seq(Unit) /\ Alternates(mode, inVpp', nextView' + Len(inEnc'))
        /\ \A k \in Nat : Turn(mode, nextView' + Len(inEnc') + Len(inVpp') + k)
                            = Turn(mode, n + Len(inside) + k)
    <3> HIDE DEF inside
    <3> QED  BY <1>1, <1>7, <1>8, <1>10, EncodeFirst DEF RunInv
  <2>2. currView' = Turn(mode, nextView' + Len(inEnc') + Len(inVpp'))
    <3>1. Turn(mode, nextView' + Len(inEnc') + Len(inVpp') + 0) = Turn(mode, n + Len(inside) + 0)
      BY <2>1
    <3>2. /\ n + Len(inside) + 0 = n + Len(inVpp) + 1
          /\ nextView' + Len(inEnc') + Len(inVpp') + 0 = nextView' + Len(inEnc') + Len(inVpp')
      BY <1>3, <1>7, <2>1 DEF View
    <3> QED  BY <1>6, <3>1, <3>2
  <2>3. ~vpp => inVpp' = <<>>
    BY <1>2, <1>10 DEF RunInv
  <2> HIDE DEF u, inside
  <2> QED  BY <1>1, <1>5, <1>6, <2>1, <2>2, <2>3 DEF RunInv
<1>11. CASE ~vpp /\ Encode(Append(inEnc, u)) /\ UNCHANGED inVpp
  <2>1. Head(inside) = u /\ Tail(inside) = <<>> /\ inVpp = <<>>
    BY <1>2, <1>11 DEF RunInv
  <2> QED  BY <1>10, <1>11, <2>1
<1> QED  BY <1>9, <1>10, <1>11 DEF LoadAndEncode

\* A unit that VPP held back goes to the encoder.
LEMMA EncodeFromVppKeeps ==
    ASSUME RunInv, EncodeFromVpp
    PROVE  RunInv' /\ [PoolNext]_poolVars
<1>1. /\ pc = "encodeVpp" /\ pc' = "drainVpp" /\ ~draining /\ inVpp # <<>>
      /\ UNCHANGED <<vpp, read, currView, lost, losses, timedOut>>
      /\ inVpp' = Tail(inVpp) /\ Encode(Append(inEnc, Head(inVpp)))
  BY DEF EncodeFromVpp, RunInv
<1>2. /\ [PoolNext]_poolVars
      /\ mode' = mode /\ draining' = draining
      /\ nextView' \in View /\ nextView' = Turn(mode, nextView')
      /\ inEnc' \in Seq(Unit) /\ Alternates(mode, inEnc', nextView')
      /\ inVpp' \in Seq(Unit) /\ Alternates(mode, inVpp', nextView' + Len(inEnc'))
      /\ \A k \in Nat : Turn(mode, nextView' + Len(inEnc') + Len(inVpp') + k)
                          = Turn(mode, nextView + Len(inEnc) + Len(inVpp) + k)
  BY <1>1, EncodeFirst DEF RunInv
<1>3. currView' = Turn(mode, nextView' + Len(inEnc') + Len(inVpp'))
  <2>1. Turn(mode, nextView' + Len(inEnc') + Len(inVpp') + 0) = Turn(mode, nextView + Len(inEnc) + Len(inVpp) + 0)
    BY <1>2
  <2>2. nextView' \in Nat /\ Len(inEnc') \in Nat /\ Len(inVpp') \in Nat
    <3>1. nextView' \in View /\ inEnc' \in Seq(Unit) /\ inVpp' \in Seq(Unit)
      BY <1>2
    <3> QED  BY <3>1 DEF View
  <2>3. nextView \in Nat /\ Len(inEnc) \in Nat /\ Len(inVpp) \in Nat
    BY DEF RunInv, View
  <2>4. currView' = Turn(mode, nextView + Len(inEnc) + Len(inVpp))
    BY <1>1 DEF RunInv
  <2> QED  BY <2>1, <2>2, <2>3, <2>4
<1> QED  BY <1>1, <1>2, <1>3 DEF RunInv

\* The encoder puts out what it held back, or has nothing left.
LEMMA DrainEncoderKeeps ==
    ASSUME RunInv, DrainEncoder
    PROVE  RunInv' /\ [PoolNext]_poolVars
<1>1. /\ pc = "encodeNull" /\ ~draining
      /\ UNCHANGED <<vpp, read, currView, inVpp, lost, losses, timedOut>>
  BY DEF DrainEncoder, RunInv
<1>2. CASE inEnc = <<>>
  <2>1. BeginDrain /\ pc' = "drainPool" /\ UNCHANGED inEnc
    BY <1>2 DEF DrainEncoder
  <2> QED  BY <1>1, <2>1 DEF BeginDrain, PoolNext, RunInv
<1>3. CASE inEnc # <<>>
  <2>1. inEnc' = Tail(inEnc) /\ Fill(Head(inEnc)) /\ pc' = "getTaskEnc"
    BY <1>3 DEF DrainEncoder
  <2>2. Encode(inEnc)
    BY <2>1 DEF Encode
  <2>3. /\ [PoolNext]_poolVars
        /\ mode' = mode /\ draining' = draining
        /\ nextView' \in View /\ nextView' = Turn(mode, nextView')
        /\ inEnc' \in Seq(Unit) /\ Alternates(mode, inEnc', nextView')
        /\ \A k \in Nat : Turn(mode, nextView' + Len(inEnc') + k) = Turn(mode, nextView + Len(inEnc) + k)
    BY <1>1, <1>3, <2>2, EncodeKeeps DEF RunInv
  <2>4. nextView' \in Nat /\ Len(inEnc') \in Nat /\ nextView' + Len(inEnc') \in Nat
    <3>1. nextView' \in View /\ inEnc' \in Seq(Unit)
      BY <2>3
    <3> QED  BY <3>1 DEF View
  <2>5. nextView + Len(inEnc) \in Nat /\ Len(inVpp) \in Nat
    BY DEF RunInv, View
  <2>6. Alternates(mode, inVpp, nextView' + Len(inEnc'))
    <3>1. \A k \in Nat : Turn(mode, nextView + Len(inEnc) + k) = Turn(mode, nextView' + Len(inEnc') + k)
      BY <2>3
    <3>2. \A a, b \in Nat :
             (\A k \in Nat : Turn(mode, a + k) = Turn(mode, b + k)) /\ Alternates(mode, inVpp, a)
               => Alternates(mode, inVpp, b)
      BY SamePlace DEF RunInv
    <3> QED  BY <2>4, <2>5, <3>1, <3>2 DEF RunInv
  <2>7. currView = Turn(mode, nextView' + Len(inEnc') + Len(inVpp))
    BY <2>3, <2>5 DEF RunInv
  <2> QED  BY <1>1, <2>1, <2>3, <2>6, <2>7 DEF RunInv
<1> QED  BY <1>2, <1>3

\* All is given up; what is read next is of the first view.
LEMMA DeviceLostKeeps ==
    ASSUME RunInv, DeviceLost
    PROVE  RunInv' /\ [PoolNext]_poolVars
<1> DEFINE loaded == IF pc = "load" THEN {[view |-> currView, frame |-> read[currView]]} ELSE {}
<1>1. /\ InSdkCall /\ Renew /\ pc' = "getTask" /\ vpp' = vpp
      /\ read' = [v \in View |-> read[v] + Cardinality({u \in loaded : u.view = v})]
      /\ inVpp' = <<>> /\ inEnc' = <<>> /\ currView' = 0
  BY DEF DeviceLost
<1>2. nextView' = 0 /\ mode' = mode /\ draining' = FALSE
  BY <1>1 DEF Renew
<1>3. ASSUME NEW v \in View
      PROVE  read[v] + Cardinality({u \in loaded : u.view = v}) \in 0 .. Pictures
  <2>1. CASE pc = "load" /\ v = currView
    <3>1. read[v] < Pictures
      BY <1>1, <2>1 DEF InSdkCall, After
    <3>2. {u \in loaded : u.view = v} = {[view |-> currView, frame |-> read[currView]]}
      BY <2>1
    <3>3. Cardinality({u \in loaded : u.view = v}) = 1
      BY <3>2, FS_Singleton
    <3> QED  BY <3>1, <3>3, PicturesAssumption DEF RunInv
  <2>2. CASE ~(pc = "load" /\ v = currView)
    <3>1. {u \in loaded : u.view = v} = {}
      BY <2>2
    <3>2. Cardinality({u \in loaded : u.view = v}) = 0
      BY <3>1, FS_EmptySet
    <3> QED  BY <3>2 DEF RunInv
  <2> QED  BY <2>1, <2>2
<1>4. read' \in [View -> 0 .. Pictures]
  BY <1>1, <1>3
<1>5. \A m : Turn(m, 0) = 0 /\ Alternates(m, <<>>, 0)
  BY DEF Turn, Alternates
<1> HIDE DEF loaded
<1> QED  BY <1>1, <1>2, <1>4, <1>5 DEF RunInv, View, PoolNext

LEMMA RunStep == RunInv /\ [Next]_allVars => RunInv' /\ [PoolNext]_poolVars
<1> SUFFICES ASSUME RunInv, [Next]_allVars PROVE RunInv' /\ [PoolNext]_poolVars
  OBVIOUS
<1>1. CASE GetFreeTask
  <2>1. /\ pc \in DOMAIN After /\ UNCHANGED runVars /\ ~draining
        /\ pc' = After[pc] \/ pc' = "failed"
        /\ UNCHANGED poolVars \/ (IsFull /\ SyncDone)
    BY <1>1 DEF GetFreeTask, RunInv, After
  <2>2. [PoolNext]_poolVars
    BY <2>1 DEF PoolNext, Wait
  <2>3. UNCHANGED <<mode, nextView, draining>>
    BY <2>1 DEF poolVars, SyncDone
  <2> QED  BY <2>1, <2>2, <2>3 DEF RunInv, runVars, After
<1>2. CASE EndOfSource \/ DrainVpp \/ Fail
  BY <1>2 DEF EndOfSource, DrainVpp, Fail, RunInv, runVars, poolVars
<1>3. CASE DrainPool
  <2>1. /\ pc = "drainPool" /\ draining
        /\ pc' \in {"drainPool", "done"}
        /\ UNCHANGED poolVars \/ SyncDone
        /\ UNCHANGED <<vpp, read, currView, inVpp, inEnc, lost, losses>>
    BY <1>3 DEF DrainPool, RunInv
  <2>2. [PoolNext]_poolVars
    BY <2>1 DEF PoolNext, Wait
  <2>3. UNCHANGED <<mode, nextView, draining>>
    BY <2>1 DEF poolVars, SyncDone
  <2> QED  BY <2>1, <2>2, <2>3 DEF RunInv
<1>4. CASE UNCHANGED allVars
  BY <1>4 DEF allVars, runVars, poolVars, RunInv
<1> QED  BY <1>1, <1>2, <1>3, <1>4, LoadKeeps, EncodeFromVppKeeps, DrainEncoderKeeps,
            DeviceLostKeeps DEF Next

\* Run keeps to the protocol: the units it gives to the pool take turns between the
\* views, and it waits for a task only when it has to (CEncodingPipeline::Run).
THEOREM RunUsesPool == Spec => PoolSpec
<1>1. Init => PoolInit
  BY DEF Init
<1> QED  BY <1>1, InitRun, RunStep, PTL DEF Spec, PoolSpec

\* In the pipeline, too, the ring has no gaps and turns in step with the views.
THEOREM PipelineKeepsRing == Spec => []RingInv
  BY RunUsesPool, RingCorrect, PTL

\* The pipeline's tasks are a queue: what is written to each file is what was
\* submitted, in that order.
THEOREM PipelineImplementsQueue == Spec => ImplementsTaskQueue
  BY RunUsesPool, PoolImplementsQueue, PTL

-----------------------------------------------------------------------------
(* Where the pictures are.                                                 *)

\* The units of each view are in the order of the source.
InOrder(s) == \A i, j \in 1 .. Len(s) : i < j /\ s[i].view = s[j].view => s[i].frame < s[j].frame

\* The units of a set precede those of a sequence in the source.
Precede(W, s) == \A w \in W, i \in 1 .. Len(s) : w.view = s[i].view => w.frame < s[i].frame

\* What was read (r) is written (W, n units), on its way in order (s), or given up (g).
Accounted(W, n, s, g, r) ==
    /\ s \in Seq(Unit) /\ InOrder(s)
    /\ IsFiniteSet(W) /\ Cardinality(W) = n /\ n \in Nat
    /\ Precede(W, s)
    /\ W \union UnitsIn(s) \union g = {u \in Unit : u.frame < r[u.view]}
    /\ (W \union UnitsIn(s)) \intersect g = {}

LEMMA UnitsOfAppend ==
    ASSUME NEW s \in Seq(Unit), NEW u \in Unit
    PROVE  UnitsIn(Append(s, u)) = UnitsIn(s) \union {u}
<1>1. /\ DOMAIN s = 1 .. Len(s) /\ DOMAIN Append(s, u) = 1 .. Len(s) + 1
      /\ Len(s) \in Nat
      /\ \A i \in 1 .. Len(s) : Append(s, u)[i] = s[i]
      /\ Append(s, u)[Len(s) + 1] = u
  OBVIOUS
<1> QED  BY <1>1 DEF UnitsIn

LEMMA UnitsOfConcat ==
    ASSUME NEW s \in Seq(Unit), NEW t \in Seq(Unit)
    PROVE  UnitsIn(s \o t) = UnitsIn(s) \union UnitsIn(t)
<1>1. /\ DOMAIN s = 1 .. Len(s) /\ DOMAIN t = 1 .. Len(t)
      /\ Len(s) \in Nat /\ Len(t) \in Nat
      /\ DOMAIN (s \o t) = 1 .. Len(s) + Len(t)
      /\ \A i \in 1 .. Len(s) : (s \o t)[i] = s[i]
      /\ \A i \in 1 .. Len(t) : (s \o t)[Len(s) + i] = t[i]
  OBVIOUS
<1>2. UnitsIn(s) \subseteq UnitsIn(s \o t)
  BY <1>1 DEF UnitsIn
<1>3. UnitsIn(t) \subseteq UnitsIn(s \o t)
  <2>1. \A i \in 1 .. Len(t) : Len(s) + i \in 1 .. Len(s) + Len(t)
    BY <1>1
  <2> QED  BY <1>1, <2>1 DEF UnitsIn
<1>4. UnitsIn(s \o t) \subseteq UnitsIn(s) \union UnitsIn(t)
  <2> SUFFICES ASSUME NEW i \in 1 .. Len(s) + Len(t)
               PROVE  (s \o t)[i] \in UnitsIn(s) \union UnitsIn(t)
    BY <1>1 DEF UnitsIn
  <2>1. CASE i \in 1 .. Len(s)
    BY <1>1, <2>1 DEF UnitsIn
  <2>2. CASE i \notin 1 .. Len(s)
    <3>1. i - Len(s) \in 1 .. Len(t) /\ Len(s) + (i - Len(s)) = i
      BY <1>1, <2>2
    <3>2. (s \o t)[Len(s) + (i - Len(s))] = t[i - Len(s)]
      BY <1>1, <3>1
    <3>3. (s \o t)[i] = t[i - Len(s)]
      BY <3>1, <3>2
    <3> QED  BY <1>1, <3>1, <3>3 DEF UnitsIn
  <2> QED  BY <2>1, <2>2
<1> QED  BY <1>2, <1>3, <1>4

LEMMA UnitsOfTail ==
    ASSUME NEW s \in Seq(Unit), s # <<>>
    PROVE  UnitsIn(s) = UnitsIn(Tail(s)) \union {Head(s)}
<1>1. /\ DOMAIN s = 1 .. Len(s) /\ DOMAIN Tail(s) = 1 .. Len(s) - 1
      /\ Len(s) \in Nat \ {0} /\ Head(s) = s[1]
      /\ \A i \in 1 .. Len(s) - 1 : Tail(s)[i] = s[i + 1]
  OBVIOUS
<1>2. UnitsIn(s) \subseteq UnitsIn(Tail(s)) \union {Head(s)}
  <2> SUFFICES ASSUME NEW i \in 1 .. Len(s), i # 1
               PROVE  s[i] \in UnitsIn(Tail(s))
    BY <1>1 DEF UnitsIn
  <2>1. i - 1 \in 1 .. Len(s) - 1 /\ Tail(s)[i - 1] = s[i]
    BY <1>1
  <2> QED  BY <1>1, <2>1 DEF UnitsIn
<1>3. UnitsIn(Tail(s)) \subseteq UnitsIn(s)
  <2>1. \A i \in 1 .. Len(s) - 1 : i + 1 \in 1 .. Len(s)
    BY <1>1
  <2> QED  BY <1>1, <2>1 DEF UnitsIn
<1>4. Head(s) \in UnitsIn(s)
  BY <1>1 DEF UnitsIn
<1> QED  BY <1>2, <1>3, <1>4

\* Units in order are all different.
LEMMA UnitsCounted ==
    ASSUME NEW s \in Seq(Unit), InOrder(s)
    PROVE  IsFiniteSet(UnitsIn(s)) /\ Cardinality(UnitsIn(s)) = Len(s)
<1>1. /\ DOMAIN s = 1 .. Len(s) /\ Len(s) \in Nat
      /\ \A i \in 1 .. Len(s) : s[i] \in Unit
  OBVIOUS
<1>2. \A i, j \in 1 .. Len(s) : i < j => s[i] # s[j]
  <2> SUFFICES ASSUME NEW i \in 1 .. Len(s), NEW j \in 1 .. Len(s), i < j, s[i] = s[j]
               PROVE  FALSE
    OBVIOUS
  <2>1. s[i].frame < s[i].frame
    BY DEF InOrder
  <2>2. s[i].frame \in Int
    BY <1>1 DEF Unit
  <2> QED  BY <2>1, <2>2
<1>3. \A i, j \in 1 .. Len(s) : s[i] = s[j] => i = j
  BY <1>2
<1>4. s \in [1 .. Len(s) -> UnitsIn(s)]
  BY <1>1 DEF UnitsIn
<1>5. \A u \in UnitsIn(s) : \E i \in 1 .. Len(s) : s[i] = u
  BY <1>1 DEF UnitsIn
<1>6. s \in Bijection(1 .. Len(s), UnitsIn(s))
  BY <1>3, <1>4, <1>5 DEF Bijection, Injection, Surjection, IsInjective
<1>7. ExistsBijection(1 .. Len(s), UnitsIn(s))
  BY <1>6 DEF ExistsBijection
<1>8. IsFiniteSet(1 .. Len(s)) /\ Cardinality(1 .. Len(s)) = Len(s)
  <2>1. \A n \in Nat : IsFiniteSet(1 .. n) /\ Cardinality(1 .. n) = n
    BY FS_Interval
  <2> QED  BY <1>1, <2>1
<1> QED  BY <1>7, <1>8, FS_Bijection

\* A picture is read.
LEMMA ReadPicture ==
    ASSUME NEW W, NEW n, NEW s, NEW g, NEW r \in [View -> Nat], Accounted(W, n, s, g, r),
           NEW u \in Unit, u.frame = r[u.view]
    PROVE  Accounted(W, n, Append(s, u), g, [r EXCEPT ![u.view] = @ + 1])
<1> DEFINE t == Append(s, u)
           q == [r EXCEPT ![u.view] = @ + 1]
<1>1. /\ s \in Seq(Unit) /\ Len(s) \in Nat /\ t \in Seq(Unit) /\ Len(t) = Len(s) + 1
      /\ \A i \in 1 .. Len(s) : t[i] = s[i] /\ s[i] \in Unit
      /\ t[Len(s) + 1] = u
  BY DEF Accounted
<1>2. u.view \in View /\ u.frame \in Nat /\ r[u.view] \in Nat
  BY DEF Unit
<1>3. UnitsIn(t) = UnitsIn(s) \union {u}
  BY <1>1, UnitsOfAppend
<1>4. \A w \in W \union UnitsIn(s) \union g : w \in Unit /\ w.frame < r[w.view]
  BY DEF Accounted
<1>5. InOrder(t)
  <2> SUFFICES ASSUME NEW i \in 1 .. Len(s) + 1, NEW j \in 1 .. Len(s) + 1,
                      i < j, t[i].view = t[j].view
               PROVE  t[i].frame < t[j].frame
    BY <1>1 DEF InOrder
  <2>1. i \in 1 .. Len(s)
    BY <1>1
  <2>2. CASE j \in 1 .. Len(s)
    BY <1>1, <2>1, <2>2 DEF Accounted, InOrder
  <2>3. CASE j = Len(s) + 1
    <3>1. t[j] = u /\ t[i] = s[i] /\ s[i] \in UnitsIn(s)
      BY <1>1, <2>1, <2>3 DEF UnitsIn
    <3> QED  BY <1>4, <3>1
  <2> QED  BY <1>1, <2>2, <2>3
<1>6. Precede(W, t)
  <2> SUFFICES ASSUME NEW w \in W, NEW i \in 1 .. Len(s) + 1, w.view = t[i].view
               PROVE  w.frame < t[i].frame
    BY <1>1 DEF Precede
  <2>1. CASE i \in 1 .. Len(s)
    BY <1>1, <2>1 DEF Accounted, Precede
  <2>2. CASE i = Len(s) + 1
    BY <1>1, <1>4, <2>2
  <2> QED  BY <1>1, <2>1, <2>2
<1>7. ASSUME NEW x \in Unit
      PROVE  x.frame < q[x.view] <=> x.frame < r[x.view] \/ x = u
  <2>1. x = [view |-> x.view, frame |-> x.frame] /\ u = [view |-> u.view, frame |-> u.frame]
        /\ x.view \in View /\ x.frame \in Nat
    BY DEF Unit
  <2>2. CASE x.view = u.view
    BY <1>2, <2>1, <2>2
  <2>3. CASE x.view # u.view
    BY <1>2, <2>1, <2>3
  <2> QED  BY <2>2, <2>3
<1>8. W \union UnitsIn(t) \union g = {x \in Unit : x.frame < q[x.view]}
  BY <1>3, <1>7 DEF Accounted
<1>9. u \notin g
  BY <1>2, <1>4
<1> HIDE DEF t, q
<1>10. Accounted(W, n, t, g, q)
  BY <1>1, <1>3, <1>5, <1>6, <1>8, <1>9 DEF Accounted
<1> QED  BY <1>10 DEF t, q

LEMMA ReadCurrent ==
    ASSUME NEW W, NEW n, NEW s, NEW g, NEW r \in [View -> Nat], Accounted(W, n, s, g, r),
           NEW v, NEW u \in Unit, u.view = v, u.frame = r[v]
    PROVE  Accounted(W, n, Append(s, u), g, [r EXCEPT ![v] = @ + 1])
  BY ReadPicture

\* The oldest unit is written.
LEMMA WriteUnit ==
    ASSUME NEW W, NEW n, NEW s, NEW g, NEW r, Accounted(W, n, s, g, r), s # <<>>
    PROVE  /\ Accounted(W \union {Head(s)}, n + 1, Tail(s), g, r)
           /\ Head(s) \in Unit
           /\ \A w \in W : w.view = Head(s).view => w.frame < Head(s).frame
<1>1. /\ s \in Seq(Unit) /\ Len(s) \in Nat \ {0} /\ Tail(s) \in Seq(Unit)
      /\ Len(Tail(s)) = Len(s) - 1
      /\ \A i \in 1 .. Len(s) - 1 : Tail(s)[i] = s[i + 1] /\ i + 1 \in 1 .. Len(s)
      /\ Head(s) = s[1] /\ s[1] \in Unit /\ 1 \in 1 .. Len(s)
  BY DEF Accounted
<1>2. UnitsIn(s) = UnitsIn(Tail(s)) \union {Head(s)}
  BY <1>1, UnitsOfTail
<1>3. \A w \in W : w.view = s[1].view => w.frame < s[1].frame
  BY <1>1 DEF Accounted, Precede
<1>4. Head(s) \notin W
  <2>1. s[1].frame \in Int
    BY <1>1 DEF Unit
  <2> QED  BY <1>1, <1>3, <2>1
<1>5. IsFiniteSet(W \union {Head(s)}) /\ Cardinality(W \union {Head(s)}) = n + 1
  BY <1>4, FS_AddElement DEF Accounted
<1>6. InOrder(Tail(s))
  <2> SUFFICES ASSUME NEW i \in 1 .. Len(s) - 1, NEW j \in 1 .. Len(s) - 1,
                      i < j, s[i + 1].view = s[j + 1].view
               PROVE  s[i + 1].frame < s[j + 1].frame
    BY <1>1 DEF InOrder
  <2>1. i + 1 < j + 1 /\ i + 1 \in 1 .. Len(s) /\ j + 1 \in 1 .. Len(s)
    BY <1>1
  <2> QED  BY <2>1 DEF Accounted, InOrder
<1>7. Precede(W \union {Head(s)}, Tail(s))
  <2> SUFFICES ASSUME NEW w \in W \union {Head(s)}, NEW i \in 1 .. Len(s) - 1,
                      w.view = s[i + 1].view
               PROVE  w.frame < s[i + 1].frame
    BY <1>1 DEF Precede
  <2>1. i + 1 \in 1 .. Len(s) /\ 1 < i + 1
    BY <1>1
  <2>2. CASE w \in W
    BY <2>1, <2>2 DEF Accounted, Precede
  <2>3. CASE w = Head(s)
    BY <1>1, <2>1, <2>3 DEF Accounted, InOrder
  <2> QED  BY <2>2, <2>3
<1>8. n + 1 \in Nat
  BY DEF Accounted
<1> QED  BY <1>1, <1>2, <1>3, <1>5, <1>6, <1>7, <1>8 DEF Accounted

\* What is accounted for is in one place.
LEMMA WrittenOnce ==
    ASSUME NEW W, NEW n, NEW s, NEW g, NEW r, Accounted(W, n, s, g, r)
    PROVE  W \intersect UnitsIn(s) = {} /\ Cardinality(W \union UnitsIn(s)) = n + Len(s)
<1>1. W \intersect UnitsIn(s) = {}
  <2> SUFFICES ASSUME NEW i \in 1 .. Len(s), s[i] \in W PROVE FALSE
    BY DEF Accounted, UnitsIn
  <2>1. s[i] \in Unit
    BY DEF Accounted
  <2>2. s[i].frame < s[i].frame
    BY DEF Accounted, Precede
  <2> QED  BY <2>1, <2>2 DEF Unit
<1>2. IsFiniteSet(UnitsIn(s)) /\ Cardinality(UnitsIn(s)) = Len(s)
  BY UnitsCounted DEF Accounted
<1>3. /\ IsFiniteSet(W) /\ Cardinality(W) = n /\ n \in Nat /\ Len(s) \in Nat
  BY DEF Accounted
<1>4. Cardinality(W \union UnitsIn(s)) = Cardinality(W) + Cardinality(UnitsIn(s)) - Cardinality(W \intersect UnitsIn(s))
  BY <1>2, <1>3, FS_Union
<1>5. Cardinality(W \intersect UnitsIn(s)) = 0
  BY <1>1, FS_EmptySet
<1> QED  BY <1>1, <1>2, <1>3, <1>4, <1>5

\* All units on their way are given up.
LEMMA GiveUpAll ==
    ASSUME NEW W, NEW n, NEW s, NEW g, NEW r, Accounted(W, n, s, g, r)
    PROVE  Accounted(W, n, <<>>, g \union UnitsIn(s), r)
<1>1. UnitsIn(<<>>) = {} /\ <<>> \in Seq(Unit) /\ InOrder(<<>>) /\ Precede(W, <<>>)
  BY DEF UnitsIn, InOrder, Precede
<1>2. W \intersect UnitsIn(s) = {}
  BY WrittenOnce
<1> QED  BY <1>1, <1>2 DEF Accounted

\* One file of those that are written.
LEMMA AppendInOrder ==
    ASSUME NEW f \in Seq(Unit), InOrder(f), NEW u \in Unit,
           \A w \in UnitsIn(f) : w.view = u.view => w.frame < u.frame
    PROVE  Append(f, u) \in Seq(Unit) /\ InOrder(Append(f, u))
<1>1. /\ Len(f) \in Nat /\ Append(f, u) \in Seq(Unit) /\ Len(Append(f, u)) = Len(f) + 1
      /\ \A i \in 1 .. Len(f) : Append(f, u)[i] = f[i] /\ f[i] \in UnitsIn(f)
      /\ Append(f, u)[Len(f) + 1] = u
  BY DEF UnitsIn
<1>2. SUFFICES ASSUME NEW i \in 1 .. Len(f) + 1, NEW j \in 1 .. Len(f) + 1, i < j,
                      Append(f, u)[i].view = Append(f, u)[j].view
               PROVE  Append(f, u)[i].frame < Append(f, u)[j].frame
  BY <1>1 DEF InOrder
<1>3. i \in 1 .. Len(f)
  BY <1>1, <1>2
<1>4. CASE j \in 1 .. Len(f)
  BY <1>1, <1>2, <1>3, <1>4 DEF InOrder
<1>5. CASE j = Len(f) + 1
  BY <1>1, <1>2, <1>3, <1>5
<1> QED  BY <1>1, <1>4, <1>5

-----------------------------------------------------------------------------
(* The pipeline moves units from one place to the next.                    *)

\* The units on their way, the oldest first.
Way == (PoolQueue \o inEnc) \o inVpp

\* Every picture is accounted for, and the files hold what was written in order.
AccountInv ==
    /\ Accounted(UnitsIn(Kept), Len(Kept), Way, lost, read)
    /\ \A f \in File : InOrder(file[f]) /\ UnitsIn(file[f]) \subseteq UnitsIn(Kept)

LEMMA QueueType == IndInv => PoolQueue \in Seq(Unit)
<1> SUFFICES ASSUME IndInv PROVE PoolQueue \in Seq(Unit)
  OBVIOUS
<1>1. PICK c \in 0 .. PoolSize : FirstBusy(tasks, start, c)
  BY DEF IndInv
<1> QED  BY <1>1, QueueIs, RingSeqType DEF IndInv, PoolTypeOK

LEMMA MoveOne ==
    ASSUME NEW a \in Seq(Unit), NEW b \in Seq(Unit), b # <<>>
    PROVE  /\ Append(a, Head(b)) \in Seq(Unit) /\ Tail(b) \in Seq(Unit)
           /\ Append(a, Head(b)) \o Tail(b) = a \o b
<1> DEFINE s == Append(a, Head(b)) \o Tail(b)
           t == a \o b
<1>1. /\ Append(a, Head(b)) \in Seq(Unit) /\ Tail(b) \in Seq(Unit) /\ Head(b) = b[1]
      /\ Len(a) \in Nat /\ Len(b) \in Nat \ {0} /\ Len(Tail(b)) = Len(b) - 1
      /\ Len(Append(a, Head(b))) = Len(a) + 1
      /\ \A i \in 1 .. Len(a) : Append(a, Head(b))[i] = a[i]
      /\ Append(a, Head(b))[Len(a) + 1] = b[1]
      /\ \A i \in 1 .. Len(b) - 1 : Tail(b)[i] = b[i + 1]
  OBVIOUS
<1>2. /\ s \in Seq(Unit) /\ Len(s) = Len(a) + Len(b)
      /\ \A i \in 1 .. Len(a) + Len(b) :
            s[i] = IF i <= Len(a) + 1 THEN Append(a, Head(b))[i] ELSE Tail(b)[i - (Len(a) + 1)]
  <2>1. /\ s \in Seq(Unit) /\ Len(s) = Len(a) + 1 + (Len(b) - 1)
        /\ \A i \in 1 .. Len(a) + 1 + (Len(b) - 1) :
              s[i] = IF i <= Len(a) + 1 THEN Append(a, Head(b))[i] ELSE Tail(b)[i - (Len(a) + 1)]
    BY <1>1, ConcatProperties
  <2>2. Len(a) + 1 + (Len(b) - 1) = Len(a) + Len(b)
    BY <1>1
  <2> QED  BY <2>1, <2>2
<1>3. /\ t \in Seq(Unit) /\ Len(t) = Len(a) + Len(b)
      /\ \A i \in 1 .. Len(a) + Len(b) : t[i] = IF i <= Len(a) THEN a[i] ELSE b[i - Len(a)]
  BY ConcatProperties
<1>4. ASSUME NEW i \in 1 .. Len(a) + Len(b)
      PROVE  s[i] = t[i]
  <2>1. CASE i \in 1 .. Len(a)
    BY <1>1, <1>2, <1>3, <2>1
  <2>2. CASE i = Len(a) + 1
    BY <1>1, <1>2, <1>3, <2>2
  <2>3. CASE i > Len(a) + 1
    <3>1. i - (Len(a) + 1) \in 1 .. Len(b) - 1 /\ (i - (Len(a) + 1)) + 1 = i - Len(a)
      BY <1>1, <2>3
    <3>2. Tail(b)[i - (Len(a) + 1)] = b[i - Len(a)]
      BY <1>1, <3>1
    <3> QED  BY <1>1, <1>2, <1>3, <2>3, <3>2
  <2> QED  BY <1>1, <2>1, <2>2, <2>3
<1> HIDE DEF s, t
<1>5. s = t
  BY <1>2, <1>3, <1>4, SeqEqual
<1> QED  BY <1>1, <1>5 DEF s, t

LEMMA Associative ==
    ASSUME NEW a \in Seq(Unit), NEW b \in Seq(Unit), NEW c \in Seq(Unit)
    PROVE  (a \o b) \o c = a \o (b \o c)
  OBVIOUS

LEMMA TailOfConcat ==
    ASSUME NEW a \in Seq(Unit), NEW b \in Seq(Unit), a # <<>>
    PROVE  /\ a \o b \in Seq(Unit) /\ a \o b # <<>>
           /\ Head(a \o b) = Head(a)
           /\ Tail(a \o b) = Tail(a) \o b
<1>1. /\ Len(a) \in Nat \ {0} /\ Len(b) \in Nat /\ Tail(a) \in Seq(Unit)
      /\ Len(Tail(a)) = Len(a) - 1
      /\ \A i \in 1 .. Len(a) - 1 : Tail(a)[i] = a[i + 1]
  OBVIOUS
<1>2. /\ a \o b \in Seq(Unit) /\ Len(a \o b) = Len(a) + Len(b)
      /\ \A i \in 1 .. Len(a) + Len(b) : (a \o b)[i] = IF i <= Len(a) THEN a[i] ELSE b[i - Len(a)]
  BY ConcatProperties
<1>3. a \o b # <<>> /\ Head(a \o b) = Head(a)
  BY <1>1, <1>2
<1> DEFINE s == Tail(a \o b)
           t == Tail(a) \o b
           m == Len(a) + Len(b) - 1
<1>4. /\ s \in Seq(Unit) /\ Len(s) = m
      /\ \A i \in 1 .. m : s[i] = (a \o b)[i + 1]
  <2> DEFINE ab == a \o b
  <2>1. ab \in Seq(Unit) /\ ab # <<>> /\ Len(ab) = Len(a) + Len(b)
    BY <1>2, <1>3
  <2> HIDE DEF ab
  <2>2. /\ Tail(ab) \in Seq(Unit) /\ Len(Tail(ab)) = Len(ab) - 1
        /\ \A i \in 1 .. Len(ab) - 1 : Tail(ab)[i] = ab[i + 1]
    BY <2>1
  <2> QED  BY <2>1, <2>2 DEF ab
<1>5. /\ t \in Seq(Unit) /\ Len(t) = m
      /\ \A i \in 1 .. m : t[i] = IF i <= Len(a) - 1 THEN Tail(a)[i] ELSE b[i - (Len(a) - 1)]
  <2>1. /\ t \in Seq(Unit) /\ Len(t) = (Len(a) - 1) + Len(b)
        /\ \A i \in 1 .. (Len(a) - 1) + Len(b) :
              t[i] = IF i <= Len(a) - 1 THEN Tail(a)[i] ELSE b[i - (Len(a) - 1)]
    BY <1>1, ConcatProperties
  <2>2. (Len(a) - 1) + Len(b) = m
    BY <1>1
  <2> QED  BY <2>1, <2>2
<1>6. ASSUME NEW i \in 1 .. m
      PROVE  s[i] = t[i]
  <2>1. i + 1 \in 1 .. Len(a) + Len(b) /\ (i + 1) - Len(a) = i - (Len(a) - 1)
    BY <1>1
  <2>2. s[i] = IF i + 1 <= Len(a) THEN a[i + 1] ELSE b[i - (Len(a) - 1)]
    BY <1>2, <1>4, <2>1
  <2>3. i + 1 <= Len(a) <=> i <= Len(a) - 1
    BY <1>1
  <2> QED  BY <1>1, <1>5, <2>2, <2>3
<1> HIDE DEF s, t, m
<1>7. s = t
  BY <1>4, <1>5, <1>6, SeqEqual
<1> QED  BY <1>2, <1>3, <1>7 DEF s, t

LEMMA AppendOfConcat ==
    ASSUME NEW a \in Seq(Unit), NEW b \in Seq(Unit), NEW u \in Unit
    PROVE  a \o Append(b, u) = Append(a \o b, u)
  OBVIOUS

LEMMA QueueUnchanged == UNCHANGED poolVars => PoolQueue' = PoolQueue
  BY DEF poolVars, PoolQueue, Offset, Slot

\* The encoder puts the first of its units into the pool, or none.
LEMMA EncodeMoves ==
    ASSUME IndInv, nextView = Turn(mode, nextView), ~draining,
           NEW held \in Seq(Unit), held # <<>>, Alternates(mode, held, nextView), Encode(held)
    PROVE  /\ PoolQueue' \in Seq(Unit) /\ inEnc' \in Seq(Unit)
           /\ PoolQueue' \o inEnc' = PoolQueue \o held
           /\ UNCHANGED <<mode, file>>
<1>1. PoolQueue \in Seq(Unit)
  BY QueueType
<1>2. CASE inEnc' = held /\ UNCHANGED poolVars
  BY <1>1, <1>2, QueueUnchanged DEF poolVars
<1>3. CASE inEnc' = Tail(held) /\ Fill(Head(held))
  <2>1. Head(held) \in Unit /\ Head(held).view = nextView
    <3>1. nextView \in Nat
      BY DEF View, IndInv, PoolTypeOK
    <3> QED  BY <3>1, TailAlternates
  <2>2. Submit(Head(held))
    BY <1>3, <2>1 DEF Submit
  <2>3. TQ!Submit(Head(held))
    BY <2>1, <2>2, SubmitImplements
  <2>4. PoolQueue' = Append(PoolQueue, Head(held)) /\ UNCHANGED <<mode, file>>
    BY <2>3 DEF TQ!Submit
  <2> QED  BY <1>1, <1>3, <2>4, MoveOne
<1> QED  BY <1>2, <1>3 DEF Encode

\* The same with the units that VPP has, or would have held.
LEMMA EncodeFirstMoves ==
    ASSUME IndInv, nextView = Turn(mode, nextView), ~draining,
           inEnc \in Seq(Unit), Alternates(mode, inEnc, nextView),
           NEW inside \in Seq(Unit), inside # <<>>,
           Alternates(mode, inside, nextView + Len(inEnc)),
           Encode(Append(inEnc, Head(inside))), inVpp' = Tail(inside)
    PROVE  Way' = (PoolQueue \o inEnc) \o inside /\ UNCHANGED <<mode, file>>
<1> DEFINE held == Append(inEnc, Head(inside))
           n == nextView + Len(inEnc)
<1>1. nextView \in Nat /\ Len(inEnc) \in Nat /\ n \in Nat
  BY DEF View, IndInv, PoolTypeOK
<1>2. Head(inside) \in Unit /\ Head(inside).view = Turn(mode, n) /\ Tail(inside) \in Seq(Unit)
  BY <1>1, TailAlternates
<1>3. held \in Seq(Unit) /\ Alternates(mode, held, nextView) /\ held # <<>>
  <2>1. held \in Seq(Unit) /\ Alternates(mode, held, nextView)
    BY <1>1, <1>2, AppendAlternates
  <2>2. held # <<>>
    BY <1>2
  <2> QED  BY <2>1, <2>2
<1>4. Encode(held)
  OBVIOUS
<1> HIDE DEF held
<1>5. /\ PoolQueue' \o inEnc' = PoolQueue \o held
      /\ UNCHANGED <<mode, file>>
  BY <1>3, <1>4, EncodeMoves
<1>6. PoolQueue \in Seq(Unit)
  BY QueueType
<1>7. (PoolQueue \o held) \o Tail(inside) = PoolQueue \o (held \o Tail(inside))
  BY <1>2, <1>3, <1>6, Associative
<1>8. held \o Tail(inside) = inEnc \o inside
  BY MoveOne DEF held
<1>9. PoolQueue \o (inEnc \o inside) = (PoolQueue \o inEnc) \o inside
  BY <1>6, Associative
<1> QED  BY <1>5, <1>7, <1>8, <1>9 DEF Way

\* The oldest task is written: to a file in which it can be found.
LEMMA DeliverKeeps ==
    ASSUME IndInv, AccountInv, inEnc \in Seq(Unit), inVpp \in Seq(Unit),
           TQ!Deliver, UNCHANGED <<inEnc, inVpp, lost, read>>
    PROVE  AccountInv'
<1> DEFINE u == Head(PoolQueue)
<1>1. PoolQueue \in Seq(Unit) /\ PoolQueue # <<>> /\ PoolQueue' = Tail(PoolQueue) /\ mode' = mode
  BY QueueType DEF TQ!Deliver
<1>2. u \in Unit
  BY <1>1
<1>3. PICK fs \in Writes(mode, u.view) : file' = WriteTo(fs, file, u)
  BY DEF TQ!Deliver, TQ!Writes, TQ!OwnFile, TQ!WriteTo, TQ!File, Writes, OwnFile, WriteTo, File
<1>4. \A f \in File : file[f] \in Seq(Unit)
  BY DEF IndInv, PoolTypeOK
<1>5. mode \in Mode
  BY DEF IndInv, PoolTypeOK
<1>6. Way # <<>> /\ Head(Way) = u /\ Way' = Tail(Way)
  <2>1. /\ PoolQueue \o inEnc # <<>> /\ Head(PoolQueue \o inEnc) = u
        /\ Tail(PoolQueue \o inEnc) = Tail(PoolQueue) \o inEnc
        /\ PoolQueue \o inEnc \in Seq(Unit)
    BY <1>1, TailOfConcat
  <2>2. /\ Way # <<>> /\ Head(Way) = u
        /\ Tail(Way) = Tail(PoolQueue \o inEnc) \o inVpp
    BY <2>1, TailOfConcat DEF Way
  <2> QED  BY <1>1, <2>1, <2>2 DEF Way
<1>7. /\ UnitsIn(Kept') = UnitsIn(Kept) \union {u}
      /\ Len(Kept') = Len(Kept) + 1
  <2>1. CASE mode = "merged"
    <3>1. "merged" \in fs /\ "merged" \in File
      BY <1>3, <2>1 DEF Writes, File
    <3>2. file'["merged"] = Append(file["merged"], u)
      BY <1>3, <3>1 DEF WriteTo
    <3> QED  BY <1>1, <1>2, <1>4, <2>1, <3>1, <3>2, UnitsOfAppend DEF Kept
  <2>2. CASE mode # "merged"
    <3>1. "first" \in File /\ "second" \in File
      BY DEF File
    <3>2. \/ fs = {"first"} /\ file'["first"] = Append(file["first"], u) /\ file'["second"] = file["second"]
          \/ fs = {"second"} /\ file'["first"] = file["first"] /\ file'["second"] = Append(file["second"], u)
      BY <1>3, <2>2, <3>1 DEF Writes, OwnFile, WriteTo
    <3> DEFINE a == file["first"]
               b == file["second"]
    <3>3. /\ a \in Seq(Unit) /\ b \in Seq(Unit)
          /\ Append(a, u) \in Seq(Unit) /\ Append(b, u) \in Seq(Unit)
          /\ Len(Append(a, u)) = Len(a) + 1 /\ Len(Append(b, u)) = Len(b) + 1
          /\ Len(a) \in Nat /\ Len(b) \in Nat
      BY <1>2, <1>4, <3>1
    <3>4. Kept = a \o b /\ Kept' = file'["first"] \o file'["second"]
      BY <1>1, <2>2 DEF Kept
    <3>5. UnitsIn(Append(a, u)) = UnitsIn(a) \union {u} /\ UnitsIn(Append(b, u)) = UnitsIn(b) \union {u}
      BY <1>2, <3>3, UnitsOfAppend
    <3> HIDE DEF a, b, u
    <3>6. UnitsIn(a \o b) = UnitsIn(a) \union UnitsIn(b) /\ Len(a \o b) = Len(a) + Len(b)
      BY <3>3, UnitsOfConcat, ConcatProperties
    <3>7. CASE Kept' = Append(a, u) \o b
      <4>1. UnitsIn(Append(a, u) \o b) = UnitsIn(Append(a, u)) \union UnitsIn(b)
            /\ Len(Append(a, u) \o b) = Len(Append(a, u)) + Len(b)
        BY <3>3, UnitsOfConcat, ConcatProperties
      <4> QED  BY <3>3, <3>4, <3>5, <3>6, <3>7, <4>1
    <3>8. CASE Kept' = a \o Append(b, u)
      <4>1. UnitsIn(a \o Append(b, u)) = UnitsIn(a) \union UnitsIn(Append(b, u))
            /\ Len(a \o Append(b, u)) = Len(a) + Len(Append(b, u))
        BY <3>3, UnitsOfConcat, ConcatProperties
      <4> QED  BY <3>3, <3>4, <3>5, <3>6, <3>8, <4>1
    <3> QED  BY <3>2, <3>4, <3>7, <3>8 DEF a, b, u
  <2> QED  BY <2>1, <2>2
<1>8. /\ Accounted(UnitsIn(Kept) \union {u}, Len(Kept) + 1, Way', lost, read)
      /\ \A w \in UnitsIn(Kept) : w.view = u.view => w.frame < u.frame
  BY <1>6, WriteUnit DEF AccountInv
<1>9. ASSUME NEW f \in File
      PROVE  InOrder(file'[f]) /\ UnitsIn(file'[f]) \subseteq UnitsIn(Kept')
  <2>1. file[f] \in Seq(Unit) /\ InOrder(file[f]) /\ UnitsIn(file[f]) \subseteq UnitsIn(Kept)
    BY <1>4 DEF AccountInv
  <2>2. file'[f] = file[f] \/ file'[f] = Append(file[f], u)
    BY <1>3 DEF WriteTo
  <2>3. InOrder(Append(file[f], u)) /\ UnitsIn(Append(file[f], u)) = UnitsIn(file[f]) \union {u}
    <3>1. \A w \in UnitsIn(file[f]) : w.view = u.view => w.frame < u.frame
      BY <1>8, <2>1
    <3> HIDE DEF u
    <3> QED  BY <1>2, <2>1, <3>1, AppendInOrder, UnitsOfAppend
  <2> QED  BY <1>7, <2>1, <2>2, <2>3
<1> QED  BY <1>7, <1>8, <1>9 DEF AccountInv

LEMMA AccountStays ==
    ASSUME AccountInv, UNCHANGED <<mode, file, lost, read>>, Way' = Way
    PROVE  AccountInv'
<1>1. Kept' = Kept
  BY DEF Kept
<1> QED  BY <1>1 DEF AccountInv

\* The tasks under way are those of the queue.
LEMMA UnderWayIsQueue ==
    ASSUME IndInv
    PROVE  UnderWay = UnitsIn(PoolQueue)
<1>1. PICK c \in 0 .. PoolSize : FirstBusy(tasks, start, c)
  BY DEF IndInv
<1>2. /\ tasks \in [0 .. PoolSize - 1 -> Unit \union {NoUnit}] /\ start \in 0 .. PoolSize - 1
      /\ c \in Nat /\ c <= PoolSize /\ PoolSize \in Nat \ {0}
  BY PoolSizeFacts DEF IndInv, PoolTypeOK
<1>3. /\ PoolQueue = [i \in 1 .. c |-> tasks[(start + (i - 1)) % PoolSize]]
      /\ DOMAIN PoolQueue = 1 .. c
  BY <1>1, QueueIs DEF RingSeq
<1>4. UnitsIn(PoolQueue) \subseteq UnderWay
  <2> SUFFICES ASSUME NEW i \in 1 .. c
               PROVE  tasks[(start + (i - 1)) % PoolSize] \in UnderWay
    BY <1>3 DEF UnitsIn
  <2>1. i - 1 \in 0 .. PoolSize - 1 /\ i - 1 \in 0 .. PoolSize /\ i - 1 < c
    BY <1>2
  <2>2. (start + (i - 1)) % PoolSize \in 0 .. PoolSize - 1
    BY <1>2, <2>1, SlotValue
  <2>3. tasks[(start + (i - 1)) % PoolSize] # NoUnit
    BY <1>1, <2>1 DEF FirstBusy
  <2> QED  BY <1>2, <2>2, <2>3 DEF UnderWay
<1>5. UnderWay \subseteq UnitsIn(PoolQueue)
  <2> SUFFICES ASSUME NEW j \in 0 .. PoolSize - 1, tasks[j] # NoUnit
               PROVE  tasks[j] \in UnitsIn(PoolQueue)
    BY <1>2 DEF UnderWay
  <2>1. PICK d \in 0 .. PoolSize - 1 : (start + d) % PoolSize = j
    <3>1. CASE j >= start
      <4>1. PICK d \in 0 .. PoolSize - 1 : start + d = j
        <5>1. j - start \in 0 .. PoolSize - 1 /\ start + (j - start) = j
          BY <1>2, <3>1
        <5> QED  BY <5>1
      <4>2. d \in 0 .. PoolSize /\ start + d < PoolSize
        BY <1>2, <4>1
      <4>3. (start + d) % PoolSize = start + d
        BY <1>2, <4>2, SlotValue
      <4> QED  BY <4>1, <4>3
    <3>2. CASE j < start
      <4>1. PICK d \in 0 .. PoolSize - 1 : start + d = j + PoolSize
        <5>1. /\ j + PoolSize - start \in 0 .. PoolSize - 1
              /\ start + (j + PoolSize - start) = j + PoolSize
          BY <1>2, <3>2
        <5> QED  BY <5>1
      <4>2. d \in 0 .. PoolSize /\ start + d >= PoolSize /\ start + d - PoolSize = j
        BY <1>2, <4>1
      <4>3. (start + d) % PoolSize = start + d - PoolSize
        BY <1>2, <4>2, SlotValue
      <4> QED  BY <4>1, <4>2, <4>3
    <3> QED  BY <1>2, <3>1, <3>2
  <2>2. d < c
    BY <1>1, <2>1 DEF FirstBusy
  <2>3. d + 1 \in 1 .. c /\ (d + 1) - 1 = d
    BY <1>2, <2>2
  <2>4. PoolQueue[d + 1] = tasks[j]
    BY <1>3, <2>1, <2>3
  <2> QED  BY <1>3, <2>3, <2>4 DEF UnitsIn
<1> QED  BY <1>4, <1>5

\* A picture that is read joins the others at their end.
LEMMA LoadAccounts ==
    ASSUME IndInv, RunInv, AccountInv, LoadAndEncode
    PROVE  AccountInv'
<1> DEFINE u == [view |-> currView, frame |-> read[currView]]
           n == nextView + Len(inEnc)
           inside == Append(inVpp, u)
<1>1. /\ ~draining /\ read[currView] < Pictures /\ UNCHANGED lost
      /\ read' = [read EXCEPT ![currView] = @ + 1]
  BY DEF LoadAndEncode, RunInv
<1>2. u \in Unit /\ u.view = currView /\ u.frame = read[currView] /\ read \in [View -> Nat]
  BY <1>1, PicturesAssumption DEF RunInv, Unit
<1>3. /\ nextView \in Nat /\ Len(inEnc) \in Nat /\ n \in Nat /\ Len(inVpp) \in Nat
      /\ PoolQueue \in Seq(Unit) /\ PoolQueue \o inEnc \in Seq(Unit)
  BY QueueType, ConcatProperties DEF RunInv, View
<1>4. inside \in Seq(Unit) /\ inside # <<>> /\ Alternates(mode, inside, n)
  <2>1. u.view = Turn(mode, n + Len(inVpp))
    BY DEF RunInv
  <2>2. inside \in Seq(Unit) /\ Alternates(mode, inside, n)
    BY <1>2, <1>3, <2>1, AppendAlternates DEF RunInv
  <2>3. inside # <<>>
    BY <1>2 DEF RunInv
  <2> QED  BY <2>2, <2>3
<1>5. (PoolQueue \o inEnc) \o inside = Append(Way, u)
  BY <1>2, <1>3, AppendOfConcat DEF RunInv, Way
<1>6. ASSUME inVpp' = Tail(inside), Encode(Append(inEnc, Head(inside)))
      PROVE  Way' = Append(Way, u) /\ UNCHANGED <<mode, file>>
  <2> HIDE DEF inside
  <2>1. Way' = (PoolQueue \o inEnc) \o inside /\ UNCHANGED <<mode, file>>
    BY <1>1, <1>4, <1>6, EncodeFirstMoves DEF RunInv
  <2> QED  BY <1>5, <2>1
<1>9. ASSUME Way' = Append(Way, u), UNCHANGED <<mode, file>>
      PROVE  AccountInv'
  <2>1. Accounted(UnitsIn(Kept), Len(Kept), Append(Way, u), lost, [read EXCEPT ![currView] = @ + 1])
    BY <1>2, ReadCurrent DEF AccountInv
  <2>2. Kept' = Kept
    BY <1>9 DEF Kept
  <2> QED  BY <1>1, <1>9, <2>1, <2>2 DEF AccountInv
<1>7. CASE vpp /\ inVpp' = inside /\ UNCHANGED <<inEnc, poolVars>>
  <2>1. PoolQueue' = PoolQueue /\ UNCHANGED <<mode, file>>
    BY <1>7, QueueUnchanged DEF poolVars
  <2>2. Way' = (PoolQueue \o inEnc) \o inside
    BY <1>7, <2>1 DEF Way
  <2> QED  BY <1>5, <1>9, <2>1, <2>2
<1>8. CASE ~vpp /\ Encode(Append(inEnc, u)) /\ UNCHANGED inVpp
  <2>1. Head(inside) = u /\ Tail(inside) = <<>> /\ inVpp = <<>>
    BY <1>2, <1>8 DEF RunInv
  <2> QED  BY <1>8, <1>9, <1>6, <2>1
<1> QED  BY <1>6, <1>7, <1>8, <1>9 DEF LoadAndEncode

\* All that is on its way is lost, with the picture just loaded.
LEMMA LostAccounts ==
    ASSUME IndInv, RunInv, AccountInv, DeviceLost
    PROVE  AccountInv'
<1> DEFINE u == [view |-> currView, frame |-> read[currView]]
           loaded == IF pc = "load" THEN {u} ELSE {}
<1>1. /\ InSdkCall /\ Renew /\ inVpp' = <<>> /\ inEnc' = <<>>
      /\ lost' = lost \union UnderWay \union UnitsIn(inVpp) \union UnitsIn(inEnc) \union loaded
      /\ read' = [v \in View |-> read[v] + Cardinality({x \in loaded : x.view = v})]
  BY DEF DeviceLost
<1>2. PoolQueue \in Seq(Unit) /\ PoolQueue \o inEnc \in Seq(Unit)
  BY QueueType, ConcatProperties DEF RunInv
<1>3. UnderWay \union UnitsIn(inVpp) \union UnitsIn(inEnc) = UnitsIn(Way)
  <2>1. UnitsIn(PoolQueue \o inEnc) = UnitsIn(PoolQueue) \union UnitsIn(inEnc)
    BY <1>2, UnitsOfConcat DEF RunInv
  <2>2. UnitsIn((PoolQueue \o inEnc) \o inVpp) = UnitsIn(PoolQueue \o inEnc) \union UnitsIn(inVpp)
    BY <1>2, UnitsOfConcat DEF RunInv
  <2> QED  BY <2>1, <2>2, UnderWayIsQueue DEF Way
<1>4. PoolQueue' = <<>> /\ UNCHANGED <<mode, file>>
  BY <1>1, RenewImplements DEF TQ!GiveUp
<1>5. Way' = <<>>
  BY <1>1, <1>4 DEF Way
<1>6. Kept' = Kept
  BY <1>4 DEF Kept
<1>7. CASE pc = "load"
  <2>1. read[currView] < Pictures
    BY <1>1, <1>7 DEF InSdkCall, After
  <2>2. u \in Unit /\ u.view = currView /\ u.frame = read[currView] /\ read \in [View -> Nat]
    BY <2>1, PicturesAssumption DEF RunInv, Unit
  <2>3. read' = [read EXCEPT ![currView] = @ + 1]
    <3>1. ASSUME NEW v \in View
          PROVE  Cardinality({x \in loaded : x.view = v}) = IF v = currView THEN 1 ELSE 0
      <4>1. CASE v = currView
        <5>1. {x \in loaded : x.view = v} = {u}
          BY <1>7, <4>1
        <5> QED  BY <4>1, <5>1, FS_Singleton
      <4>2. CASE v # currView
        <5>1. {x \in loaded : x.view = v} = {}
          BY <1>7, <4>2
        <5> QED  BY <4>2, <5>1, FS_EmptySet
      <4> QED  BY <4>1, <4>2
    <3> HIDE DEF loaded, u
    <3>2. read' = [v \in View |-> read[v] + (IF v = currView THEN 1 ELSE 0)]
      BY <1>1, <3>1
    <3>3. [read EXCEPT ![currView] = @ + 1] = [v \in View |-> read[v] + (IF v = currView THEN 1 ELSE 0)]
      <4>1. read = [v \in View |-> read[v]] /\ \A v \in View : read[v] + 0 = read[v]
        BY <2>2
      <4> QED  BY <2>2, <4>1
    <3> QED  BY <3>2, <3>3
  <2>4. Accounted(UnitsIn(Kept), Len(Kept), Append(Way, u), lost, read')
    <3> HIDE DEF u
    <3>1. Accounted(UnitsIn(Kept), Len(Kept), Append(Way, u), lost, [read EXCEPT ![currView] = @ + 1])
      BY <2>2, ReadCurrent DEF AccountInv
    <3> QED  BY <2>3, <3>1
  <2>5. Accounted(UnitsIn(Kept), Len(Kept), <<>>, lost \union UnitsIn(Append(Way, u)), read')
    BY <2>4, GiveUpAll
  <2>6. lost' = lost \union UnitsIn(Append(Way, u))
    <3>1. UnitsIn(Append(Way, u)) = UnitsIn(Way) \union {u}
      BY <2>2, UnitsOfAppend DEF AccountInv, Accounted
    <3> QED  BY <1>1, <1>3, <1>7, <3>1
  <2> QED  BY <1>4, <1>5, <1>6, <2>5, <2>6 DEF AccountInv
<1>8. CASE pc # "load"
  <2>1. read' = read
    <3>1. ASSUME NEW v \in View
          PROVE  Cardinality({x \in loaded : x.view = v}) = 0
      <4>1. {x \in loaded : x.view = v} = {}
        BY <1>8
      <4> QED  BY <4>1, FS_EmptySet
    <3> HIDE DEF loaded
    <3>2. read \in [View -> Nat]
      BY PicturesAssumption DEF RunInv
    <3> QED  BY <1>1, <3>1, <3>2
  <2>2. Accounted(UnitsIn(Kept), Len(Kept), <<>>, lost \union UnitsIn(Way), read)
    BY GiveUpAll DEF AccountInv
  <2>3. lost' = lost \union UnitsIn(Way)
    BY <1>1, <1>3, <1>8
  <2> QED  BY <1>4, <1>5, <1>6, <2>1, <2>2, <2>3 DEF AccountInv
<1> QED  BY <1>7, <1>8

LEMMA InitAccounts == Init => AccountInv
<1> SUFFICES ASSUME Init PROVE AccountInv
  OBVIOUS
<1>1. PoolQueue = <<>> /\ \A f \in File : file[f] = <<>>
  <2>1. TQ!Init
    BY InitImplements DEF Init
  <2> QED  BY <2>1 DEF TQ!Init, Init, PoolInit
<1>2. Way = <<>> /\ Kept = <<>>
  BY <1>1 DEF Init, Way, Kept, File
<1>3. UnitsIn(<<>>) = {} /\ InOrder(<<>>) /\ Precede({}, <<>>) /\ Len(<<>>) = 0
  BY DEF UnitsIn, InOrder, Precede
<1>4. {u \in Unit : u.frame < read[u.view]} = {}
  <2> SUFFICES ASSUME NEW u \in Unit, u.frame < read[u.view] PROVE FALSE
    OBVIOUS
  <2>1. u.view \in View /\ u.frame \in 0 .. Pictures - 1
    BY DEF Unit
  <2> QED  BY <2>1, PicturesAssumption DEF Init
<1>5. Accounted({}, 0, <<>>, {}, read)
  BY <1>3, <1>4, FS_EmptySet DEF Accounted
<1> QED  BY <1>1, <1>2, <1>3, <1>5 DEF AccountInv, Init

LEMMA AccountKept ==
    ASSUME IndInv, RunInv, AccountInv, [Next]_allVars
    PROVE  AccountInv'
<1>1. ASSUME UNCHANGED poolVars \/ (Wait /\ SyncDone), UNCHANGED <<inEnc, inVpp, lost, read>>
      PROVE  AccountInv'
  <2>1. CASE UNCHANGED poolVars
    <3>1. Way' = Way /\ UNCHANGED <<mode, file>>
      BY <1>1, <2>1, QueueUnchanged DEF Way, poolVars
    <3> QED  BY <1>1, <3>1, AccountStays
  <2>2. CASE Wait
    BY <1>1, <2>2, WaitImplements, DeliverKeeps DEF RunInv
  <2> QED  BY <1>1, <2>1, <2>2
<1>2. CASE GetFreeTask
  BY <1>1, <1>2 DEF GetFreeTask, Wait, runVars
<1>3. CASE EndOfSource \/ DrainVpp \/ Fail
  BY <1>1, <1>3 DEF EndOfSource, DrainVpp, Fail, runVars
<1>4. CASE DrainPool
  BY <1>1, <1>4 DEF DrainPool, Wait, RunInv
<1>5. CASE EncodeFromVpp
  <2>1. /\ ~draining /\ inVpp # <<>> /\ inVpp' = Tail(inVpp)
        /\ Encode(Append(inEnc, Head(inVpp))) /\ UNCHANGED <<lost, read>>
    BY <1>5 DEF EncodeFromVpp, RunInv
  <2>2. Way' = Way /\ UNCHANGED <<mode, file>>
    BY <2>1, EncodeFirstMoves DEF RunInv, Way
  <2> QED  BY <2>1, <2>2, AccountStays
<1>6. CASE DrainEncoder
  <2>1. ~draining /\ UNCHANGED <<inVpp, lost, read>>
    BY <1>6 DEF DrainEncoder, RunInv
  <2>2. CASE inEnc = <<>>
    <3>1. BeginDrain /\ inEnc' = inEnc
      BY <1>6, <2>2 DEF DrainEncoder
    <3>2. UNCHANGED <<mode, tasks, start, file>>
      BY <3>1 DEF BeginDrain
    <3>3. Way' = Way
      BY <2>1, <3>1, <3>2 DEF Way, PoolQueue, Offset, Slot
    <3> QED  BY <2>1, <3>2, <3>3, AccountStays
  <2>3. CASE inEnc # <<>>
    <3>1. Encode(inEnc)
      BY <1>6, <2>3 DEF DrainEncoder, Encode
    <3>2. PoolQueue' \o inEnc' = PoolQueue \o inEnc /\ UNCHANGED <<mode, file>>
      BY <2>1, <2>3, <3>1, EncodeMoves DEF RunInv
    <3> QED  BY <2>1, <3>2, AccountStays DEF Way
  <2> QED  BY <2>2, <2>3
<1>7. CASE UNCHANGED allVars
  BY <1>1, <1>7 DEF allVars, runVars
<1> QED  BY <1>2, <1>3, <1>4, <1>5, <1>6, <1>7, LoadAccounts, LostAccounts DEF Next

-----------------------------------------------------------------------------
(* The end of Run.                                                         *)

\* The views are read in turn, and nothing is behind the step that Run is at.
EndInv ==
    /\ losses \in Nat
    /\ read[0] >= read[1] + currView
    /\ losses = 0 /\ TwoViews(mode) => read[0] = read[1] + currView
    /\ pc \in {"drainVpp", "getTaskVpp", "encodeVpp", "getTaskEnc", "encodeNull", "drainPool", "done"}
         => read[currView] = Pictures
    /\ pc \in {"getTaskEnc", "encodeNull", "drainPool", "done"} => inVpp = <<>>
    /\ pc \in {"drainPool", "done"} => inEnc = <<>>
    /\ pc = "done" => timedOut \/ tasks[start] = NoUnit

\* After a loss Run is at its beginning, and the view just loaded has one more.
LEMMA LostAtEnd ==
    ASSUME RunInv, EndInv, DeviceLost
    PROVE  EndInv'
<1> DEFINE u == [view |-> currView, frame |-> read[currView]]
           loaded == IF pc = "load" THEN {u} ELSE {}
           more(v) == Cardinality({x \in loaded : x.view = v})
<1>1. /\ losses' = losses + 1 /\ currView' = 0 /\ pc' = "getTask"
      /\ read' = [v \in View |-> read[v] + more(v)]
  BY DEF DeviceLost
<1>2. \A v \in View : more(v) \in {0, 1} /\ (more(v) = 1 => v = currView)
  <2> SUFFICES ASSUME NEW v \in View PROVE more(v) \in {0, 1} /\ (more(v) = 1 => v = currView)
    OBVIOUS
  <2>1. CASE pc = "load" /\ v = currView
    <3>1. {x \in loaded : x.view = v} = {u}
      BY <2>1
    <3> QED  BY <2>1, <3>1, FS_Singleton
  <2>2. CASE ~(pc = "load" /\ v = currView)
    <3>1. {x \in loaded : x.view = v} = {}
      BY <2>2
    <3>2. more(v) = 0
      BY <3>1, FS_EmptySet
    <3> QED  BY <3>2
  <2> QED  BY <2>1, <2>2
<1> HIDE DEF more, loaded
<1>3. 0 \in View /\ 1 \in View /\ currView \in {0, 1} /\ read[0] \in Nat /\ read[1] \in Nat
  BY PicturesAssumption DEF RunInv, View
<1>4. read'[0] = read[0] + more(0) /\ read'[1] = read[1] + more(1)
  BY <1>1, <1>3
<1>5. /\ more(0) \in {0, 1} /\ more(1) \in {0, 1} /\ (more(1) = 1 => currView = 1)
  BY <1>2, <1>3
<1>6. read'[0] >= read'[1] + currView'
  BY <1>1, <1>3, <1>4, <1>5 DEF EndInv
<1>7. losses' \in Nat /\ losses' # 0
  BY <1>1 DEF EndInv
<1> QED  BY <1>1, <1>6, <1>7 DEF EndInv

LEMMA EndKept ==
    ASSUME RunInv, EndInv, [Next]_allVars
    PROVE  EndInv'
<1>1. CASE LoadAndEncode
  <2>1. /\ read' = [read EXCEPT ![currView] = @ + 1]
        /\ currView' = IF TwoViews(mode) THEN 1 - currView ELSE currView
        /\ losses' = losses /\ pc' = "getTask" /\ mode' = mode
    BY <1>1 DEF LoadAndEncode, Encode, Fill, poolVars
  <2>2. /\ currView \in {0, 1} /\ (~TwoViews(mode) => currView = 0)
        /\ read[0] \in Nat /\ read[1] \in Nat /\ read \in [{0, 1} -> Nat]
    BY PicturesAssumption DEF RunInv, View, Turn
  <2>3. CASE currView = 0
    <3>1. read'[0] = read[0] + 1 /\ read'[1] = read[1]
      BY <2>1, <2>2, <2>3
    <3> QED  BY <2>1, <2>2, <2>3, <3>1 DEF EndInv
  <2>4. CASE currView = 1
    <3>1. read'[0] = read[0] /\ read'[1] = read[1] + 1
      BY <2>1, <2>2, <2>4
    <3> QED  BY <2>1, <2>2, <2>4, <3>1 DEF EndInv
  <2> QED  BY <2>2, <2>3, <2>4
<1>2. CASE GetFreeTask
  <2>1. /\ pc \in DOMAIN After /\ pc' \in {After[pc], "failed"} /\ UNCHANGED runVars
        /\ mode' = mode
    BY <1>2 DEF GetFreeTask, SyncDone, poolVars
  <2> QED  BY <2>1 DEF EndInv, runVars, After
<1>3. CASE EndOfSource
  BY <1>3 DEF EndOfSource, EndInv, RunInv, runVars, poolVars
<1>4. CASE DrainVpp
  BY <1>4 DEF DrainVpp, EndInv, runVars, poolVars
<1>5. CASE EncodeFromVpp
  <2>1. mode' = mode
    BY <1>5 DEF EncodeFromVpp, Encode, Fill, poolVars
  <2> QED  BY <1>5, <2>1 DEF EncodeFromVpp, EndInv
<1>6. CASE DrainEncoder
  <2>1. mode' = mode
    BY <1>6 DEF DrainEncoder, BeginDrain, Fill
  <2> QED  BY <1>6, <2>1 DEF DrainEncoder, EndInv
<1>7. CASE DrainPool
  <2>1. mode' = mode /\ UNCHANGED <<vpp, read, currView, inVpp, inEnc, lost, losses>>
    BY <1>7 DEF DrainPool, SyncDone, poolVars
  <2>2. \/ pc' = "drainPool"
        \/ pc' = "done" /\ (timedOut' \/ tasks'[start'] = NoUnit)
    BY <1>7 DEF DrainPool, poolVars
  <2>3. pc = "drainPool"
    BY <1>7 DEF DrainPool
  <2> QED  BY <2>1, <2>2, <2>3 DEF EndInv
<1>8. CASE Fail
  BY <1>8 DEF Fail, EndInv, runVars, poolVars
<1>9. CASE UNCHANGED allVars
  BY <1>9 DEF allVars, EndInv, runVars, poolVars
<1> QED  BY <1>1, <1>2, <1>3, <1>4, <1>5, <1>6, <1>7, <1>8, <1>9, LostAtEnd DEF Next

LEMMA InitEnd == Init => EndInv
  BY DEF Init, EndInv, View

-----------------------------------------------------------------------------

LEMMA InOnePlace ==
    ASSUME IndInv, RunInv, AccountInv
    PROVE  OnePlaceEach
<1> DEFINE held == UNION {UnitsIn(Places[k]) : k \in DOMAIN Places}
<1>1. /\ PoolQueue \in Seq(Unit) /\ inEnc \in Seq(Unit) /\ inVpp \in Seq(Unit)
      /\ PoolQueue \o inEnc \in Seq(Unit)
  BY QueueType, ConcatProperties DEF RunInv
<1>2. UnitsIn(Way) = (UnitsIn(PoolQueue) \union UnitsIn(inEnc)) \union UnitsIn(inVpp)
  <2>1. UnitsIn(PoolQueue \o inEnc) = UnitsIn(PoolQueue) \union UnitsIn(inEnc)
    BY <1>1, UnitsOfConcat
  <2>2. UnitsIn((PoolQueue \o inEnc) \o inVpp) = UnitsIn(PoolQueue \o inEnc) \union UnitsIn(inVpp)
    BY <1>1, UnitsOfConcat
  <2> QED  BY <2>1, <2>2 DEF Way
<1>3. Len(Way) = Len(PoolQueue) + Len(inEnc) + Len(inVpp)
  <2>1. Len(PoolQueue \o inEnc) = Len(PoolQueue) + Len(inEnc)
    BY <1>1, ConcatProperties
  <2>2. Len((PoolQueue \o inEnc) \o inVpp) = Len(PoolQueue \o inEnc) + Len(inVpp)
    BY <1>1, ConcatProperties
  <2> QED  BY <2>1, <2>2 DEF Way
<1>4. held = UnitsIn(Kept) \union UnitsIn(Way)
  <2>1. /\ DOMAIN Places = 1 .. 4
        /\ Places[1] = Kept /\ Places[2] = PoolQueue /\ Places[3] = inEnc /\ Places[4] = inVpp
    BY DEF Places
  <2>2. 1 .. 4 = {1, 2, 3, 4}
    OBVIOUS
  <2>3. held = UnitsIn(Places[1]) \union UnitsIn(Places[2]) \union UnitsIn(Places[3]) \union UnitsIn(Places[4])
    BY <2>1, <2>2
  <2> QED  BY <1>2, <2>1, <2>3
<1>5. Accounted(UnitsIn(Kept), Len(Kept), Way, lost, read)
  BY DEF AccountInv
<1>6. held \union lost = {u \in Unit : u.frame < read[u.view]} /\ held \intersect lost = {}
  BY <1>4, <1>5 DEF Accounted
<1>7. Cardinality(held) = Len(Kept) + Len(PoolQueue) + Len(inEnc) + Len(inVpp)
  <2>1. Cardinality(held) = Len(Kept) + Len(Way)
    BY <1>4, <1>5, WrittenOnce
  <2>2. Len(Kept) \in Nat /\ Len(PoolQueue) \in Nat /\ Len(inEnc) \in Nat /\ Len(inVpp) \in Nat
    BY <1>1, <1>5 DEF Accounted
  <2> QED  BY <1>3, <2>1, <2>2
<1> QED  BY <1>6, <1>7 DEF OnePlaceEach

LEMMA CompleteWhenDone ==
    ASSUME IndInv, RunInv, EndInv
    PROVE  CompleteAtEnd
<1> SUFFICES ASSUME pc = "done"
             PROVE  /\ read[0] = Pictures
                    /\ losses = 0 /\ TwoViews(mode) => read[1] = Pictures
                    /\ inVpp = <<>> /\ inEnc = <<>>
                    /\ timedOut \/ PoolQueue = <<>>
  BY DEF CompleteAtEnd
<1>1. /\ read[currView] = Pictures /\ currView \in {0, 1}
      /\ read[0] \in 0 .. Pictures /\ read[1] \in 0 .. Pictures
      /\ read[0] >= read[1] + currView
  BY DEF EndInv, RunInv, View
<1>2. currView = 0
  BY <1>1, PicturesAssumption
<1>3. losses = 0 /\ TwoViews(mode) => read[1] = Pictures
  BY <1>1, <1>2, PicturesAssumption DEF EndInv
<1>4. timedOut \/ PoolQueue = <<>>
  <2> SUFFICES ASSUME tasks[start] = NoUnit PROVE PoolQueue = <<>>
    BY DEF EndInv
  <2>1. PICK c \in 0 .. PoolSize : FirstBusy(tasks, start, c)
    BY DEF IndInv
  <2>2. start \in 0 .. PoolSize - 1 /\ PoolSize \in Nat \ {0}
    BY PoolSizeFacts DEF IndInv, PoolTypeOK
  <2>3. (start + 0) % PoolSize = start
    <3>1. start + 0 < PoolSize /\ start + 0 = start /\ 0 \in 0 .. PoolSize
      BY <2>2
    <3> QED  BY <2>2, <3>1, SlotValue
  <2>4. c = 0
    <3>1. 0 \in 0 .. PoolSize - 1
      BY <2>2
    <3>2. ~(0 < c)
      BY <2>1, <2>3, <3>1 DEF FirstBusy
    <3> QED  BY <3>2
  <2>5. PoolQueue \in Seq(Unit) /\ Len(PoolQueue) = c
    BY <2>1, QueueIs, RingSeqType DEF IndInv, PoolTypeOK
  <2> QED  BY <2>4, <2>5
<1> QED  BY <1>1, <1>2, <1>3, <1>4 DEF EndInv

\* No picture is skipped, repeated or left behind in VPP, encoder or pool, and every
\* file has the pictures of a view in their order, whatever the delays and however
\* often the device is lost (CEncodingPipeline::Run with its three draining loops).
THEOREM EncoderAccountsForPictures == Spec => []PicturesAccountedFor
<1> DEFINE All == IndInv /\ RunInv /\ AccountInv /\ EndInv
<1>1. Init => All
  BY InitRun, InitAccounts, InitEnd, InitInv DEF Init
<1>2. All /\ [Next]_allVars => All'
  <2> SUFFICES ASSUME All, [Next]_allVars PROVE All'
    OBVIOUS
  <2>1. RunInv' /\ [PoolNext]_poolVars
    BY RunStep
  <2>2. IndInv'
    BY <2>1, SubmitInv, WaitInv, RenewInv, BeginDrainInv, StutterInv DEF PoolNext
  <2> QED  BY <2>1, <2>2, AccountKept, EndKept
<1>3. All => PicturesAccountedFor
  <2> SUFFICES ASSUME All PROVE PicturesAccountedFor
    OBVIOUS
  <2>1. FilesInOrder
    <3>1. \A f \in File : InOrder(file[f]) /\ DOMAIN file[f] = 1 .. Len(file[f])
      BY DEF AccountInv, IndInv, PoolTypeOK
    <3> QED  BY <3>1 DEF FilesInOrder, InOrder
  <2> QED  BY <2>1, InOnePlace, CompleteWhenDone DEF PicturesAccountedFor
<1> HIDE DEF All
<1>4. Spec => []All
  BY <1>1, <1>2, PTL DEF Spec
<1> QED  BY <1>3, <1>4, PTL
==============================================================================
