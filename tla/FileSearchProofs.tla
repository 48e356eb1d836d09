---------------------------- MODULE FileSearchProofs ----------------------------
(***************************************************************************)
(* What a search of the playback server finds serves the request, while    *)
(* the recorder goes on writing the index and whatever it has lost: for    *)
(* every calendar, every set of files and any requests.                    *)
(*                                                                         *)
(* The argument: a walk that stays in the buffer of a day stops only at a  *)
(* file that serves the time.  One that leaves it follows a link, and as   *)
(* long as the server has made no channel of its own (ServerPhase), its    *)
(* nodes are those of the tables and a link leads on in time.  What holds  *)
(* of the file when both processes write to it is SharedInv.               *)
(***************************************************************************)
EXTENDS FileSearch, FileIndexProofs

-----------------------------------------------------------------------------
(* Induction, by sets: a set that has 0, and with a number the next one,   *)
(* has all numbers, since no finite set can be put into a smaller one.     *)
LEMMA SetInduction ==
  ASSUME NEW S, 0 \in S, \A n \in Nat : n \in S => n + 1 \in S
  PROVE  Nat \subseteq S
<1> SUFFICES ASSUME NEW m \in Nat, m \notin S PROVE FALSE
  OBVIOUS
<1> DEFINE T == (0 .. m) \ S
           pred == [k \in T |-> k - 1]
<1>1. IsFiniteSet(T) /\ m \in T
  <2>1. IsFiniteSet(0 .. m)
    BY FS_Interval
  <2> QED  BY <2>1, FS_Subset
<1>2. \A k \in T : k - 1 \in T \ {m}
  <2> SUFFICES ASSUME NEW k \in T PROVE k - 1 \in T \ {m}
    OBVIOUS
  <2>1. k - 1 \in Nat /\ k - 1 + 1 = k
    OBVIOUS
  <2> QED  BY <2>1
<1>3. pred \in [T -> T \ {m}]
  BY <1>2
<1>4. /\ IsFiniteSet(T \ {m}) /\ Cardinality(T \ {m}) = Cardinality(T) - 1
      /\ Cardinality(T) \in Nat
  BY <1>1, FS_RemoveElement, FS_CardinalityType
<1>5. PICK x \in T, y \in T : x # y /\ pred[x] = pred[y]
  <2> HIDE DEF pred, T
  <2>1. Cardinality(T \ {m}) < Cardinality(T)
    BY <1>4
  <2> QED  BY <1>1, <1>3, <1>4, <2>1, FS_PigeonHole
<1> QED  BY <1>5

LEMMA LeastNumber ==
  ASSUME NEW S \in SUBSET Nat, S # {}
  PROVE  \E n \in S : \A k \in S : n <= k
<1> SUFFICES ASSUME \A n \in S : \E k \in S : k < n PROVE FALSE
  OBVIOUS
<1> DEFINE B == {n \in Nat : \A k \in S : n <= k}
<1>1. 0 \in B
  OBVIOUS
<1>2. \A n \in Nat : n \in B => n + 1 \in B
  <2> SUFFICES ASSUME NEW n \in Nat, n \in B, NEW k \in S PROVE n + 1 <= k
    OBVIOUS
  <2>1. n <= k /\ k \in Nat
    OBVIOUS
  <2>2. CASE n = k
    <3>1. PICK j \in S : j < n
      BY <2>2
    <3> QED  BY <3>1
  <2> QED  BY <2>1, <2>2
<1>3. Nat \subseteq B
  <2> HIDE DEF B
  <2> QED  BY <1>1, <1>2, SetInduction
<1>4. PICK s \in S : TRUE
  OBVIOUS
<1>5. s \in Nat /\ s + 1 \in Nat
  OBVIOUS
<1>6. s + 1 <= s
  BY <1>3, <1>5
<1> QED  BY <1>5, <1>6

LEMMA GreatestNumber ==
  ASSUME NEW S \in SUBSET Nat, S # {}, NEW b \in Nat, \A k \in S : k <= b
  PROVE  \E n \in S : \A k \in S : n >= k
<1> DEFINE D == {b - k : k \in S}
<1>1. D \in SUBSET Nat /\ D # {}
  <2>1. \A k \in S : b - k \in Nat
    OBVIOUS
  <2> QED  BY <2>1
<1>2. PICK d \in D : \A e \in D : d <= e
  <2> HIDE DEF D
  <2> QED  BY <1>1, LeastNumber
<1>3. PICK n \in S : d = b - n
  OBVIOUS
<1>4. \A k \in S : n >= k
  <2> SUFFICES ASSUME NEW k \in S PROVE n >= k
    OBVIOUS
  <2>1. b - n <= b - k
    BY <1>2, <1>3
  <2>2. n \in Nat /\ k \in Nat
    OBVIOUS
  <2> QED  BY <2>1, <2>2
<1> QED  BY <1>4

-----------------------------------------------------------------------------
(* The walk along the links.                                               *)

\* A walk that begins in G, and whose links lead into G, ends in G.
LEMMA WalkIn ==
  ASSUME NEW from, NEW passed, NEW link, NEW G, from \in G, \A x \in passed : link[x] \in G
  PROVE  WalkEnd(from, passed, link) \in G
<1> DEFINE Body(f, N) == [n \in 0 .. N |-> IF n = 0 THEN from ELSE IF f[n - 1] \in passed THEN link[f[n - 1]] ELSE f[n - 1]]
<1> DEFINE S == {N \in Nat : \E f : f = Body(f, N)}
<1>1. 0 \in S
  <2>1. [n \in 0 .. 0 |-> from] = Body([n \in 0 .. 0 |-> from], 0)
    OBVIOUS
  <2> QED  BY <2>1
<1>2. ASSUME NEW N \in Nat, N \in S PROVE N + 1 \in S
  <2>1. PICK f : f = Body(f, N)
    BY <1>2
  <2> DEFINE g == [n \in 0 .. N + 1 |-> IF n = N + 1 THEN (IF f[N] \in passed THEN link[f[N]] ELSE f[N]) ELSE f[n]]
  <2>2. g = Body(g, N + 1)
    <3>1. ASSUME NEW n \in 0 .. N + 1 PROVE g[n] = Body(g, N + 1)[n]
      <4>1. CASE n = N + 1
        <5>1. g[n - 1] = f[N]
          BY <4>1
        <5> QED  BY <4>1, <5>1
      <4>2. CASE n # N + 1
        <5>1. n \in 0 .. N /\ g[n] = f[n]
          BY <4>2
        <5>2. f[n] = Body(f, N)[n]
          BY <2>1
        <5>3. n # 0 => n - 1 \in 0 .. N /\ g[n - 1] = f[n - 1]
          BY <5>1
        <5> HIDE DEF g
        <5> QED  BY <5>1, <5>2, <5>3
      <4> QED  BY <4>1, <4>2
    <3>2. g = [n \in 0 .. N + 1 |-> g[n]]
      OBVIOUS
    <3>3. Body(g, N + 1) = [n \in 0 .. N + 1 |-> Body(g, N + 1)[n]]
      OBVIOUS
    <3> HIDE DEF g, Body
    <3> QED BY <3>1, <3>2, <3>3
  <2>3. N + 1 \in Nat /\ \E z : z = Body(z, N + 1)
    <3> HIDE DEF g, Body
    <3> QED  BY <2>2
  <2> QED  BY <2>3
<1>3. Nat \subseteq S
  <2> HIDE DEF S
  <2> QED BY <1>1, <1>2, SetInduction
<1>4. \E f : f = Body(f, Slots)
  BY <1>3, PositiveSizes
<1> DEFINE h == CHOOSE f : f = Body(f, Slots)
<1>5. h = Body(h, Slots)
  BY <1>4, Zenon
<1>6. WalkEnd(from, passed, link) = h[Slots]
  BY DEF WalkEnd
<1> HIDE DEF h
<1>10. ASSUME NEW n \in 0 .. Slots
      PROVE  h[n] = IF n = 0 THEN from ELSE IF h[n - 1] \in passed THEN link[h[n - 1]] ELSE h[n - 1]
  <2>1. h[n] = Body(h, Slots)[n]
    <3> HIDE DEF Body
    <3> QED  BY <1>5
  <2> QED  BY <2>1
<1>7. 0 \in {n \in Nat : n <= Slots => h[n] \in G}
  BY <1>10, PositiveSizes
<1>8. ASSUME NEW n \in Nat, n <= Slots => h[n] \in G PROVE n + 1 <= Slots => h[n + 1] \in G
  <2> SUFFICES ASSUME n + 1 <= Slots PROVE h[n + 1] \in G
    OBVIOUS
  <2>1. n + 1 \in 0 .. Slots /\ n + 1 # 0 /\ n + 1 - 1 = n /\ h[n] \in G
    BY <1>8, PositiveSizes
  <2> HIDE DEF h
  <2>2. h[n + 1] = IF h[n] \in passed THEN link[h[n]] ELSE h[n]
    BY <1>10, <2>1
  <2> QED  BY <2>1, <2>2
<1>9. Nat \subseteq {n \in Nat : n <= Slots => h[n] \in G}
  <2> DEFINE U == {n \in Nat : n <= Slots => h[n] \in G}
  <2>1. 0 \in U /\ \A n \in Nat : n \in U => n + 1 \in U
    BY <1>7, <1>8
  <2> HIDE DEF U
  <2>2. Nat \subseteq U
    BY <2>1, SetInduction
  <2> QED  BY <2>2 DEF U
<1> QED  BY <1>6, <1>9, PositiveSizes

\* The index that is picked is one of those that may be.
LEMMA PickIn ==
  ASSUME NEW n \in Nat, NEW S \in SUBSET (0 .. n), NEW dir
  PROVE  Pick(dir, S) \in S \cup {-1}
<1>1. CASE S = {}
  BY <1>1 DEF Pick, FirstFrom, LastTo
<1>2. CASE S # {}
  <2>1. S \in SUBSET Nat /\ \A k \in S : k <= n
    OBVIOUS
  <2>2. (\E i \in S : \A j \in S : i <= j) /\ (\E i \in S : \A j \in S : i >= j)
    BY <1>2, <2>1, LeastNumber, GreatestNumber
  <2>3. FirstFrom(S) \in S
    BY <1>2, <2>2 DEF FirstFrom
  <2>4. LastTo(S) \in S
    BY <1>2, <2>2 DEF LastTo
  <2> QED  BY <2>3, <2>4 DEF Pick
<1> QED  BY <1>1, <1>2

-----------------------------------------------------------------------------
(* A recorder whose index file is closed writes nothing, and changes only  *)
(* its memory.                                                             *)
MemoryFields == {"open", "root", "rootDirty", "chan", "years", "days", "last", "prevDay", "eof", "writes"}
Shut(m) == MemoryFields \subseteq DOMAIN m /\ ~m.open /\ m.writes = <<>>
ClosedOK(m) == Shut(m) /\ m.last.day \in Days \cup {-1} /\ m.prevDay \in Days \cup {-1}
StaysShut(m, n) == Shut(n) /\ n.last = m.last /\ n.prevDay = m.prevDay

LEMMA ClosedUpdates ==
  ASSUME NEW m, ~m.open
  PROVE  /\ UpdateRoot(m) = m /\ UpdateChannel(m) = m
         /\ \A i : UpdateYear(m, i) = m
         /\ \A d : UpdateDay(m, d) = m /\ SaveTree(m, d) = m
         /\ \A last, d : UpdateLastDay(m, last, d) = m
<1>1. UpdateRoot(m) = m /\ UpdateChannel(m) = m
  BY DEF UpdateRoot, UpdateChannel
<1>2. (\A i : UpdateYear(m, i) = m) /\ (\A d : UpdateDay(m, d) = m)
  BY DEF UpdateYear, UpdateDay
<1> QED  BY <1>1, <1>2 DEF SaveTree, UpdateLastDay

\* The nodes are changed in a closed memory.
LEMMA ShutNodes ==
  ASSUME NEW m, Shut(m)
  PROVE  /\ StaysShut(m, m)
         /\ \A x : StaysShut(m, [m EXCEPT !.chan = x])
         /\ \A i, x : StaysShut(m, [m EXCEPT !.years[i] = x])
         /\ \A d, x : StaysShut(m, [m EXCEPT !.days[d] = x])
BY DEF StaysShut, Shut, MemoryFields

LEMMA ShutOn == ASSUME NEW m, NEW n, NEW r, StaysShut(m, n), StaysShut(n, r) PROVE StaysShut(m, r)
BY DEF StaysShut

LEMMA GetChannelNodeShut ==
  ASSUME NEW m, Shut(m)
  PROVE  StaysShut(m, GetChannelNode(m))
<1> DEFINE n == [m EXCEPT !.chan = NewNode(NewChannelBuffer)]
<1>1. StaysShut(m, m) /\ StaysShut(m, n)
  BY ShutNodes
<1>2. GetChannelNode(m) = IF m.chan.loaded THEN m ELSE UpdateRoot(UpdateChannel(n))
  BY DEF GetChannelNode, Shut
<1> HIDE DEF n
<1>3. UpdateRoot(UpdateChannel(n)) = n
  BY <1>1, ClosedUpdates DEF StaysShut, Shut
<1> QED  BY <1>1, <1>2, <1>3

LEMMA SetBaseShut ==
  ASSUME NEW m, Shut(m), NEW t
  PROVE  StaysShut(m, SetBase(m, t))
<1>1. StaysShut(m, [m EXCEPT !.chan.buf.base = Year(t), !.chan.dirty = TRUE])
  BY DEF StaysShut, Shut, MemoryFields
<1> QED  BY <1>1, ShutNodes DEF SetBase

LEMMA WithNodesShut ==
  ASSUME NEW m, Shut(m), NEW c
  PROVE  StaysShut(m, WithNodes(m, c))
<1> DEFINE i == Year(c.start) - m.chan.buf.base
           d == Day(c.start)
           n == GetYearNode(m, i)
           r == [n EXCEPT !.days[d] = NewNode(NewDayBuffer)]
<1>1. StaysShut(m, n)
  BY ShutNodes DEF GetYearNode
<1> HIDE DEF n
<1>2. Shut(n) /\ ~n.open
  BY <1>1 DEF StaysShut, Shut
<1>3. StaysShut(n, n) /\ StaysShut(n, r)
  BY <1>2, ShutNodes
<1>4. GetDateNode(n, d) = IF n.days[d].loaded THEN n ELSE UpdateDay(r, d)
  BY <1>2 DEF GetDateNode
<1> HIDE DEF r
<1>5. UpdateDay(r, d) = r
  BY <1>3, ClosedUpdates DEF StaysShut, Shut
<1>6. StaysShut(m, GetDateNode(n, d))
  BY <1>1, <1>3, <1>4, <1>5, ShutOn
<1> QED  BY <1>6 DEF WithNodes, n

LEMMA SetFileShut ==
  ASSUME NEW m, Shut(m), NEW d, NEW f, NEW prev, NEW next
  PROVE  StaysShut(m, SetFile(m, d, f, prev, next))
<1> DEFINE node == m.days[d]
           buf == SetSlot(node.buf, PlaceOf(m, d, f), f, prev, next)
           z == [node EXCEPT !.dirty = TRUE, !.buf = buf]
<1>1. SetFile(m, d, f, prev, next) = IF Day(f.start) # d THEN m ELSE [m EXCEPT !.days[d] = z]
  BY DEF SetFile
<1> HIDE DEF z
<1> QED  BY <1>1, ShutNodes

\* A file that is added while the index file is closed.
LEMMA InsertedShut ==
  ASSUME NEW m, ClosedOK(m), NEW c \in Clips
  PROVE  ClosedOK(Inserted(GetChannelNode(m), c))
<1> DEFINE n == GetChannelNode(m)
<1>1. ClosedOK(n) /\ Shut(n) /\ ~n.open /\ Day(c.start) \in Days
  BY GetChannelNodeShut, ClipFacts DEF ClosedOK, StaysShut, Shut
<1> HIDE DEF n
<1>2. ClosedOK(InsertFirst(n, c))
  <2> DEFINE b == SetBase(n, c.start)
             d == Day(c.start)
             w == WithNodes(b, c)
             f == [NewFile(c) EXCEPT !.day = d, !.seek = PlaceOf(w, d, NewFile(c))]
             p == SetFile(w, d, f, 0, 0)
             q == [p EXCEPT !.last = f]
             r == [b EXCEPT !.last = NewFile(c)]
  <2>1. f.day = d /\ NewFile(c).day = -1
    BY DEF NewFile
  <2> HIDE DEF f
  <2>2. StaysShut(n, b)
    BY <1>1, SetBaseShut
  <2> HIDE DEF b
  <2>3. StaysShut(b, w)
    BY <2>2, WithNodesShut DEF StaysShut
  <2> HIDE DEF w
  <2>4. StaysShut(w, p)
    BY <2>3, SetFileShut DEF StaysShut
  <2>5. InsertFirst(n, c) = IF HasYear(b, c.start) THEN SaveTree(q, d) ELSE UpdateRoot(UpdateChannel(r))
    BY DEF InsertFirst, f, b, w
  <2> HIDE DEF p
  <2>6. Shut(p) /\ p.prevDay = n.prevDay /\ Shut(b) /\ b.prevDay = n.prevDay
    BY <2>2, <2>3, <2>4 DEF StaysShut
  <2>7. ClosedOK(q) /\ ~q.open
    BY <1>1, <2>1, <2>6 DEF ClosedOK, Shut, MemoryFields
  <2>8. ClosedOK(r) /\ ~r.open
    BY <1>1, <2>1, <2>6 DEF ClosedOK, Shut, MemoryFields
  <2> HIDE DEF q, r
  <2> QED  BY <2>5, <2>7, <2>8, ClosedUpdates
<1>3. ClosedOK(InsertAfter(n, c))
  <2> DEFINE last == n.last
             w == IF HasYear(n, c.start) THEN WithNodes(n, c) ELSE n
             d == IF HasYear(n, c.start) THEN Day(c.start) ELSE last.day
             f == [NewFile(c) EXCEPT !.day = d,
                                     !.seek = IF Day(c.start) = d THEN PlaceOf(w, d, NewFile(c)) ELSE 0]
             placed == SetFile(w, d, f, last.seek, 0)
             linked == SetFile(placed, last.day, last, 0, f.seek)
             q == [linked EXCEPT !.last = f, !.prevDay = last.day]
  <2>1. f.day = d
    BY DEF NewFile
  <2> HIDE DEF f
  <2>2. d \in Days \cup {-1} /\ last.day \in Days \cup {-1}
    BY <1>1 DEF ClosedOK
  <2>3. Shut(w)
    BY <1>1, WithNodesShut DEF StaysShut
  <2>4. Shut(placed)
    <3> HIDE DEF w
    <3> QED  BY <2>3, SetFileShut DEF StaysShut
  <2>5. Shut(linked)
    <3> HIDE DEF placed
    <3> QED  BY <2>4, SetFileShut DEF StaysShut
  <2>6. InsertAfter(n, c) = SaveTree(UpdateLastDay(q, last, d), d)
    BY DEF InsertAfter, f
  <2> HIDE DEF linked, d
  <2>7. ClosedOK(q) /\ ~q.open
    BY <2>1, <2>2, <2>5 DEF ClosedOK, Shut, MemoryFields
  <2> HIDE DEF q
  <2> QED  BY <2>6, <2>7, ClosedUpdates
<1> QED  BY <1>1, <1>2, <1>3 DEF Inserted, n

-----------------------------------------------------------------------------
(* The index that the recorder and the server share: the nodes in the file *)
(* are those of their owners, and so is the memory of the recorder while   *)
(* its index file is open.  (A closed memory may hold places that the      *)
(* server's channel has been given since.)                                 *)
SharedInv ==
  /\ added \in Seq(Clips)
  /\ pending = <<>> \/ pending = <<pending[1]>>
  /\ \E K : /\ Owners(K, AddedDays)
            /\ FileOK(K, AddedDays, disk) /\ FileOK(K, AddedDays, Flushed)
            /\ mem.open => Holds(K, AddedDays, Len(Flushed.nodes), mem)
  /\ ~mem.open => ClosedOK(mem)
  /\ heap.days \subseteq Days
  /\ CountsInv

LEMMA OpenShared ==
  ASSUME SharedInv, mem.open
  PROVE  IndexInv
BY DEF SharedInv, IndexInv

LEMMA MemoryClosed ==
  ASSUME NEW K, NEW D, NEW F, NEW m, Holds(K, D, F, m), ~m.open
  PROVE  ClosedOK(m)
BY DEF Holds, MemoryOK, Memory, File, ClosedOK, Shut, MemoryFields

LEMMA IndexShared ==
  ASSUME IndexInv', heap'.days \subseteq Days, CountsInv'
  PROVE  SharedInv'
<1>1. PICK K : /\ FileOK(K, AddedDays', disk') /\ FileOK(K, AddedDays', Flushed')
               /\ Holds(K, AddedDays', Len(Flushed'.nodes), mem')
  BY DEF IndexInv
<1>2. Owners(K, AddedDays')
  BY <1>1 DEF Holds
<1>3. ~mem'.open => ClosedOK(mem')
  BY <1>1, MemoryClosed
<1>4. added' \in Seq(Clips) /\ (pending' = <<>> \/ pending' = <<pending'[1]>>)
  BY DEF IndexInv
<1> QED  BY <1>1, <1>2, <1>3, <1>4 DEF SharedInv

LEMMA InitShared == Init => SharedInv
<1> SUFFICES ASSUME Init PROVE SharedInv
  OBVIOUS
<1>1. IndexInv /\ CountsInv
  BY InitIndex, InitCounts
<1>2. PICK K : /\ FileOK(K, AddedDays, disk) /\ FileOK(K, AddedDays, Flushed)
               /\ Holds(K, AddedDays, Len(Flushed.nodes), mem)
  BY <1>1 DEF IndexInv
<1>3. Owners(K, AddedDays) /\ (~mem.open => ClosedOK(mem))
  BY <1>2, MemoryClosed DEF Holds
<1>4. heap.days \subseteq Days
  BY DEF Init, CleanHeap
<1>5. added \in Seq(Clips) /\ (pending = <<>> \/ pending = <<pending[1]>>)
  BY <1>1 DEF IndexInv
<1> QED  BY <1>1, <1>2, <1>3, <1>4, <1>5 DEF SharedInv

\* The recorder deletes days of the index only.
LEMMA HeapDays ==
  ASSUME SharedInv, [Next]_vars
  PROVE  heap'.days \subseteq Days
<1>1. CASE \E c \in Clips : InsertIndex(c)
  <2>1. PICK c \in Clips : InsertIndex(c)
    BY <1>1
  <2> DEFINE n == GetChannelNode(mem)
  <2>2. n.prevDay \in Days \cup {-1}
    <3>1. CASE mem.open
      <4>1. PICK K : FileOK(K, AddedDays, Flushed) /\ Holds(K, AddedDays, Len(Flushed.nodes), mem)
        BY <3>1 DEF SharedInv
      <4>2. mem.writes = <<>> /\ AddedDays \subseteq Days /\ Len(Flushed.nodes) \in Nat
        BY <2>1, <4>1, AddedFacts DEF InsertIndex, SharedInv, FileOK
      <4>3. DOMAIN K \subseteq 1 .. Len(Flushed.nodes)
        BY <3>1, <4>1, <4>2, NothingToWrite
      <4>4. n.prevDay = mem.prevDay
        BY <4>1, <4>2, <4>3, GetChannelNodeHolds
      <4>5. mem.prevDay \in Days \cup {-1}
        BY <4>1 DEF Holds, MemoryOK, Memory
      <4> QED  BY <4>4, <4>5
    <3>2. CASE ~mem.open
      BY <3>2, GetChannelNodeShut DEF SharedInv, ClosedOK, StaysShut
    <3> QED  BY <3>1, <3>2
  <2> HIDE DEF n
  <2>3. heap' = HeapAfter(n, c) /\ heap.days \subseteq Days
    BY <2>1 DEF InsertIndex, n, SharedInv
  <2> QED  BY <2>2, <2>3 DEF HeapAfter, DeletesDay
<1>2. CASE WriteNode \/ WriteFails \/ Restart \/ UNCHANGED vars
  BY <1>2 DEF WriteNode, WriteFails, Restart, vars, SharedInv
<1>3. CASE Crash \/ Exit
  BY <1>3 DEF Crash, Exit, CleanHeap
<1> QED  BY <1>1, <1>2, <1>3 DEF Next

LEMMA NextShared == SharedInv /\ [Next]_vars => SharedInv'
<1> SUFFICES ASSUME SharedInv, [Next]_vars PROVE SharedInv'
  OBVIOUS
<1>1. heap'.days \subseteq Days /\ CountsInv'
  BY HeapDays, NextCounts DEF SharedInv
<1>2. CASE mem.open
  BY <1>1, <1>2, OpenShared, NextIndex, IndexShared
<1>3. CASE ~mem.open
  <2> DEFINE D == AddedDays
  <2>1. PICK K : Owners(K, D) /\ FileOK(K, D, disk) /\ FileOK(K, D, Flushed)
    BY DEF SharedInv
  <2>2. ClosedOK(mem) /\ mem.writes = <<>> /\ K \in Seq(Owner) /\ Extends(K, K)
    BY <1>3, <2>1, ExtendsSelf DEF SharedInv, ClosedOK, Shut, Owners
  <2>3. CASE \E c \in Clips : InsertIndex(c)
    <3>1. PICK c \in Clips : InsertIndex(c)
      BY <2>3
    <3>2. /\ mem' = Inserted(GetChannelNode(mem), c) /\ added' = Append(added, c)
          /\ disk' = disk /\ pending' = pending
      BY <3>1 DEF InsertIndex, Inserted
    <3>3. added' \in Seq(Clips) /\ AddedDays' = D \cup {Day(c.start)} /\ Flushed' = Flushed
      BY <3>2, AddedMore DEF SharedInv, Flushed
    <3>4. ClosedOK(mem') /\ ~mem'.open
      <4>1. ClosedOK(mem')
        BY <2>2, <3>2, InsertedShut
      <4> QED  BY <4>1 DEF ClosedOK, Shut
    <3>5. Owners(K, AddedDays') /\ FileOK(K, AddedDays', disk') /\ FileOK(K, AddedDays', Flushed')
      <4> HIDE DEF D
      <4>1. D \subseteq AddedDays'
        BY <3>3
      <4> QED  BY <2>1, <2>2, <3>2, <3>3, <4>1, FileOn DEF Owners
    <3>6. pending' = <<>> \/ pending' = <<pending'[1]>>
      BY <3>2 DEF SharedInv
    <3> QED  BY <1>1, <3>3, <3>4, <3>5, <3>6 DEF SharedInv
  <2>4. CASE WriteNode \/ WriteFails
    BY <2>2, <2>4 DEF WriteNode, WriteFails
  <2>5. CASE Crash \/ Exit
    <3>1. /\ disk' \in {disk, Flushed} /\ pending' = <<>> /\ mem' = NewMemory(disk') /\ Flushed' = disk'
          /\ added' = added /\ AddedDays' = D
      BY <2>5 DEF Crash, Exit, AddedDays, AddedFiles, Flushed
    <3>2. FileOK(K, D, disk')
      BY <2>1, <3>1
    <3>3. \E L : FileOK(L, D, disk') /\ Holds(L, D, Len(disk'.nodes), NewMemory(disk'))
      BY <2>1, <3>2, NewMemoryHolds
    <3>4. IndexInv'
      BY <3>1, <3>3 DEF SharedInv, IndexInv
    <3> QED  BY <1>1, <3>4, IndexShared
  <2>6. CASE Restart \/ UNCHANGED vars
    <3>1. disk' = disk /\ pending' = pending /\ mem' = mem /\ added' = added
      BY <2>6 DEF Restart, vars
    <3>2. Flushed' = Flushed /\ AddedDays' = AddedDays
      BY <3>1 DEF Flushed, AddedDays, AddedFiles
    <3> QED  BY <1>1, <1>3, <2>1, <2>2, <3>1, <3>2 DEF SharedInv
  <2> QED  BY <2>3, <2>4, <2>5, <2>6 DEF Next
<1> QED  BY <1>2, <1>3

\* A channel that the server appends to the file.
LEMMA AppendChannel ==
  ASSUME NEW K, NEW D, Owners(K, D), NEW d, FileOK(K, D, d), Len(K) = Len(d.nodes)
  PROVE  LET at == Len(d.nodes) + 1
             L == Append(K, Channel)
         IN /\ Owners(L, D) /\ Extends(K, L) /\ Len(L) = at
            /\ FileOK(L, D, [root |-> at, nodes |-> Append(d.nodes, NewChannelBuffer)])
<1> DEFINE F == Len(d.nodes)
           L == Append(K, Channel)
           N == ChannelBuffer \cup YearBuffer \cup DayBuffer
           s == Append(d.nodes, NewChannelBuffer)
           e == [root |-> F + 1, nodes |-> s]
<1>1. K \in Seq(Owner) /\ Channel \in Owner /\ Channel[1] # "day"
  BY DEF Owners, Owner, Channel
<1>2. Owners(L, D)
  BY <1>1, OwnersMore
<1>3. NewChannelBuffer \in N /\ d.nodes \in Seq(N)
  <2>1. d.nodes \in Seq(N)
    <3> HIDE DEF N
    <3> QED  BY DEF FileOK, N
  <2> QED  BY <2>1, NewBuffers
<1> HIDE DEF N
<1>4. /\ F \in Nat /\ DOMAIN K = 1 .. F /\ L \in Seq(Owner) /\ Len(L) = F + 1 /\ DOMAIN L = 1 .. F + 1
      /\ L[F + 1] = Channel /\ \A a \in 1 .. F : L[a] = K[a]
  BY <1>1, <1>3
<1>5. /\ s \in Seq(N) /\ Len(s) = F + 1 /\ DOMAIN s = 1 .. F + 1 /\ DOMAIN d.nodes = 1 .. F
      /\ s[F + 1] = NewChannelBuffer /\ \A a \in 1 .. F : s[a] = d.nodes[a]
  BY <1>3
<1> HIDE DEF L, s
<1>6. Extends(K, L)
  BY <1>1, <1>4 DEF Extends
<1>7. FileOK(L, D, d)
  BY <1>1, <1>4, <1>6, FileOn
<1>8. ASSUME NEW a \in 1 .. F + 1 PROVE Fits(L, D, L[a], s[a]) /\ Refs(L[a], s[a]) \subseteq 1 .. F + 1
  <2>1. CASE a = F + 1
    <3>1. Fits(L, D, Channel, NewChannelBuffer)
      BY NewBuffers
    <3>2. Refs(Channel, NewChannelBuffer) = {}
      BY DEF Refs, Channel, NewChannelBuffer
    <3> QED  BY <1>4, <1>5, <2>1, <3>1, <3>2
  <2>2. CASE a # F + 1
    <3>1. a \in 1 .. F /\ s[a] = d.nodes[a]
      BY <1>4, <1>5, <2>2
    <3>2. Fits(L, D, L[a], d.nodes[a]) /\ Refs(L[a], d.nodes[a]) \subseteq 1 .. F
      BY <1>5, <1>7, <3>1 DEF FileOK
    <3> QED  BY <1>4, <3>1, <3>2
  <2> QED  BY <2>1, <2>2
<1>9. LeadsTo(L, F + 1, Channel) /\ F + 1 \in 0 .. F + 1
  BY <1>4 DEF LeadsTo, Is
<1>10. FileOK(L, D, e)
  <2>1. e.root = F + 1 /\ e.nodes = s
    OBVIOUS
  <2> HIDE DEF e
  <2>2. e = [root |-> e.root, nodes |-> e.nodes]
    BY <2>1 DEF e
  <2>3. Len(s) <= Len(L)
    BY <1>4, <1>5
  <2> QED  BY <1>5, <1>8, <1>9, <2>1, <2>2, <2>3 DEF FileOK, N
<1> QED  BY <1>2, <1>4, <1>6, <1>10 DEF L, s

\* The memory of the recorder, when the end of the file has moved on.
LEMMA EndMoves ==
  ASSUME NEW K, NEW D, NEW F \in Nat, NEW m, Holds(K, D, F, m), m.open, m.writes = <<>>,
         NEW L \in Seq(Owner), Extends(K, L), Owners(L, D), Len(L) = F + 1
  PROVE  Holds(L, D, F + 1, [m EXCEPT !.eof = F + 1])
<1> DEFINE n == [m EXCEPT !.eof = F + 1]
<1>1. MemoryOK(K, D, m) /\ m \in Memory /\ K \in Seq(Owner)
  BY DEF Holds, MemoryOK, Owners
<1>2. /\ n \in Memory /\ n.open = m.open /\ n.last = m.last /\ n.prevDay = m.prevDay /\ n.chan = m.chan
      /\ n.years = m.years /\ n.days = m.days /\ n.root = m.root /\ n.eof = F + 1 /\ n.writes = <<>>
  <2>1. PICK k \in Nat : k = F + 1
    OBVIOUS
  <2>2. [m EXCEPT !.eof = k] \in Memory
    BY <1>1 DEF Memory
  <2>3. n = [m EXCEPT !.eof = k]
    BY <2>1
  <2> HIDE DEF n
  <2> QED  BY <1>1, <2>1, <2>2, <2>3 DEF Memory
<1> HIDE DEF n
<1>3. Keeps(m, n)
  BY <1>2 DEF Keeps
<1>4. LeadsTo(L, n.root, Channel) /\ NodeOK(L, D, Channel, n.chan)
  BY <1>1, <1>2, LeadsOn, NodeOn DEF MemoryOK
<1>5. \A i \in YearIndex : NodeOK(L, D, YearNo(m.chan.buf.base + i), n.years[i])
  BY <1>1, <1>2, NodeOn DEF MemoryOK
<1>6. \A d \in Days : NodeOK(L, D, DayNo(d), n.days[d])
  BY <1>1, <1>2, NodeOn DEF MemoryOK
<1>7. MemoryOK(L, D, n)
  BY <1>1, <1>2, <1>3, <1>4, <1>5, <1>6, MemoryKept
<1>8. QueueOK(L, D, F + 1, n.writes)
  <2>1. DOMAIN L \subseteq 1 .. F + 1
    OBVIOUS
  <2> QED  BY <1>2, <2>1 DEF QueueOK, ThereAt
<1> QED  BY <1>2, <1>7, <1>8 DEF Holds, n

LEMMA SameLength ==
  ASSUME NEW m \in Nat, NEW n \in Nat, n <= m, 1 .. m \subseteq 1 .. n
  PROVE  m = n
<1> SUFFICES ASSUME m > n PROVE FALSE
  OBVIOUS
<1>1. m \in 1 .. m
  OBVIOUS
<1> QED  BY <1>1

LEMMA CreateShared ==
  ASSUME SharedInv, NEW c, CreateChannel(c)
  PROVE  SharedInv'
<1> DEFINE D == AddedDays
           F == Len(disk.nodes)
           e == [root |-> F + 1, nodes |-> Append(disk.nodes, NewChannelBuffer)]
<1>1. /\ mem.writes = <<>> /\ pending = <<>> /\ Flushed = disk
      /\ disk' = e /\ mem' = IF up THEN [mem EXCEPT !.eof = F + 1] ELSE NewMemory(e)
      /\ pending' = pending /\ heap' = heap /\ up' = up /\ added' = added /\ faults' = faults
  BY DEF CreateChannel, Flushed
<1>2. PICK K : /\ Owners(K, D) /\ FileOK(K, D, disk)
               /\ mem.open => Holds(K, D, F, mem)
  BY <1>1 DEF SharedInv
<1>3. F \in Nat /\ F <= Len(K) /\ Len(K) \in Nat /\ DOMAIN K = 1 .. Len(K) /\ K \in Seq(Owner) /\ Len(e.nodes) = F + 1
  <2> DEFINE N == ChannelBuffer \cup YearBuffer \cup DayBuffer
  <2>1. disk.nodes \in Seq(N)
    <3> HIDE DEF N
    <3> QED  BY <1>2 DEF FileOK, N
  <2> HIDE DEF N
  <2> QED  BY <1>2, <2>1 DEF FileOK, Owners
<1>4. AddedDays' = D /\ Flushed' = disk' /\ pending' = <<>> /\ added' \in Seq(Clips)
  BY <1>1 DEF AddedDays, AddedFiles, Flushed, SharedInv
<1>5. heap'.days \subseteq Days /\ CountsInv'
  BY <1>1 DEF SharedInv, CountsInv
<1> HIDE DEF e
<1>6. CASE up /\ mem.open
  <2>1. DOMAIN K \subseteq 1 .. F
    BY <1>1, <1>2, <1>3, <1>6, NothingToWrite
  <2>2. Len(K) = F
    <3>1. 1 .. Len(K) \subseteq 1 .. F
      BY <1>3, <2>1
    <3> QED  BY <1>3, <3>1, SameLength
  <2>3. PICK L : L = Append(K, Channel)
    OBVIOUS
  <2>4. Owners(L, D) /\ Extends(K, L) /\ Len(L) = F + 1 /\ FileOK(L, D, e)
    <3>1. LET at == Len(disk.nodes) + 1
              M == Append(K, Channel)
          IN /\ Owners(M, D) /\ Extends(K, M) /\ Len(M) = at
             /\ FileOK(M, D, [root |-> at, nodes |-> Append(disk.nodes, NewChannelBuffer)])
      BY <1>2, <2>2, AppendChannel
    <3> QED  BY <2>3, <3>1 DEF e
  <2>5. L \in Seq(Owner)
    BY <2>4 DEF Owners
  <2>6. Holds(L, D, F + 1, mem')
    BY <1>1, <1>2, <1>3, <1>6, <2>4, <2>5, EndMoves
  <2>7. IndexInv'
    BY <1>1, <1>3, <1>4, <2>4, <2>6 DEF IndexInv
  <2> QED  BY <1>5, <2>7, IndexShared
<1>7. CASE ~(up /\ mem.open)
  <2>1. PICK M : FileOK(M, D, disk) /\ Owners(M, D) /\ Len(M) = F
    <3>1. PICK M : /\ FileOK(M, D, disk) /\ Holds(M, D, F, NewMemory(disk)) /\ M = FirstOf(K, F)
      BY <1>2, NewMemoryIs
    <3>2. Owners(M, D)
      BY <3>1 DEF Holds
    <3>3. Len(M) = F
      <4>1. M \in Seq(Owner) /\ DOMAIN M = 1 .. F
        BY <3>1, <3>2 DEF Owners, FirstOf
      <4> QED  BY <1>3, <4>1
    <3> QED  BY <3>1, <3>2, <3>3
  <2>2. PICK L : Owners(L, D) /\ FileOK(L, D, e)
    <3>1. LET at == Len(disk.nodes) + 1
              J == Append(M, Channel)
          IN /\ Owners(J, D) /\ Extends(M, J) /\ Len(J) = at
             /\ FileOK(J, D, [root |-> at, nodes |-> Append(disk.nodes, NewChannelBuffer)])
      BY <2>1, AppendChannel
    <3> QED  BY <3>1 DEF e
  <2>3. CASE ~up
    <3>1. \E J : FileOK(J, D, e) /\ Holds(J, D, Len(e.nodes), NewMemory(e))
      BY <2>2, NewMemoryHolds
    <3>2. IndexInv'
      BY <1>1, <1>4, <2>3, <3>1 DEF IndexInv
    <3> QED  BY <1>5, <3>2, IndexShared
  <2>4. CASE up
    <3>1. ClosedOK(mem) /\ mem' = [mem EXCEPT !.eof = F + 1]
      BY <1>1, <1>7, <2>4 DEF SharedInv
    <3>2. ClosedOK(mem') /\ ~mem'.open
      BY <3>1 DEF ClosedOK, Shut, MemoryFields
    <3> QED  BY <1>1, <1>4, <1>5, <2>2, <3>2 DEF SharedInv
  <2> QED  BY <2>3, <2>4
<1> QED  BY <1>6, <1>7

-----------------------------------------------------------------------------
(* The file gets longer, and while the recorder alone writes it, it grows. *)
LEMMA PutLonger ==
  ASSUME NEW K, NEW D, NEW d, FileOK(K, D, d), NEW w
  PROVE  Len(d.nodes) <= Len(Put(d, w).nodes)
<1> DEFINE N == ChannelBuffer \cup YearBuffer \cup DayBuffer \cup {w.buf}
<1>1. d.nodes \in Seq(N) /\ d = [root |-> d.root, nodes |-> d.nodes]
  <2> DEFINE M == ChannelBuffer \cup YearBuffer \cup DayBuffer
  <2>1. d.nodes \in Seq(M) /\ d = [root |-> d.root, nodes |-> d.nodes]
    <3> HIDE DEF M
    <3> QED  BY DEF FileOK, M
  <2>2. M \subseteq N
    OBVIOUS
  <2> HIDE DEF M, N
  <2> QED  BY <2>1, <2>2
<1>2. w.buf \in N
  OBVIOUS
<1> HIDE DEF N
<1>3. Len(d.nodes) \in Nat /\ Len(Append(d.nodes, w.buf)) = Len(d.nodes) + 1
      /\ \A a \in DOMAIN d.nodes : Len([d.nodes EXCEPT ![a] = w.buf]) = Len(d.nodes)
  BY <1>1, <1>2
<1>4. [d EXCEPT !.root = w.buf].nodes = d.nodes
  BY <1>1
<1>5. [d EXCEPT !.nodes = Append(d.nodes, w.buf)].nodes = Append(d.nodes, w.buf)
  BY <1>1
<1>6. [d EXCEPT !.nodes[w.at] = w.buf].nodes = [d.nodes EXCEPT ![w.at] = w.buf]
  BY <1>1
<1> QED  BY <1>3, <1>4, <1>5, <1>6 DEF Put

LEMMA LongerFile ==
  ASSUME SharedInv, [Next]_vars
  PROVE  Len(disk.nodes) <= Len(disk'.nodes)
<1>1. PICK K : FileOK(K, AddedDays, disk) /\ FileOK(K, AddedDays, Flushed)
  BY DEF SharedInv
<1>2. Len(disk.nodes) \in Nat /\ Len(Flushed.nodes) \in Nat
  BY <1>1 DEF FileOK
<1>3. Len(disk.nodes) <= Len(Flushed.nodes)
  BY <1>1, <1>2, PutLonger DEF Flushed
<1>4. disk' = disk \/ disk' = Flushed \/ \E w : disk' = Put(Flushed, w)
  BY DEF Next, InsertIndex, WriteNode, WriteFails, Crash, Exit, Restart, vars
<1>5. CASE \E w : disk' = Put(Flushed, w)
  <2>1. Len(Flushed.nodes) <= Len(disk'.nodes)
    BY <1>1, <1>5, PutLonger
  <2>2. PICK w : disk' = Put(Flushed, w)
    BY <1>5
  <2>3. Len(disk'.nodes) \in Nat
    <3>1. SharedInv'
      BY NextShared
    <3> QED  BY <3>1 DEF SharedInv, FileOK
  <2> QED  BY <1>2, <1>3, <2>1, <2>3
<1> QED  BY <1>2, <1>3, <1>4, <1>5

\* What holds while the server has made no channel of its own.
RecorderInv == IndexInv /\ CountsInv /\ LinkInv /\ LossInv

LEMMA InitRecorder == Init => RecorderInv
BY InitIndex, InitCounts, InitLinks, InitLoss DEF RecorderInv

LEMMA NextRecorder == RecorderInv /\ [Next]_vars => RecorderInv'
BY NextIndex, NextCounts, NextLinks, NextLoss DEF RecorderInv

LEMMA FileGrowsOn ==
  ASSUME NEW d \in IndexFile, NEW e \in IndexFile, NEW f \in IndexFile, FileGrows(d, e), FileGrows(e, f)
  PROVE  FileGrows(d, f)
<1>1. Len(d.nodes) \in Nat /\ Len(e.nodes) \in Nat /\ Len(f.nodes) \in Nat
  BY DEF IndexFile
<1>2. \A a \in 1 .. Len(d.nodes) : Below(d.nodes[a], f.nodes[a])
  <2> SUFFICES ASSUME NEW a \in 1 .. Len(d.nodes) PROVE Below(d.nodes[a], f.nodes[a])
    OBVIOUS
  <2>1. a \in 1 .. Len(e.nodes)
    BY <1>1 DEF FileGrows
  <2> QED  BY <2>1, BelowOn DEF FileGrows
<1> QED  BY <1>1, <1>2 DEF FileGrows

LEMMA DiskGrows ==
  ASSUME RecorderInv, [Next]_vars
  PROVE  FileGrows(disk, disk')
<1>1. disk \in IndexFile /\ Flushed \in IndexFile /\ FileGrows(disk, Flushed)
  BY FileIs DEF RecorderInv, IndexInv, LossInv, InFile
<1>2. FileGrows(disk, disk)
  BY <1>1, GrowsSelf
<1>3. CASE WriteNode
  <2> DEFINE w == Head(mem.writes)
  <2>1. mem.open /\ mem.writes # <<>> /\ mem.writes \in Seq(Write)
    <3>1. mem.writes # <<>>
      BY <1>3 DEF WriteNode
    <3> QED  BY <3>1, MemoryParts DEF RecorderInv, IndexInv, Holds, MemoryOK
  <2>2. PICK A : Becomes(Flushed, mem.writes, A)
    BY <2>1 DEF RecorderInv, LossInv, InMemory
  <2>3. FileGrows(Flushed, Put(Flushed, w))
    BY <2>1, <2>2, BecomesNext
  <2>4. disk' = Flushed \/ disk' = Put(Flushed, w)
    BY <1>3 DEF WriteNode
  <2>5. RecorderInv'
    BY NextRecorder
  <2>6. disk' \in IndexFile
    BY <2>5, FileIs DEF RecorderInv, IndexInv
  <2> HIDE DEF w
  <2> QED  BY <1>1, <2>3, <2>4, <2>6, FileGrowsOn
<1>4. CASE WriteFails \/ Exit
  BY <1>1, <1>2, <1>4 DEF WriteFails, Exit
<1>5. CASE (\E c \in Clips : InsertIndex(c)) \/ Crash \/ Restart \/ UNCHANGED vars
  <2>1. disk' = disk
    BY <1>5 DEF InsertIndex, Crash, Restart, vars
  <2> QED  BY <1>2, <2>1
<1> QED  BY <1>3, <1>4, <1>5 DEF Next

-----------------------------------------------------------------------------
(* The nodes of the server, and the searches that are under way.           *)
SearchFields == {"at", "time", "dir", "year", "day", "found", "wild", "covering"}

SearchOK(s) ==
  /\ SearchFields \subseteq DOMAIN s
  /\ s.year \in YearIndex /\ s.day \in DayIndex
  /\ s.time \in Nat /\ s.dir \in Directions

NodeTypes ==
  /\ root \in -1 .. Len(disk.nodes)
  /\ chan.seek \in 0 .. Len(disk.nodes) /\ chan.key \in {0, 1}
  /\ chan.key = 1 => chan.loaded
  /\ DOMAIN years = YearIndex /\ DOMAIN days = YearIndex \X DayIndex

SearchesOK ==
  /\ DOMAIN search = Searchers /\ search = [c \in Searchers |-> search[c]]
  /\ \A c \in Searchers : SearchOK(search[c])

ReaderTypes == NodeTypes /\ SearchesOK /\ using \subseteq Searchers

\* A search has loaded the nodes that it has come through, and found nothing yet.
HasLoaded(s) ==
  /\ s.at # "done" => s.found = NoFile
  /\ s.at = "channel" => root # -1
  /\ s.at \in {"year", "day", "file"} => chan.loaded
  /\ s.at \in {"day", "file"} => years[s.year].loaded
  /\ s.at = "file" => days[<<s.year, s.day>>].loaded

Underway == \A c \in Searchers : HasLoaded(search[c])

\* No step takes a node away.
NodesStay ==
  /\ root # -1 => root' # -1
  /\ chan.loaded => chan'.loaded
  /\ \A i \in YearIndex : years[i].loaded => years'[i].loaded
  /\ \A i \in YearIndex, j \in DayIndex : days[<<i, j>>].loaded => days'[<<i, j>>].loaded

LEMMA LoadedStays ==
  ASSUME NodesStay, NEW s, SearchOK(s), HasLoaded(s)
  PROVE  HasLoaded(s)'
BY DEF NodesStay, SearchOK, HasLoaded

\* A step of session c, which leaves the searches of the others alone.
LEMMA SearchesKept ==
  ASSUME SearchesOK, Underway, NodesStay, NEW c \in Searchers, NEW r, SearchOK(r), HasLoaded(r)',
         search' = [search EXCEPT ![c] = r]
  PROVE  SearchesOK' /\ Underway'
<1>1. /\ DOMAIN search' = Searchers /\ search'[c] = r
      /\ \A x \in Searchers : x # c => search'[x] = search[x]
  BY DEF SearchesOK
<1>2. ASSUME NEW x \in Searchers PROVE SearchOK(search'[x]) /\ HasLoaded(search[x])'
  <2>1. CASE x = c
    BY <1>1, <2>1 DEF HasLoaded
  <2>2. CASE x # c
    <3>1. PICK s : s = search[x]
      OBVIOUS
    <3>2. SearchOK(s) /\ HasLoaded(s) /\ search'[x] = s
      BY <1>1, <2>2, <3>1 DEF SearchesOK, Underway
    <3>3. HasLoaded(s)'
      BY <3>2, LoadedStays
    <3> QED  BY <3>2, <3>3 DEF HasLoaded
  <2> QED  BY <2>1, <2>2
<1>3. \A x \in Searchers : SearchOK(search[x])'
  BY <1>2 DEF SearchOK
<1> QED  BY <1>1, <1>2, <1>3 DEF SearchesOK, Underway

LEMMA YearPicked ==
  ASSUME NEW b, NEW t, NEW i, i = YearForwardly(b, t) \/ i = YearBackwardly(b, t)
  PROVE  i = -1 \/ (i \in YearIndex /\ b.base # 0 /\ (years[i].loaded \/ b.table[i] # 0))
<1> DEFINE from == IF Year(t) <= b.base THEN 0 ELSE Year(t) - b.base
           index == Year(t) - b.base
           to == IF index \in YearIndex THEN index ELSE YearCap - 1
           A == {k \in YearIndex : from <= k /\ k <= b.last /\ (years[k].loaded \/ b.table[k] # 0)}
           B == {k \in YearIndex : b.first <= k /\ k <= to /\ (years[k].loaded \/ b.table[k] # 0)}
<1>1. YearCap - 1 \in Nat /\ A \in SUBSET (0 .. YearCap - 1) /\ B \in SUBSET (0 .. YearCap - 1)
  BY PositiveSizes DEF YearIndex
<1>2. YearForwardly(b, t) = IF b.base = 0 THEN -1 ELSE FirstFrom(A)
  BY DEF YearForwardly
<1>3. YearBackwardly(b, t) = IF b.base = 0 \/ b.first = -1 THEN -1 ELSE LastTo(B)
  BY DEF YearBackwardly
<1>4. \A k \in A \cup B : k \in YearIndex /\ (years[k].loaded \/ b.table[k] # 0)
  OBVIOUS
<1> HIDE DEF A, B
<1>5. Pick("forward", A) \in A \cup {-1} /\ Pick("backward", B) \in B \cup {-1}
  BY <1>1, PickIn
<1>6. FirstFrom(A) \in A \cup {-1} /\ LastTo(B) \in B \cup {-1}
  BY <1>5 DEF Pick
<1> QED  BY <1>2, <1>3, <1>4, <1>6

LEMMA DayPicked ==
  ASSUME NEW y, NEW b, NEW t, NEW i, i = DayForwardly(y, b, t) \/ i = DayBackwardly(y, b, t)
  PROVE  i = -1 \/ (i \in DayIndex /\ (days[<<y, i>>].loaded \/ b.table[i] # 0))
<1> DEFINE from == IF t <= YearStart(y) THEN 0 ELSE (t - YearStart(y)) \div DayLen
           last == IF t >= YearEnd(y) THEN YearEnd(y) - 1 ELSE t
           to == (last - YearStart(y)) \div DayLen
           A == {k \in DayIndex : from <= k /\ k <= b.last /\ (days[<<y, k>>].loaded \/ b.table[k] # 0)}
           B == {k \in DayIndex : b.first <= k /\ k <= to /\ (days[<<y, k>>].loaded \/ b.table[k] # 0)}
<1>1. YearDays - 1 \in Nat /\ A \in SUBSET (0 .. YearDays - 1) /\ B \in SUBSET (0 .. YearDays - 1)
  BY PositiveSizes DEF DayIndex
<1>2. DayForwardly(y, b, t) = IF t >= YearEnd(y) THEN -1 ELSE FirstFrom(A)
  BY DEF DayForwardly
<1>3. DayBackwardly(y, b, t) = IF t < YearStart(y) \/ b.first = -1 THEN -1 ELSE LastTo(B)
  BY DEF DayBackwardly
<1>4. \A k \in A \cup B : k \in DayIndex /\ (days[<<y, k>>].loaded \/ b.table[k] # 0)
  OBVIOUS
<1> HIDE DEF A, B
<1>5. Pick("forward", A) \in A \cup {-1} /\ Pick("backward", B) \in B \cup {-1}
  BY <1>1, PickIn
<1>6. FirstFrom(A) \in A \cup {-1} /\ LastTo(B) \in B \cup {-1}
  BY <1>5 DEF Pick
<1> QED  BY <1>2, <1>3, <1>4, <1>6

LEMMA DiskTypes ==
  ASSUME SharedInv
  PROVE  /\ Len(disk.nodes) \in Nat /\ disk.root \in 0 .. Len(disk.nodes)
         /\ DOMAIN disk.nodes = 1 .. Len(disk.nodes)
BY DEF SharedInv, FileOK

LEMMA InitReader == SearchInit => ReaderTypes /\ Underway
<1> SUFFICES ASSUME SearchInit PROVE ReaderTypes /\ Underway
  OBVIOUS
<1>1. /\ root = -1 /\ chan = NoEntry /\ Len(disk.nodes) \in Nat
      /\ DOMAIN years = YearIndex /\ DOMAIN days = YearIndex \X DayIndex
  <2>1. SharedInv
    BY InitShared DEF SearchInit
  <2> QED  BY <2>1, DiskTypes DEF SearchInit
<1>2. 0 \in YearIndex /\ 0 \in DayIndex
  BY PositiveSizes DEF YearIndex, DayIndex
<1>3. SearchOK(NoSearch) /\ HasLoaded(NoSearch)
  BY <1>2 DEF SearchOK, HasLoaded, NoSearch, SearchFields, Directions
<1>4. search = [c \in Searchers |-> NoSearch] /\ using = {}
  BY DEF SearchInit
<1>5. NodeTypes
  BY <1>1 DEF NodeTypes, NoEntry
<1> QED  BY <1>3, <1>4, <1>5 DEF ReaderTypes, SearchesOK, Underway

\* What a new search is.
LEMMA SearchBegun ==
  ASSUME NEW t \in Requests, NEW dir \in Directions, NEW s, s = Begun(t, dir)
  PROVE  SearchOK(s) /\ s.at = "channel" /\ s.found = NoFile
<1>1. 0 \in YearIndex /\ 0 \in DayIndex
  BY PositiveSizes DEF YearIndex, DayIndex
<1> QED  BY <1>1, FileSearchAssumption DEF Begun, NoSearch, SearchFields, SearchOK

\* A step of a session that goes on to another place of its search.
GoesOn(c, at) == search' = [search EXCEPT ![c].at = at]

LEMMA GoneOn ==
  ASSUME SearchesOK, NEW c \in Searchers, NEW at, GoesOn(c, at), NEW s, s = search[c],
         NEW r, r = [s EXCEPT !.at = at]
  PROVE  /\ SearchOK(r) /\ search' = [search EXCEPT ![c] = r]
         /\ r.at = at /\ r.found = s.found /\ r.year = s.year /\ r.day = s.day
         /\ r.time = s.time /\ r.dir = s.dir
<1>1. SearchOK(s)
  BY DEF SearchesOK
<1> QED  BY <1>1 DEF SearchesOK, SearchOK, SearchFields, GoesOn

\* The steps of a session between those that read a node.
Passes(c) ==
  \/ \E t \in Requests, dir \in Directions : BeginSearch(c, t, dir)
  \/ Use(c) \/ FollowLink(c) \/ ReadLink(c)

LEMMA PassedBy ==
  ASSUME SearchesOK, Underway, NEW c \in Searchers, Passes(c)
  PROVE  /\ UNCHANGED <<vars, root, chan, years, days>> /\ using' \subseteq using \cup {c}
         /\ \E r : /\ SearchOK(r) /\ search' = [search EXCEPT ![c] = r]
                   /\ r = search[c] \/ (r.at \in {"idle", "channel", "link"} /\ r.found = NoFile /\ (r.at = "channel" => root # -1))
<1>1. PICK s : s = search[c]
  OBVIOUS
<1>2. SearchOK(s) /\ HasLoaded(s) /\ search = [search EXCEPT ![c] = s]
  BY <1>1 DEF SearchesOK, Underway
<1>3. CASE \E t \in Requests, dir \in Directions : BeginSearch(c, t, dir)
  <2>1. PICK t \in Requests, dir \in Directions : BeginSearch(c, t, dir)
    BY <1>3
  <2>2. PICK r : r = Begun(t, dir)
    OBVIOUS
  <2>3. /\ UNCHANGED <<vars, root, chan, years, days>> /\ using' = using \cup {c}
        /\ search' = [search EXCEPT ![c] = r] /\ root # -1
    BY <2>1, <2>2, Zenon DEF BeginSearch
  <2>4. SearchOK(r) /\ r.at = "channel" /\ r.found = NoFile
    BY <2>2, SearchBegun
  <2> QED  BY <2>3, <2>4
<1>4. CASE Use(c)
  <2>1. /\ UNCHANGED <<vars, root, chan, years, days>> /\ using' = using \cup {c} /\ search' = search
    BY <1>4, Zenon DEF Use
  <2> QED  BY <1>1, <1>2, <2>1
<1>5. CASE FollowLink(c)
  <2>1. PICK r : r = [NoSearch EXCEPT !.at = "link"]
    OBVIOUS
  <2>2. /\ UNCHANGED <<vars, root, chan, years, days>> /\ using' = using \cup {c}
        /\ search' = [search EXCEPT ![c] = r]
    BY <1>5, <2>1, Zenon DEF FollowLink
  <2>3. 0 \in YearIndex /\ 0 \in DayIndex
    BY PositiveSizes DEF YearIndex, DayIndex
  <2>4. SearchOK(r) /\ r.at = "link" /\ r.found = NoFile
    BY <2>1, <2>3 DEF NoSearch, SearchOK, SearchFields, Directions
  <2> QED  BY <2>2, <2>4
<1>6. CASE ReadLink(c)
  <2>1. PICK r : r = [s EXCEPT !.at = "idle"]
    OBVIOUS
  <2>2. /\ UNCHANGED <<vars, root, chan, years, days>> /\ using' = {} /\ GoesOn(c, "idle") /\ s.at = "link"
    BY <1>1, <1>6, Zenon DEF ReadLink, Alone, GoesOn
  <2>3. SearchOK(r) /\ search' = [search EXCEPT ![c] = r] /\ r.at = "idle" /\ r.found = s.found
    BY <1>1, <2>1, <2>2, GoneOn
  <2>4. s.found = NoFile
    BY <1>2, <2>2 DEF HasLoaded
  <2> QED  BY <2>2, <2>3, <2>4
<1> QED  BY <1>3, <1>4, <1>5, <1>6 DEF Passes

LEMMA PassTypes ==
  ASSUME ReaderTypes, Underway, NEW c \in Searchers, Passes(c)
  PROVE  ReaderTypes' /\ Underway'
<1>1. PICK r : /\ SearchOK(r) /\ search' = [search EXCEPT ![c] = r]
               /\ r = search[c] \/ (r.at \in {"idle", "channel", "link"} /\ r.found = NoFile /\ (r.at = "channel" => root # -1))
  BY PassedBy DEF ReaderTypes
<1>2. /\ disk' = disk /\ root' = root /\ chan' = chan /\ years' = years /\ days' = days
      /\ using' \subseteq using \cup {c}
  BY PassedBy DEF ReaderTypes, vars
<1>3. NodesStay
  BY <1>2 DEF NodesStay
<1>4. HasLoaded(r)
  BY <1>1 DEF HasLoaded, Underway
<1>5. HasLoaded(r)'
  BY <1>1, <1>3, <1>4, LoadedStays
<1>6. SearchesOK' /\ Underway'
  BY <1>1, <1>3, <1>5, SearchesKept DEF ReaderTypes
<1> QED  BY <1>2, <1>6 DEF ReaderTypes, NodeTypes

LEMMA FindChannelTypes ==
  ASSUME SharedInv, ReaderTypes, Underway, NEW c \in Searchers, FindChannel(c)
  PROVE  ReaderTypes' /\ Underway'
<1>1. /\ disk' = disk /\ root' = root /\ GoesOn(c, "year") /\ (chan.loaded \/ root # 0) /\ using' = {}
      /\ search[c].at = "channel"
  BY Zenon DEF FindChannel, vars, Alone, GoesOn
<1>2. /\ DOMAIN years' = YearIndex /\ DOMAIN days' = YearIndex \X DayIndex
      /\ \A i \in YearIndex : years[i].loaded => years'[i].loaded
      /\ \A i \in YearIndex, j \in DayIndex : days[<<i, j>>].loaded => days'[<<i, j>>].loaded
  <2>1. \A key, at : Keyed(key, at).loaded
    BY DEF Keyed
  <2> DEFINE b == disk.nodes[root]
             y == IF b.last = -1 THEN 0 ELSE b.table[b.last]
             d == IF y = 0 THEN -1 ELSE disk.nodes[y].last
             x == IF d = -1 THEN 0 ELSE disk.nodes[y].table[d]
  <2>8. /\ years' = years \/ years' = [years EXCEPT ![b.last] = Keyed(b.base + b.last, y)]
        /\ days' = days \/ days' = [days EXCEPT ![<<b.last, d>>] = Keyed((b.base + b.last - 1) * YearDays + d, x)]
    BY Zenon DEF FindChannel
  <2> HIDE DEF b, y, d, x
  <2>2. years' = years \/ \E k, key, at : years' = [years EXCEPT ![k] = Keyed(key, at)]
    BY <2>8, Zenon
  <2>3. days' = days \/ \E k, key, at : days' = [days EXCEPT ![k] = Keyed(key, at)]
    BY <2>8, Zenon
  <2>4. DOMAIN years = YearIndex /\ DOMAIN days = YearIndex \X DayIndex
    BY DEF ReaderTypes, NodeTypes
  <2>5. DOMAIN years' = YearIndex /\ \A i \in YearIndex : years[i].loaded => years'[i].loaded
    BY <2>1, <2>2, <2>4
  <2>6. DOMAIN days' = YearIndex \X DayIndex
    BY <2>3, <2>4
  <2>7. \A p \in YearIndex \X DayIndex : days[p].loaded => days'[p].loaded
    BY <2>1, <2>3, <2>4
  <2> QED  BY <2>5, <2>6, <2>7
<1>3. chan'.seek \in 0 .. Len(disk.nodes) /\ chan'.key \in {0, 1} /\ chan'.loaded
  <2>1. CASE chan.loaded
    BY <2>1, Zenon DEF FindChannel, ReaderTypes, NodeTypes
  <2>2. CASE ~chan.loaded
    <3>1. chan' = Keyed(0, root)
      BY <2>2, Zenon DEF FindChannel
    <3>2. root # -1
      BY <1>1 DEF Underway, HasLoaded
    <3> QED  BY <1>1, <2>2, <3>1, <3>2, DiskTypes DEF ReaderTypes, NodeTypes, Keyed
  <2> QED  BY <2>1, <2>2
<1>4. NodesStay
  BY <1>1, <1>2, <1>3 DEF NodesStay
<1>5. PICK s, r : s = search[c] /\ r = [s EXCEPT !.at = "year"]
  OBVIOUS
<1>6. SearchOK(r) /\ search' = [search EXCEPT ![c] = r] /\ r.at = "year" /\ r.found = s.found
  BY <1>1, <1>5, GoneOn DEF ReaderTypes
<1>7. HasLoaded(r)'
  BY <1>1, <1>3, <1>5, <1>6 DEF HasLoaded, Underway
<1>8. SearchesOK' /\ Underway'
  BY <1>4, <1>6, <1>7, SearchesKept DEF ReaderTypes
<1> QED  BY <1>1, <1>2, <1>3, <1>8 DEF ReaderTypes, NodeTypes

LEMMA CreateTypes ==
  ASSUME SharedInv, ReaderTypes, Underway, NEW c \in Searchers, CreateChannel(c)
  PROVE  ReaderTypes' /\ Underway'
<1> DEFINE at == Len(disk.nodes) + 1
<1>1. /\ root' = at /\ chan' = Keyed(1, at) /\ GoesOn(c, "year") /\ years' = years /\ days' = days
      /\ disk'.nodes = Append(disk.nodes, NewChannelBuffer)
      /\ using' = {} /\ search[c].at = "channel"
  BY DEF CreateChannel, Alone, GoesOn
<1>2. Len(disk'.nodes) = at /\ at \in Nat /\ at # -1
  <2> DEFINE N == ChannelBuffer \cup YearBuffer \cup DayBuffer
  <2>1. disk.nodes \in Seq(N)
    <3> HIDE DEF N
    <3> QED  BY DEF SharedInv, FileOK, N
  <2>2. NewChannelBuffer \in N
    BY NewBuffers
  <2> HIDE DEF N
  <2> QED  BY <1>1, <2>1, <2>2
<1> HIDE DEF at
<1>3. chan'.loaded /\ chan'.key = 1 /\ chan'.seek = at
  BY <1>1 DEF Keyed
<1>4. NodesStay
  BY <1>1, <1>2, <1>3 DEF NodesStay
<1>5. PICK s, r : s = search[c] /\ r = [s EXCEPT !.at = "year"]
  OBVIOUS
<1>6. SearchOK(r) /\ search' = [search EXCEPT ![c] = r] /\ r.at = "year" /\ r.found = s.found
  BY <1>1, <1>5, GoneOn DEF ReaderTypes
<1>7. HasLoaded(r)'
  BY <1>1, <1>3, <1>5, <1>6 DEF HasLoaded, Underway
<1>8. SearchesOK' /\ Underway'
  BY <1>4, <1>6, <1>7, SearchesKept DEF ReaderTypes
<1> QED  BY <1>1, <1>2, <1>3, <1>8 DEF ReaderTypes, NodeTypes

LEMMA FindYearTypes ==
  ASSUME SharedInv, ReaderTypes, Underway, NEW c \in Searchers, FindYear(c)
  PROVE  ReaderTypes' /\ Underway'
<1>1. PICK s : s = search[c]
  OBVIOUS
<1>2. SearchOK(s) /\ HasLoaded(s)
  BY <1>1 DEF ReaderTypes, SearchesOK, Underway
<1> DEFINE b == disk.nodes[chan.seek]
           y == IF s.dir = "forward" THEN YearForwardly(b, s.time) ELSE YearBackwardly(b, s.time)
<1>3. /\ disk' = disk /\ root' = root /\ chan' = chan /\ days' = days /\ s.at = "year" /\ using' = {}
      /\ IF y = -1 THEN GoesOn(c, "done") /\ years' = years
         ELSE /\ search' = [search EXCEPT ![c].at = "day", ![c].year = y]
              /\ years' = [years EXCEPT ![y] = Kept(@, Year(s.time), b.table[y])]
  BY <1>1 DEF FindYear, vars, Alone, GoesOn
<1>4. y = -1 \/ y \in YearIndex
  BY YearPicked
<1> HIDE DEF b, y
<1>5. DOMAIN years = YearIndex /\ DOMAIN search = Searchers
  BY DEF ReaderTypes, NodeTypes, SearchesOK
<1>6. CASE y = -1
  <2>1. PICK r : r = [s EXCEPT !.at = "done"]
    OBVIOUS
  <2>2. SearchOK(r) /\ search' = [search EXCEPT ![c] = r] /\ r.at = "done"
    BY <1>1, <1>3, <1>6, <2>1, GoneOn DEF ReaderTypes
  <2>3. HasLoaded(r)' /\ NodesStay
    BY <1>3, <1>6, <2>2 DEF HasLoaded, NodesStay
  <2>4. SearchesOK' /\ Underway'
    BY <2>2, <2>3, SearchesKept DEF ReaderTypes
  <2> QED  BY <1>3, <1>6, <2>4 DEF ReaderTypes, NodeTypes
<1>7. CASE y # -1
  <2>1. /\ DOMAIN years' = YearIndex /\ years'[y].loaded
        /\ \A i \in YearIndex : years[i].loaded => years'[i].loaded
    BY <1>3, <1>4, <1>5, <1>7 DEF Kept, Keyed
  <2>2. PICK r : r = [s EXCEPT !.at = "day", !.year = y]
    OBVIOUS
  <2>3. search' = [search EXCEPT ![c] = r]
    BY <1>1, <1>3, <1>5, <1>7, <2>2
  <2>4. SearchOK(r) /\ r.at = "day" /\ r.year = y /\ r.found = s.found
    BY <1>2, <1>4, <1>7, <2>2 DEF SearchOK, SearchFields
  <2>5. NodesStay
    BY <1>3, <2>1 DEF NodesStay
  <2>6. HasLoaded(r)'
    BY <1>2, <1>3, <2>1, <2>4 DEF HasLoaded
  <2>7. SearchesOK' /\ Underway'
    BY <2>3, <2>4, <2>5, <2>6, SearchesKept DEF ReaderTypes
  <2> QED  BY <1>3, <2>1, <2>7 DEF ReaderTypes, NodeTypes
<1> QED  BY <1>6, <1>7

LEMMA FindDayTypes ==
  ASSUME SharedInv, ReaderTypes, Underway, NEW c \in Searchers, FindDay(c)
  PROVE  ReaderTypes' /\ Underway'
<1>1. PICK s : s = search[c]
  OBVIOUS
<1>2. SearchOK(s) /\ HasLoaded(s)
  BY <1>1 DEF ReaderTypes, SearchesOK, Underway
<1>3. PICK y : y = s.year
  OBVIOUS
<1> DEFINE b == disk.nodes[years[y].seek]
           d == IF s.dir = "forward" THEN DayForwardly(y, b, s.time) ELSE DayBackwardly(y, b, s.time)
<1>4. /\ disk' = disk /\ root' = root /\ chan' = chan /\ years' = years /\ s.at = "day" /\ using' = {}
      /\ IF d = -1 THEN GoesOn(c, "done") /\ days' = days
         ELSE /\ search' = [search EXCEPT ![c].at = "file", ![c].day = d]
              /\ days' = [days EXCEPT ![<<y, d>>] = Kept(@, Day(s.time), b.table[d])]
  BY <1>1, <1>3, Zenon DEF FindDay, vars, Alone, GoesOn
<1>5. d = -1 \/ d \in DayIndex
  BY DayPicked
<1> HIDE DEF b, d
<1>6. DOMAIN days = YearIndex \X DayIndex /\ DOMAIN search = Searchers
  BY DEF ReaderTypes, NodeTypes, SearchesOK
<1>7. y \in YearIndex /\ years[y].loaded
  BY <1>2, <1>3, <1>4 DEF SearchOK, HasLoaded
<1>8. CASE d = -1
  <2>1. PICK r : r = [s EXCEPT !.at = "done"]
    OBVIOUS
  <2>2. SearchOK(r) /\ search' = [search EXCEPT ![c] = r] /\ r.at = "done"
    BY <1>1, <1>4, <1>8, <2>1, GoneOn DEF ReaderTypes
  <2>3. HasLoaded(r)' /\ NodesStay
    BY <1>4, <1>8, <2>2 DEF HasLoaded, NodesStay
  <2>4. SearchesOK' /\ Underway'
    BY <2>2, <2>3, SearchesKept DEF ReaderTypes
  <2> QED  BY <1>4, <1>8, <2>4 DEF ReaderTypes, NodeTypes
<1>9. CASE d # -1
  <2>1. /\ DOMAIN days' = YearIndex \X DayIndex /\ days'[<<y, d>>].loaded
        /\ \A p \in YearIndex \X DayIndex : days[p].loaded => days'[p].loaded
    BY <1>4, <1>5, <1>6, <1>7, <1>9 DEF Kept, Keyed
  <2>2. PICK r : r = [s EXCEPT !.at = "file", !.day = d]
    OBVIOUS
  <2>3. search' = [search EXCEPT ![c] = r]
    BY <1>1, <1>4, <1>6, <1>9, <2>2
  <2>4. SearchOK(r) /\ r.at = "file" /\ r.year = y /\ r.day = d /\ r.found = s.found
    BY <1>2, <1>3, <1>5, <1>9, <2>2 DEF SearchOK, SearchFields
  <2>5. NodesStay
    BY <1>4, <2>1 DEF NodesStay
  <2>6. HasLoaded(r)'
    BY <1>2, <1>4, <1>7, <2>1, <2>4 DEF HasLoaded
  <2>7. SearchesOK' /\ Underway'
    BY <2>3, <2>4, <2>5, <2>6, SearchesKept DEF ReaderTypes
  <2> QED  BY <1>4, <2>1, <2>7 DEF ReaderTypes, NodeTypes
<1> QED  BY <1>8, <1>9

LEMMA FindFileTypes ==
  ASSUME SharedInv, ReaderTypes, Underway, NEW c \in Searchers, FindFile(c)
  PROVE  ReaderTypes' /\ Underway'
<1>1. disk' = disk /\ root' = root /\ chan' = chan /\ years' = years /\ days' = days /\ using' = {}
  BY DEF FindFile, vars, Alone
<1>2. PICK f, w : search' = [search EXCEPT ![c].at = "done", ![c].found = f, ![c].wild = w]
  BY DEF FindFile
<1>3. PICK s, r : s = search[c] /\ r = [s EXCEPT !.at = "done", !.found = f, !.wild = w]
  OBVIOUS
<1>4. SearchOK(s) /\ DOMAIN search = Searchers
  BY <1>3 DEF ReaderTypes, SearchesOK
<1>5. search' = [search EXCEPT ![c] = r]
  BY <1>2, <1>3, <1>4
<1>6. SearchOK(r) /\ r.at = "done"
  BY <1>3, <1>4 DEF SearchOK, SearchFields
<1>7. HasLoaded(r)' /\ NodesStay
  BY <1>1, <1>6 DEF HasLoaded, NodesStay
<1>8. SearchesOK' /\ Underway'
  BY <1>5, <1>6, <1>7, SearchesKept DEF ReaderTypes
<1> QED  BY <1>1, <1>8 DEF ReaderTypes, NodeTypes

\* The steps of a session that read a node of the index.
Reads(c) == FindChannel(c) \/ FindYear(c) \/ FindDay(c) \/ FindFile(c)

LEMMA ReadsOnly ==
  ASSUME NEW c, Reads(c)
  PROVE  UNCHANGED <<vars, root>>
BY Zenon DEF Reads, FindChannel, FindYear, FindDay, FindFile

LEMMA StepOfSession ==
  ASSUME \E c \in Searchers :
           \/ \E t \in Requests, dir \in Directions : BeginSearch(c, t, dir)
           \/ Use(c)
           \/ FindChannel(c) \/ CreateChannel(c) \/ FindYear(c) \/ FindDay(c) \/ FindFile(c)
           \/ FollowLink(c) \/ ReadLink(c)
  PROVE  \E c \in Searchers : Passes(c) \/ CreateChannel(c) \/ Reads(c)
BY Zenon DEF Passes, Reads

LEMMA ReaderNext ==
  ASSUME SharedInv, ReaderTypes, Underway, [SearchNext]_searchVars
  PROVE  SharedInv' /\ ReaderTypes' /\ Underway'
<1>1. CASE ([Next]_vars) /\ UNCHANGED reader
  <2>1. SharedInv'
    BY <1>1, NextShared
  <2>2. Len(disk.nodes) <= Len(disk'.nodes) /\ Len(disk.nodes) \in Nat /\ Len(disk'.nodes) \in Nat
    <3>1. Len(disk'.nodes) \in Nat
      BY <2>1 DEF SharedInv, FileOK
    <3> QED  BY <1>1, <3>1, LongerFile, DiskTypes
  <2>3. /\ root' = root /\ chan' = chan /\ years' = years /\ days' = days /\ search' = search
        /\ using' = using
    BY <1>1 DEF reader
  <2>4. NodeTypes'
    BY <2>2, <2>3 DEF ReaderTypes, NodeTypes
  <2>5. SearchesOK' /\ Underway' /\ using' \subseteq Searchers
    BY <2>3, Zenon DEF ReaderTypes, SearchesOK, SearchOK, Underway, HasLoaded
  <2> QED  BY <2>1, <2>4, <2>5 DEF ReaderTypes
<1>2. CASE StartServer
  <2>1. /\ [Next]_vars /\ disk' = disk /\ root' = disk.root /\ using' = using
        /\ chan' = chan /\ years' = years /\ days' = days /\ search' = search
    BY <1>2 DEF StartServer, vars
  <2>2. NodeTypes' /\ root' # -1
    BY <2>1, DiskTypes DEF ReaderTypes, NodeTypes
  <2>3. Underway' /\ SearchesOK' /\ using' \subseteq Searchers
    BY <2>1, <2>2, Zenon DEF ReaderTypes, SearchesOK, SearchOK, Underway, HasLoaded
  <2> QED  BY <2>1, <2>2, <2>3, NextShared DEF ReaderTypes
<1>3. ASSUME NEW c \in Searchers, Passes(c) PROVE SharedInv' /\ ReaderTypes' /\ Underway'
  <2>1. [Next]_vars
    BY <1>3, PassedBy DEF ReaderTypes, vars
  <2> QED  BY <1>3, <2>1, NextShared, PassTypes
<1>4. ASSUME NEW c \in Searchers, CreateChannel(c) PROVE SharedInv' /\ ReaderTypes' /\ Underway'
  BY <1>4, CreateShared, CreateTypes
<1>5. ASSUME NEW c \in Searchers, Reads(c) PROVE SharedInv' /\ ReaderTypes' /\ Underway'
  <2>1. [Next]_vars
    BY <1>5, ReadsOnly
  <2>2. ReaderTypes' /\ Underway'
    BY <1>5, FindChannelTypes, FindYearTypes, FindDayTypes, FindFileTypes DEF Reads
  <2> QED  BY <2>1, <2>2, NextShared
<1>6. CASE UNCHANGED searchVars
  <2>1. ([Next]_vars) /\ UNCHANGED reader
    BY <1>6 DEF searchVars
  <2> QED  BY <1>1, <2>1
<1> QED  BY <1>1, <1>2, <1>3, <1>4, <1>5, <1>6, StepOfSession, Zenon DEF SearchNext

(* The nodes that the server asks for are in the file, and the indices of  *)
(* a search are those of its tables, although the file that it searches is *)
(* written by another process, or by itself.                               *)
THEOREM SearchTypes == SearchSpec => []SearchTypeOK
<1>1. SearchInit => SharedInv /\ ReaderTypes /\ Underway
  BY InitShared, InitReader DEF SearchInit
<1>2. SharedInv /\ ReaderTypes /\ Underway /\ [SearchNext]_searchVars => (SharedInv /\ ReaderTypes /\ Underway)'
  BY ReaderNext
<1>3. SharedInv /\ ReaderTypes => SearchTypeOK
  <2> SUFFICES ASSUME SharedInv, ReaderTypes PROVE SearchTypeOK
    OBVIOUS
  <2>1. PICK K : FileOK(K, AddedDays, disk) /\ (mem.open => Holds(K, AddedDays, Len(Flushed.nodes), mem))
    BY DEF SharedInv
  <2>2. \A a \in DOMAIN disk.nodes : disk.nodes[a].kind \in {"channel", "year", "day"}
    <3> SUFFICES ASSUME NEW b \in ChannelBuffer \cup YearBuffer \cup DayBuffer
                 PROVE  b.kind \in {"channel", "year", "day"}
      BY <2>1 DEF FileOK
    <3> QED  BY DEF ChannelBuffer, YearBuffer, DayBuffer
  <2>3. Len(pending) <= 1
    <3>1. pending = <<>> \/ \E w : pending = <<w>>
      BY DEF SharedInv
    <3>2. Len(<<>>) <= 1 /\ \A w : Len(<<w>>) <= 1
      OBVIOUS
    <3> QED  BY <3>1, <3>2
  <2>4. mem.last.day \in Days \cup {-1}
    <3>1. CASE mem.open
      BY <2>1, <3>1 DEF Holds, MemoryOK, Memory, File
    <3>2. CASE ~mem.open
      BY <3>2 DEF SharedInv, ClosedOK
    <3> QED  BY <3>1, <3>2
  <2>5. TypeOK
    BY <2>2, <2>3, <2>4, DiskTypes, AddedFacts DEF SharedInv, CountsInv, TypeOK
  <2> QED  BY <2>5 DEF SearchTypeOK, ReaderTypes, NodeTypes, SearchesOK, SearchOK
<1> QED  BY <1>1, <1>2, <1>3, PTL DEF SearchSpec

-----------------------------------------------------------------------------
(* The server that has made no channel of its own: the nodes that it has   *)
(* loaded are those of the tables.                                         *)
KnownYear(i) ==
  years[i].loaded =>
    /\ chan.loaded /\ disk.nodes[chan.seek].base # 0
    /\ years[i].seek # 0 /\ years[i].seek = disk.nodes[chan.seek].table[i]
KnownDay(i, j) ==
  days[<<i, j>>].loaded =>
    /\ years[i].loaded
    /\ days[<<i, j>>].seek # 0 /\ days[<<i, j>>].seek = disk.nodes[years[i].seek].table[j]

ServerInv ==
  /\ root \in {-1, 0, disk.root}
  /\ chan.loaded => chan.seek = disk.root /\ disk.root # 0
  /\ \A i \in YearIndex : KnownYear(i)
  /\ \A i \in YearIndex, j \in DayIndex : KnownDay(i, j)

\* The kinds of the nodes that are loaded.
LEMMA LoadedKinds ==
  ASSUME SharedInv, ServerInv
  PROVE  /\ chan.loaded => IsNode(disk, chan.seek, "channel")
         /\ \A i \in YearIndex : years[i].loaded => IsNode(disk, years[i].seek, "year")
         /\ \A i \in YearIndex, j \in DayIndex : days[<<i, j>>].loaded => IsNode(disk, days[<<i, j>>].seek, "day")
<1>1. /\ disk.root # 0 => IsNode(disk, disk.root, "channel")
      /\ \A a \in YearsOf(disk) : IsNode(disk, a, "year")
      /\ \A a \in DaysOf(disk) : IsNode(disk, a, "day")
  BY TreeNodes DEF SharedInv
<1>2. \A i \in YearIndex : years[i].loaded => years[i].seek \in YearsOf(disk)
  BY DEF ServerInv, KnownYear, YearsOf
<1>3. \A i \in YearIndex, j \in DayIndex : days[<<i, j>>].loaded => days[<<i, j>>].seek \in DaysOf(disk)
  <2> SUFFICES ASSUME NEW i \in YearIndex, NEW j \in DayIndex, days[<<i, j>>].loaded
               PROVE  days[<<i, j>>].seek \in DaysOf(disk)
    OBVIOUS
  <2>1. years[i].seek \in YearsOf(disk)
    BY <1>2 DEF ServerInv, KnownDay
  <2>2. days[<<i, j>>].seek \in {disk.nodes[years[i].seek].table[k] : k \in DayIndex} \ {0}
    BY DEF ServerInv, KnownDay
  <2> QED  BY <2>1, <2>2 DEF DaysOf
<1> QED  BY <1>1, <1>2, <1>3 DEF ServerInv

\* They stay so while the file grows.
LEMMA ServerGrows ==
  ASSUME SharedInv, ServerInv, FileGrows(disk, disk'), UNCHANGED reader
  PROVE  /\ ServerInv'
         /\ \A i \in YearIndex : years[i].loaded => disk'.nodes[chan.seek].base = disk.nodes[chan.seek].base
<1>1. root' = root /\ chan' = chan /\ years' = years /\ days' = days
  BY DEF reader
<1>2. \A a, k : IsNode(disk, a, k) => Below(disk.nodes[a], disk'.nodes[a])
  BY DiskTypes DEF IsNode, FileGrows
<1>3. disk.root = 0 \/ disk'.root = disk.root
  BY DEF FileGrows
<1>4. ASSUME NEW i \in YearIndex, years[i].loaded
      PROVE  disk'.nodes[chan.seek].base = disk.nodes[chan.seek].base /\ KnownYear(i)'
  <2>1. /\ chan.loaded /\ disk.nodes[chan.seek].base # 0
        /\ years[i].seek # 0 /\ years[i].seek = disk.nodes[chan.seek].table[i]
    BY <1>4 DEF ServerInv, KnownYear
  <2>2. IsNode(disk, chan.seek, "channel")
    BY <2>1, LoadedKinds
  <2>3. Below(disk.nodes[chan.seek], disk'.nodes[chan.seek]) /\ disk.nodes[chan.seek].kind = "channel"
    BY <1>2, <2>2 DEF IsNode
  <2> QED  BY <1>1, <2>1, <2>3 DEF KnownYear, Below
<1>5. ASSUME NEW i \in YearIndex, NEW j \in DayIndex PROVE KnownDay(i, j)'
  <2> SUFFICES ASSUME days[<<i, j>>].loaded PROVE KnownDay(i, j)'
    BY <1>1 DEF KnownDay
  <2>1. /\ years[i].loaded
        /\ days[<<i, j>>].seek # 0 /\ days[<<i, j>>].seek = disk.nodes[years[i].seek].table[j]
    BY DEF ServerInv, KnownDay
  <2>2. IsNode(disk, years[i].seek, "year")
    BY <2>1, LoadedKinds
  <2>3. Below(disk.nodes[years[i].seek], disk'.nodes[years[i].seek]) /\ disk.nodes[years[i].seek].kind = "year"
    BY <1>2, <2>2 DEF IsNode
  <2> QED  BY <1>1, <2>1, <2>3, Zenon DEF KnownDay, Below
<1>6. \A i \in YearIndex : KnownYear(i)'
  BY <1>1, <1>4 DEF KnownYear
<1>7. root' \in {-1, 0, disk'.root} /\ (chan'.loaded => chan'.seek = disk'.root /\ disk'.root # 0)
  BY <1>1, <1>3 DEF ServerInv
<1> QED  BY <1>4, <1>5, <1>6, <1>7 DEF ServerInv

\* A node of the file, by its kind.
LEMMA KindFits ==
  ASSUME NEW K, NEW D, NEW o \in Owner, NEW b, Fits(K, D, o, b)
  PROVE  /\ b.kind = "channel" => /\ o = Channel /\ b \in ChannelBuffer
                                  /\ \A i \in YearIndex : IF b.base = 0 THEN b.table[i] = 0
                                                          ELSE LeadsTo(K, b.table[i], YearNo(b.base + i))
         /\ b.kind = "year" => /\ o[1] = "year" /\ b \in YearBuffer
                               /\ \A j \in DayIndex : LeadsTo(K, b.table[j], DayNo((o[2] - 1) * YearDays + j))
         /\ b.kind = "day" => o[1] = "day" /\ b \in DayBuffer
<1>1. CASE /\ o = Channel /\ b \in ChannelBuffer
           /\ \A i \in YearIndex : IF b.base = 0 THEN b.table[i] = 0
                                   ELSE LeadsTo(K, b.table[i], YearNo(b.base + i))
  <2>1. b.kind = "channel"
    BY <1>1 DEF ChannelBuffer
  <2> QED  BY <1>1, <2>1
<1>2. CASE /\ o[1] = "year" /\ b \in YearBuffer
           /\ \A j \in DayIndex : LeadsTo(K, b.table[j], DayNo((o[2] - 1) * YearDays + j))
  <2>1. b.kind = "year"
    BY <1>2 DEF YearBuffer
  <2> QED  BY <1>2, <2>1
<1>3. CASE o[1] = "day" /\ b \in DayBuffer
  <2>1. b.kind = "day"
    BY <1>3 DEF DayBuffer
  <2> QED  BY <1>3, <2>1
<1> QED  BY <1>1, <1>2, <1>3 DEF Fits

LEMMA NodeFits ==
  ASSUME NEW K, NEW D, NEW d, FileOK(K, D, d), Owners(K, D), NEW a, NEW kind, IsNode(d, a, kind)
  PROVE  Fits(K, D, K[a], d.nodes[a]) /\ K[a] \in Owner /\ a \in DOMAIN K
<1>1. a \in 1 .. Len(d.nodes) /\ Len(d.nodes) <= Len(K) /\ Len(d.nodes) \in Nat
  BY DEF IsNode, FileOK
<1>2. DOMAIN K = 1 .. Len(K) /\ K \in Seq(Owner) /\ Len(K) \in Nat
  BY DEF Owners
<1> QED  BY <1>1, <1>2 DEF FileOK, IsNode

LEMMA StartServerKeeps ==
  ASSUME SharedInv, ReaderTypes, ServerInv, StartServer
  PROVE  ServerInv'
<1>1. disk' = disk /\ root' = disk.root /\ chan' = chan /\ years' = years /\ days' = days
  BY DEF StartServer, vars
<1> QED  BY <1>1 DEF ServerInv, KnownYear, KnownDay

LEMMA FindChannelKeeps ==
  ASSUME SharedInv, ReaderTypes, Underway, ServerInv, NEW c \in Searchers, FindChannel(c)
  PROVE  ServerInv'
<1> DEFINE b == disk.nodes[root]
           y == IF b.last = -1 THEN 0 ELSE b.table[b.last]
           d == IF y = 0 THEN -1 ELSE disk.nodes[y].last
           x == IF d = -1 THEN 0 ELSE disk.nodes[y].table[d]
<1>1. disk' = disk /\ root' = root /\ root # -1 /\ (chan.loaded \/ root # 0)
  BY Zenon DEF FindChannel, vars, Alone, Underway, HasLoaded
<1>2. CASE chan.loaded
  BY <1>1, <1>2, ZenonT(60) DEF FindChannel, ServerInv, KnownYear, KnownDay
<1>3. CASE ~chan.loaded
  <2>1. /\ chan' = Keyed(0, root)
        /\ years' = IF y = 0 THEN years ELSE [years EXCEPT ![b.last] = Keyed(b.base + b.last, y)]
        /\ days' = IF x = 0 THEN days
                   ELSE [days EXCEPT ![<<b.last, d>>] = Keyed((b.base + b.last - 1) * YearDays + d, x)]
    BY <1>3, Zenon DEF FindChannel
  <2>2. root = disk.root /\ disk.root # 0
    BY <1>1, <1>3 DEF ServerInv
  <2>3. chan'.loaded /\ chan'.seek = disk.root
    BY <2>1, <2>2, Zenon DEF Keyed
  <2>4. /\ \A i \in YearIndex : ~years[i].loaded
        /\ \A i \in YearIndex, j \in DayIndex : ~days[<<i, j>>].loaded
    BY <1>3 DEF ServerInv, KnownYear, KnownDay
  <2>5. PICK K : FileOK(K, AddedDays, disk) /\ Owners(K, AddedDays)
    BY DEF SharedInv
  <2>6. /\ b \in ChannelBuffer
        /\ \A i \in YearIndex : IF b.base = 0 THEN b.table[i] = 0 ELSE LeadsTo(K, b.table[i], YearNo(b.base + i))
    <3>1. IsNode(disk, root, "channel")
      BY <2>2, <2>5, TreeNodes
    <3>2. Fits(K, AddedDays, K[root], b) /\ K[root] \in Owner /\ b.kind = "channel"
      BY <2>5, <3>1, NodeFits DEF IsNode
    <3> HIDE DEF b
    <3> QED  BY <3>2, KindFits
  <2>7. y = 0 \/ (b.last \in YearIndex /\ b.base # 0 /\ y # 0 /\ y = b.table[b.last])
    <3> HIDE DEF b
    <3> QED  BY <2>6 DEF ChannelBuffer
  <2>8. CASE y = 0
    <3>1. years' = years /\ days' = days
      BY <2>1, <2>8, Zenon
    <3> QED  BY <1>1, <2>2, <2>3, <2>4, <3>1 DEF ServerInv, KnownYear, KnownDay
  <2>9. CASE y # 0
    <3>1. /\ years' = [years EXCEPT ![b.last] = Keyed(b.base + b.last, y)]
          /\ b.last \in YearIndex /\ b.base # 0 /\ y = b.table[b.last]
          /\ days' = IF x = 0 THEN days
                     ELSE [days EXCEPT ![<<b.last, d>>] = Keyed((b.base + b.last - 1) * YearDays + d, x)]
      BY <2>1, <2>7, <2>9, Zenon
    <3>2. d = disk.nodes[y].last /\ (d = -1 \/ d \in DayIndex)
      <4>1. y \in YearsOf(disk)
        BY <2>2, <2>9, <3>1, Zenon DEF YearsOf
      <4>2. IsNode(disk, y, "year")
        BY <2>5, <4>1, TreeNodes
      <4>3. Fits(K, AddedDays, K[y], disk.nodes[y]) /\ K[y] \in Owner /\ disk.nodes[y].kind = "year"
        BY <2>5, <4>2, NodeFits DEF IsNode
      <4> DEFINE z == disk.nodes[y]
      <4>4. z \in YearBuffer
        <5> HIDE DEF z, y
        <5> QED  BY <4>3, KindFits DEF z
      <4>5. d = z.last
        BY <2>9
      <4> HIDE DEF z, d
      <4>6. d = -1 \/ d \in DayIndex
        BY <4>4, <4>5 DEF YearBuffer
      <4> QED  BY <4>5, <4>6, Zenon DEF z
    <3> DEFINE l == b.last
    <3>3. l \in YearIndex /\ l = b.last
      BY <3>1, Zenon
    <3>4. x = 0 \/ (d \in DayIndex /\ x # 0 /\ x = disk.nodes[y].table[d])
      <4> HIDE DEF d, y
      <4> QED  BY <3>2
    <3> HIDE DEF x, d, y, l
    <3>5. /\ years'[l].loaded /\ years'[l].seek = y
          /\ \A i \in YearIndex : i # l => years'[i] = years[i]
      BY <3>1, <3>3 DEF ReaderTypes, NodeTypes, Keyed
    <3>6. \A i \in YearIndex : KnownYear(i)'
      <4> SUFFICES ASSUME NEW i \in YearIndex, years'[i].loaded PROVE KnownYear(i)'
        BY DEF KnownYear
      <4>1. i = l
        BY <2>4, <3>5
      <4> QED  BY <1>1, <2>2, <2>3, <2>9, <3>1, <3>3, <3>5, <4>1, Zenon DEF KnownYear
    <3>7. \A i \in YearIndex, j \in DayIndex : KnownDay(i, j)'
      <4>1. CASE x = 0
        <5>1. days' = days
          BY <3>1, <4>1
        <5> QED  BY <2>4, <5>1 DEF KnownDay
      <4>2. CASE x # 0
        <5>1. /\ days'[<<l, d>>].seek = x
              /\ \A i \in YearIndex, j \in DayIndex : <<i, j>> # <<l, d>> => days'[<<i, j>>] = days[<<i, j>>]
          BY <3>1, <3>3, <3>4, <4>2, Zenon DEF ReaderTypes, NodeTypes, Keyed
        <5> SUFFICES ASSUME NEW i \in YearIndex, NEW j \in DayIndex, days'[<<i, j>>].loaded PROVE KnownDay(i, j)'
          BY DEF KnownDay
        <5>2. i = l /\ j = d
          BY <2>4, <5>1
        <5> QED  BY <1>1, <3>4, <3>5, <4>2, <5>1, <5>2 DEF KnownDay
      <4> QED  BY <4>1, <4>2
    <3> QED  BY <1>1, <2>2, <2>3, <3>6, <3>7 DEF ServerInv
  <2> QED  BY <2>8, <2>9
<1> QED  BY <1>2, <1>3

LEMMA FindYearKeeps ==
  ASSUME ReaderTypes, Underway, ServerInv, NEW c \in Searchers, FindYear(c)
  PROVE  ServerInv'
<1>0. PICK s : s = search[c]
  OBVIOUS
<1> DEFINE b == disk.nodes[chan.seek]
           y == IF s.dir = "forward" THEN YearForwardly(b, s.time) ELSE YearBackwardly(b, s.time)
<1>1. /\ disk' = disk /\ root' = root /\ chan' = chan /\ days' = days /\ s.at = "year"
      /\ IF y = -1 THEN years' = years
         ELSE years' = [years EXCEPT ![y] = Kept(@, Year(s.time), b.table[y])]
  BY <1>0 DEF FindYear, vars, Alone
<1>2. y = -1 \/ (y \in YearIndex /\ b.base # 0 /\ (years[y].loaded \/ b.table[y] # 0))
  BY YearPicked
<1>3. chan.loaded
  BY <1>0, <1>1 DEF Underway, HasLoaded
<1> HIDE DEF y, b
<1>4. CASE y = -1
  BY <1>1, <1>4 DEF ServerInv, KnownYear, KnownDay
<1>5. CASE y # -1
  <2>1. /\ \A i \in YearIndex : i # y => years'[i] = years[i]
        /\ years'[y] = Kept(years[y], Year(s.time), b.table[y])
    BY <1>1, <1>2, <1>5 DEF ReaderTypes, NodeTypes
  <2>2. b.base = disk.nodes[chan.seek].base /\ b.table = disk.nodes[chan.seek].table
    BY DEF b
  <2>3. \A i \in YearIndex : KnownYear(i)'
    <3> SUFFICES ASSUME NEW i \in YearIndex PROVE KnownYear(i)'
      OBVIOUS
    <3>1. CASE i # y
      BY <1>1, <2>1, <3>1 DEF ServerInv, KnownYear
    <3>2. CASE i = y /\ years[i].loaded
      <4>1. years'[i] = years[i]
        BY <2>1, <3>2 DEF Kept
      <4> QED  BY <1>1, <4>1 DEF ServerInv, KnownYear
    <3>3. CASE i = y /\ ~years[i].loaded
      <4>1. years'[i].seek = b.table[i] /\ b.table[i] # 0 /\ b.base # 0
        BY <1>2, <1>5, <2>1, <3>3 DEF Kept, Keyed
      <4> QED  BY <1>1, <1>3, <2>2, <4>1 DEF KnownYear
    <3> QED  BY <3>1, <3>2, <3>3
  <2>4. \A i \in YearIndex, j \in DayIndex : KnownDay(i, j)'
    <3> SUFFICES ASSUME NEW i \in YearIndex, NEW j \in DayIndex, days[<<i, j>>].loaded PROVE KnownDay(i, j)'
      BY <1>1 DEF KnownDay
    <3>1. years[i].loaded
      BY DEF ServerInv, KnownDay
    <3>2. years'[i] = years[i]
      BY <2>1, <3>1 DEF Kept
    <3> QED  BY <1>1, <3>2 DEF ServerInv, KnownDay
  <2> QED  BY <1>1, <2>3, <2>4 DEF ServerInv
<1> QED  BY <1>4, <1>5

LEMMA FindDayKeeps ==
  ASSUME ReaderTypes, Underway, ServerInv, NEW c \in Searchers, FindDay(c)
  PROVE  ServerInv'
<1>0. PICK s : s = search[c]
  OBVIOUS
<1> DEFINE y == s.year
           b == disk.nodes[years[y].seek]
           d == IF s.dir = "forward" THEN DayForwardly(y, b, s.time) ELSE DayBackwardly(y, b, s.time)
<1>1. /\ disk' = disk /\ root' = root /\ chan' = chan /\ years' = years /\ s.at = "day"
      /\ IF d = -1 THEN days' = days
         ELSE days' = [days EXCEPT ![<<y, d>>] = Kept(@, Day(s.time), b.table[d])]
  BY <1>0, Zenon DEF FindDay, vars, Alone
<1>2. d = -1 \/ (d \in DayIndex /\ (days[<<y, d>>].loaded \/ b.table[d] # 0))
  <2>1. d = DayForwardly(y, b, s.time) \/ d = DayBackwardly(y, b, s.time)
    BY Zenon
  <2> HIDE DEF d, y, b
  <2> QED  BY <2>1, DayPicked
<1>3. y \in YearIndex /\ years[y].loaded /\ b = disk.nodes[years[y].seek]
  BY <1>0, <1>1, Zenon DEF ReaderTypes, SearchesOK, SearchOK, Underway, HasLoaded
<1> HIDE DEF d, y, b
<1>4. CASE d = -1
  BY <1>1, <1>4 DEF ServerInv, KnownYear, KnownDay
<1>5. CASE d # -1
  <2>1. /\ \A i \in YearIndex, j \in DayIndex : <<i, j>> # <<y, d>> => days'[<<i, j>>] = days[<<i, j>>]
        /\ days'[<<y, d>>] = Kept(days[<<y, d>>], Day(s.time), b.table[d])
    BY <1>1, <1>2, <1>3, <1>5 DEF ReaderTypes, NodeTypes
  <2>3. \A i \in YearIndex, j \in DayIndex : KnownDay(i, j)'
    <3> SUFFICES ASSUME NEW i \in YearIndex, NEW j \in DayIndex PROVE KnownDay(i, j)'
      OBVIOUS
    <3>1. CASE <<i, j>> # <<y, d>>
      BY <1>1, <2>1, <3>1 DEF ServerInv, KnownDay
    <3>2. CASE i = y /\ j = d /\ days[<<i, j>>].loaded
      <4>1. days'[<<i, j>>] = days[<<i, j>>]
        BY <2>1, <3>2 DEF Kept
      <4> QED  BY <1>1, <4>1 DEF ServerInv, KnownDay
    <3>3. CASE i = y /\ j = d /\ ~days[<<i, j>>].loaded
      <4>1. days'[<<i, j>>].seek = b.table[j] /\ b.table[j] # 0
        BY <1>2, <1>5, <2>1, <3>3 DEF Kept, Keyed
      <4>2. b.table = disk.nodes[years[i].seek].table /\ years[i].loaded
        BY <1>3, <3>3
      <4> QED  BY <1>1, <4>1, <4>2 DEF KnownDay
    <3> QED  BY <3>1, <3>2, <3>3
  <2>4. \A i \in YearIndex : KnownYear(i)'
    BY <1>1 DEF ServerInv, KnownYear
  <2> QED  BY <1>1, <2>3, <2>4 DEF ServerInv
<1> QED  BY <1>4, <1>5


(* While the server has made no channel of its own, the recorder is the    *)
(* only writer of the file and the server's nodes are those of its tables. *)
ServerPhase == chan.key = 0 => RecorderInv /\ ServerInv

LEMMA InitPhase == SearchInit => ServerPhase
<1> SUFFICES ASSUME SearchInit PROVE RecorderInv /\ ServerInv
  BY DEF ServerPhase
<1>1. RecorderInv
  BY InitRecorder DEF SearchInit
<1>2. \A i \in YearIndex : ~years[i].loaded
  BY DEF SearchInit, NoEntry
<1>3. \A i \in YearIndex, j \in DayIndex : ~days[<<i, j>>].loaded
  BY DEF SearchInit, NoEntry
<1>4. root = -1 /\ ~chan.loaded
  BY DEF SearchInit, NoEntry
<1> QED  BY <1>1, <1>2, <1>3, <1>4 DEF ServerInv, KnownYear, KnownDay

LEMMA PhaseNext ==
  ASSUME SharedInv, ReaderTypes, Underway, ServerPhase, [SearchNext]_searchVars
  PROVE  ServerPhase'
<1> SUFFICES ASSUME chan'.key = 0 PROVE RecorderInv' /\ ServerInv'
  BY DEF ServerPhase
<1>1. CASE ([Next]_vars) /\ UNCHANGED reader
  <2>1. chan.key = 0
    BY <1>1 DEF reader
  <2> QED  BY <1>1, <2>1, NextRecorder, DiskGrows, ServerGrows DEF ServerPhase
<1>2. CASE StartServer
  <2>1. chan.key = 0 /\ [Next]_vars
    BY <1>2 DEF StartServer, vars
  <2> QED  BY <1>2, <2>1, NextRecorder, StartServerKeeps DEF ServerPhase
<1>3. ASSUME NEW c \in Searchers, Passes(c) PROVE RecorderInv' /\ ServerInv'
  <2>1. UNCHANGED <<vars, root, chan, years, days>>
    BY <1>3, PassedBy DEF ReaderTypes
  <2>2. disk' = disk /\ root' = root /\ chan' = chan /\ years' = years /\ days' = days /\ [Next]_vars
    BY <2>1 DEF vars
  <2> QED  BY <2>2, NextRecorder DEF ServerPhase, ServerInv, KnownYear, KnownDay
<1>4. ASSUME NEW c \in Searchers, CreateChannel(c) PROVE FALSE
  <2>1. \E at : chan' = Keyed(1, at)
    BY <1>4 DEF CreateChannel
  <2> QED  BY <2>1 DEF Keyed
<1>5. ASSUME NEW c \in Searchers, Reads(c) PROVE RecorderInv' /\ ServerInv'
  <2>1. UNCHANGED <<vars, root>>
    BY <1>5, ReadsOnly
  <2>2. CASE FindChannel(c)
    <3>1. chan.key = 0
      <4>1. CASE chan.loaded
        BY <2>2, <4>1, Zenon DEF FindChannel
      <4>2. CASE ~chan.loaded
        BY <4>2 DEF ReaderTypes, NodeTypes
      <4> QED  BY <4>1, <4>2
    <3> QED  BY <2>1, <2>2, <3>1, NextRecorder, FindChannelKeeps DEF ServerPhase
  <2>3. CASE FindYear(c)
    <3>1. chan' = chan
      BY <2>3, Zenon DEF FindYear
    <3> QED  BY <2>1, <2>3, <3>1, NextRecorder, FindYearKeeps DEF ServerPhase
  <2>4. CASE FindDay(c)
    <3>1. chan' = chan
      BY <2>4, Zenon DEF FindDay
    <3> QED  BY <2>1, <2>4, <3>1, NextRecorder, FindDayKeeps DEF ServerPhase
  <2>5. CASE FindFile(c)
    <3>1. disk' = disk /\ root' = root /\ chan' = chan /\ years' = years /\ days' = days
      BY <2>5, Zenon DEF FindFile, vars
    <3> QED  BY <2>1, <3>1, NextRecorder DEF ServerPhase, ServerInv, KnownYear, KnownDay
  <2> QED  BY <1>5, <2>2, <2>3, <2>4, <2>5 DEF Reads
<1>6. CASE UNCHANGED searchVars
  <2>1. ([Next]_vars) /\ UNCHANGED reader
    BY <1>6 DEF searchVars
  <2> QED  BY <1>1, <2>1
<1> QED  BY <1>1, <1>2, <1>3, <1>4, <1>5, <1>6, StepOfSession, Zenon DEF SearchNext

\* A server that is in step with the index after a step of the recorder was so before.
LEMMA InStepBefore ==
  ASSUME SharedInv, ReaderTypes, ServerPhase, [Next]_vars, UNCHANGED <<chan, years, days>>,
         root' = root \/ disk' = disk, ReaderInStep'
  PROVE  ReaderInStep
<1>1. chan' = chan /\ years' = years /\ days' = days
  OBVIOUS
<1>2. chan.key = 0 /\ ServerInv /\ RecorderInv
  BY <1>1 DEF ReaderInStep, ServerPhase
<1>3. \A i \in YearIndex : years[i].loaded => disk'.nodes[chan.seek].base = disk.nodes[chan.seek].base
  <2>1. FileGrows(disk, disk')
    BY <1>2, DiskGrows
  <2> SUFFICES ASSUME NEW i \in YearIndex, years[i].loaded
               PROVE  disk'.nodes[chan.seek].base = disk.nodes[chan.seek].base
    OBVIOUS
  <2>2. chan.loaded /\ disk.nodes[chan.seek].base # 0
    BY <1>2 DEF ServerInv, KnownYear
  <2>3. IsNode(disk, chan.seek, "channel")
    BY <1>2, <2>2, LoadedKinds
  <2>4. Below(disk.nodes[chan.seek], disk'.nodes[chan.seek]) /\ disk.nodes[chan.seek].kind = "channel"
    BY <2>1, <2>3, DiskTypes DEF IsNode, FileGrows
  <2> QED  BY <2>2, <2>4 DEF Below
<1>4. \A i \in YearIndex : years[i].loaded => years[i].key = disk.nodes[chan.seek].base + i
  BY <1>1, <1>3 DEF ReaderInStep
<1>5. \A i \in YearIndex, j \in DayIndex : days[<<i, j>>].loaded =>
        days[<<i, j>>].key = (disk.nodes[chan.seek].base + i - 1) * YearDays + j
  <2> SUFFICES ASSUME NEW i \in YearIndex, NEW j \in DayIndex, days[<<i, j>>].loaded
               PROVE  days[<<i, j>>].key = (disk.nodes[chan.seek].base + i - 1) * YearDays + j
    OBVIOUS
  <2>1. years[i].loaded
    BY <1>2 DEF ServerInv, KnownDay
  <2>2. days[<<i, j>>].key = (disk'.nodes[chan.seek].base + i - 1) * YearDays + j
    BY <1>1 DEF ReaderInStep
  <2> QED  BY <1>3, <2>1, <2>2
<1> QED  BY <1>2, <1>4, <1>5 DEF ReaderInStep

\* Nor does a search bring the server in step: it only adds nodes.
LEMMA InStepKept ==
  ASSUME SharedInv, ReaderTypes, Underway, ServerPhase, [SearchNext]_searchVars, ReaderInStep'
  PROVE  ReaderInStep
<1>1. CASE ([Next]_vars) /\ UNCHANGED reader
  BY <1>1, InStepBefore DEF reader
<1>2. CASE StartServer
  <2>1. ([Next]_vars) /\ disk' = disk
    BY <1>2 DEF StartServer, vars
  <2> QED  BY <1>2, <2>1, InStepBefore DEF StartServer
<1>3. ASSUME NEW c \in Searchers, Passes(c) PROVE ReaderInStep
  <2>1. UNCHANGED <<vars, root, chan, years, days>>
    BY <1>3, PassedBy DEF ReaderTypes
  <2> QED  BY <2>1, InStepBefore
<1>4. ASSUME NEW c \in Searchers, CreateChannel(c) PROVE ReaderInStep
  <2>1. \E at : chan' = Keyed(1, at)
    BY <1>4 DEF CreateChannel
  <2> QED  BY <2>1 DEF Keyed, ReaderInStep
<1>5. ASSUME NEW c \in Searchers, Reads(c) PROVE ReaderInStep
  <2>1. disk' = disk
    BY <1>5, ReadsOnly DEF vars
  <2>2. CASE ~chan.loaded
    <3>1. chan.key = 0
      BY <2>2 DEF ReaderTypes, NodeTypes
    <3> QED  BY <2>2, <3>1 DEF ServerPhase, ServerInv, KnownYear, KnownDay, ReaderInStep
  <2>3. CASE chan.loaded
    <3>1. /\ chan' = chan
          /\ years' = years \/ \E y, key, at : years' = [years EXCEPT ![y] = Kept(@, key, at)]
          /\ days' = days \/ \E p, key, at : days' = [days EXCEPT ![p] = Kept(@, key, at)]
      <4>1. CASE FindChannel(c) \/ FindFile(c)
        BY <2>3, <4>1, Zenon DEF FindChannel, FindFile
      <4>2. CASE FindYear(c)
        BY <4>2 DEF FindYear
      <4>3. CASE FindDay(c)
        <5>1. PICK s, y : s = search[c] /\ y = s.year
          OBVIOUS
        <5> DEFINE b == disk.nodes[years[y].seek]
                   d == IF s.dir = "forward" THEN DayForwardly(y, b, s.time) ELSE DayBackwardly(y, b, s.time)
        <5>2. /\ chan' = chan /\ years' = years
              /\ days' = days \/ days' = [days EXCEPT ![<<y, d>>] = Kept(@, Day(s.time), b.table[d])]
          BY <4>3, <5>1, Zenon DEF FindDay
        <5> HIDE DEF d, b
        <5> QED  BY <5>2, Zenon
      <4> QED  BY <1>5, <4>1, <4>2, <4>3 DEF Reads
    <3>2. DOMAIN years = YearIndex /\ DOMAIN days = YearIndex \X DayIndex
      BY DEF ReaderTypes, NodeTypes
    <3>3. \A i \in YearIndex : years[i].loaded => years'[i] = years[i]
      BY <3>1, <3>2 DEF Kept
    <3>4. \A p \in YearIndex \X DayIndex : days[p].loaded => days'[p] = days[p]
      BY <3>1, <3>2 DEF Kept
    <3>5. \A i \in YearIndex, j \in DayIndex : days[<<i, j>>].loaded => days'[<<i, j>>] = days[<<i, j>>]
      BY <3>4
    <3> QED  BY <2>1, <3>1, <3>3, <3>5, Zenon DEF ReaderInStep
  <2> QED  BY <2>2, <2>3
<1>6. CASE UNCHANGED searchVars
  <2>1. ([Next]_vars) /\ UNCHANGED reader
    BY <1>6 DEF searchVars
  <2> QED  BY <1>1, <2>1
<1> QED  BY <1>1, <1>2, <1>3, <1>4, <1>5, <1>6, StepOfSession, Zenon DEF SearchNext

-----------------------------------------------------------------------------
(* The walk through the files of a day.  What it returns is an entry of    *)
(* the buffer that serves the time, or one that a link leads to.           *)
LEMMA WalkReturns ==
  ASSUME NEW a \in Nat, NEW inside, NEW passed, NEW x, NEW out, NEW e,
         e \in IF x \in inside \ passed THEN {x} ELSE IF out /\ ~InBuffer(a, x) THEN {0, x} ELSE {0}
  PROVE  e = 0 \/ (e = x /\ (e \in (inside \ passed) \/ ~InBuffer(a, e)))
<1>1. CASE x \in inside \ passed
  BY <1>1
<1>2. CASE x \notin inside \ passed
  BY <1>2
<1> QED  BY <1>1, <1>2

LEMMA WalkForwardlyReturns ==
  ASSUME NEW a \in Nat, NEW b, NEW from, NEW t, NEW bound, NEW e \in WalkForwardly(a, b, from, t, bound), e # 0,
         NEW G, from \in G, \A i \in SlotIndex : b.slot[i].next \in G
  PROVE  /\ e \in G
         /\ NodeOf(e) = a => \E i \in SlotIndex : e = Entry(a, i) /\ ~(t >= b.slot[i].end)
<1> DEFINE inside == {Entry(a, i) : i \in {j \in SlotIndex : b.slot[j].start # 0 /\ b.slot[j].start < bound}}
           passed == {x \in inside : t >= At(b, x).end}
           link == [x \in passed |-> At(b, x).next]
           z == WalkEnd(from, passed, link)
           out == z >= Entry(a, 0)
<1>1. \A x \in inside : \E i \in SlotIndex : x = Entry(a, i) /\ At(b, x) = b.slot[i]
  BY EntryFacts DEF At
<1>2. \A x \in passed : link[x] \in G
  <2> SUFFICES ASSUME NEW x \in passed PROVE At(b, x).next \in G
    OBVIOUS
  <2> QED  BY <1>1
<1>3. e \in IF z \in inside \ passed THEN {z} ELSE IF out /\ ~InBuffer(a, z) THEN {0, z} ELSE {0}
  BY DEF WalkForwardly
<1>4. \A x \in inside \ passed : ~(t >= At(b, x).end)
  OBVIOUS
<1> HIDE DEF inside, passed, link, out
<1>5. z \in G
  BY <1>2, WalkIn
<1> HIDE DEF z
<1>6. e = z /\ (e \in (inside \ passed) \/ ~InBuffer(a, e))
  BY <1>3, WalkReturns
<1> QED  BY <1>1, <1>4, <1>5, <1>6 DEF InBuffer

LEMMA WalkBackwardlyReturns ==
  ASSUME NEW a \in Nat, NEW b, NEW from, NEW t, NEW bound, NEW e \in WalkBackwardly(a, b, from, t, bound), e # 0,
         NEW G, from \in G, \A i \in SlotIndex : b.slot[i].prev \in G
  PROVE  /\ e \in G
         /\ NodeOf(e) = a => \E i \in SlotIndex : e = Entry(a, i) /\ ~(t < b.slot[i].start)
<1> DEFINE inside == {Entry(a, i) : i \in {j \in SlotIndex : b.slot[j].end # 0 /\ b.slot[j].end >= bound}}
           passed == {x \in inside : t < At(b, x).start}
           link == [x \in passed |-> At(b, x).prev]
           z == WalkEnd(from, passed, link)
           out == z < Entry(a, Slots)
<1>1. \A x \in inside : \E i \in SlotIndex : x = Entry(a, i) /\ At(b, x) = b.slot[i]
  BY EntryFacts DEF At
<1>2. \A x \in passed : link[x] \in G
  <2> SUFFICES ASSUME NEW x \in passed PROVE At(b, x).prev \in G
    OBVIOUS
  <2> QED  BY <1>1
<1>3. e \in IF z \in inside \ passed THEN {z} ELSE IF out /\ ~InBuffer(a, z) THEN {0, z} ELSE {0}
  BY DEF WalkBackwardly
<1>4. \A x \in inside \ passed : ~(t < At(b, x).start)
  OBVIOUS
<1> HIDE DEF inside, passed, link, out
<1>5. z \in G
  BY <1>2, WalkIn
<1> HIDE DEF z
<1>6. e = z /\ (e \in (inside \ passed) \/ ~InBuffer(a, e))
  BY <1>3, WalkReturns
<1> QED  BY <1>1, <1>4, <1>5, <1>6 DEF InBuffer

\* The entry at which a walk begins is one of the buffer.
LEMMA WalkBegins ==
  ASSUME NEW a \in Nat, NEW b, NEW i \in SlotIndex
  PROVE  NodeOf(WalkFrom(a, b, i)) = a /\ NodeOf(WalkBackFrom(a, b, i)) = a
BY EntryFacts DEF WalkFrom, WalkBackFrom, InBuffer

LEMMA ForwardFiles ==
  ASSUME NEW a \in Nat, NEW b, NEW start, NEW t, NEW e \in FilesForwardly(a, b, start, t), e # 0
  PROVE  /\ NodeOf(e) = a \/ \E i \in SlotIndex : e = b.slot[i].next
         /\ ~(t >= start + DayLen)
         /\ NodeOf(e) = a => \E i \in SlotIndex : e = Entry(a, i) /\ ~(t >= b.slot[i].end)
<1> DEFINE index == IF t <= start THEN 0 ELSE (t - start) \div SlotLen
           lastStart == IF b.last >= Entry(a, 0) THEN At(b, b.last).start ELSE 0
           last == IF lastStart > start THEN (lastStart - start) \div SlotLen ELSE Slots - 1
           S == {x \in SlotIndex : index <= x /\ x <= last /\ b.slot[x].start # 0}
           i == FirstFrom(S)
           W == WalkForwardly(a, b, WalkFrom(a, b, i), t, start + (i + 1) * SlotLen)
<1>1. FilesForwardly(a, b, start, t) = IF t >= start + DayLen \/ i = -1 THEN {0} ELSE W
  BY DEF FilesForwardly
<1>2. Slots - 1 \in Nat /\ S \in SUBSET (0 .. Slots - 1) /\ SlotIndex = 0 .. Slots - 1
  BY PositiveSizes DEF SlotIndex
<1> HIDE DEF S
<1>3. i \in S \cup {-1}
  BY <1>2, PickIn DEF Pick
<1> HIDE DEF W, i
<1>4. ~(t >= start + DayLen) /\ i \in SlotIndex /\ e \in W
  BY <1>1, <1>2, <1>3
<1> DEFINE G == {WalkFrom(a, b, i)} \cup {b.slot[k].next : k \in SlotIndex}
<1>5. WalkFrom(a, b, i) \in G /\ (\A k \in SlotIndex : b.slot[k].next \in G)
  OBVIOUS
<1>6. \A x \in G : NodeOf(x) = a \/ \E k \in SlotIndex : x = b.slot[k].next
  BY <1>4, WalkBegins
<1> HIDE DEF G
<1> QED  BY <1>4, <1>5, <1>6, WalkForwardlyReturns DEF W

LEMMA BackwardFiles ==
  ASSUME NEW a \in Nat, NEW b, NEW start, NEW t, NEW e \in FilesBackwardly(a, b, start, t), e # 0
  PROVE  /\ NodeOf(e) = a \/ \E i \in SlotIndex : e = b.slot[i].prev
         /\ ~(t < start)
         /\ NodeOf(e) = a => \E i \in SlotIndex : e = Entry(a, i) /\ ~(t < b.slot[i].start)
<1> DEFINE end == start + DayLen
           index == ((IF t >= end THEN end - 1 ELSE t) - start) \div SlotLen
           firstStart == IF b.first >= Entry(a, 0) THEN At(b, b.first).start ELSE 0
           first == IF firstStart > start THEN (firstStart - start) \div SlotLen ELSE 0
           S == {x \in SlotIndex : first <= x /\ x <= index /\ b.slot[x].start # 0}
           i == LastTo(S)
           W == WalkBackwardly(a, b, WalkBackFrom(a, b, i), t, start + i * SlotLen)
<1>1. FilesBackwardly(a, b, start, t) = IF t < start \/ i = -1 THEN {0} ELSE W
  BY DEF FilesBackwardly
<1>2. Slots - 1 \in Nat /\ S \in SUBSET (0 .. Slots - 1) /\ SlotIndex = 0 .. Slots - 1
  BY PositiveSizes DEF SlotIndex
<1> HIDE DEF S
<1>3. i \in S \cup {-1}
  <2>1. Pick("backward", S) \in S \cup {-1}
    BY <1>2, PickIn
  <2> QED  BY <2>1 DEF Pick
<1> HIDE DEF W, i
<1>4. ~(t < start) /\ i \in SlotIndex /\ e \in W
  BY <1>1, <1>2, <1>3
<1> DEFINE G == {WalkBackFrom(a, b, i)} \cup {b.slot[k].prev : k \in SlotIndex}
<1>5. WalkBackFrom(a, b, i) \in G /\ (\A k \in SlotIndex : b.slot[k].prev \in G)
  OBVIOUS
<1>6. \A x \in G : NodeOf(x) = a \/ \E k \in SlotIndex : x = b.slot[k].prev
  BY <1>4, WalkBegins
<1> HIDE DEF G
<1> QED  BY <1>4, <1>5, <1>6, WalkBackwardlyReturns DEF W

-----------------------------------------------------------------------------
(* What is found.                                                          *)

\* A day of a server that is in step is the day of its key.
LEMMA DayInStep ==
  ASSUME SharedInv, ServerInv, ReaderInStep, NEW K, FileOK(K, AddedDays, disk), Owners(K, AddedDays),
         NEW i \in YearIndex, NEW j \in DayIndex, days[<<i, j>>].loaded
  PROVE  Is(K, days[<<i, j>>].seek, DayNo(days[<<i, j>>].key))
<1> DEFINE c == disk.nodes[chan.seek]
           y == disk.nodes[years[i].seek]
<1>1. years[i].loaded /\ days[<<i, j>>].seek # 0 /\ days[<<i, j>>].seek = y.table[j]
  BY DEF ServerInv, KnownDay
<1>2. chan.loaded /\ c.base # 0 /\ years[i].seek # 0 /\ years[i].seek = c.table[i]
  BY <1>1 DEF ServerInv, KnownYear
<1>3. IsNode(disk, chan.seek, "channel") /\ IsNode(disk, years[i].seek, "year")
  BY <1>1, <1>2, LoadedKinds, Zenon
<1>4. /\ Fits(K, AddedDays, K[chan.seek], c) /\ K[chan.seek] \in Owner /\ c.kind = "channel"
      /\ Fits(K, AddedDays, K[years[i].seek], y) /\ K[years[i].seek] \in Owner /\ y.kind = "year"
  BY <1>3, NodeFits DEF IsNode
<1>5. days[<<i, j>>].key = (c.base + i - 1) * YearDays + j
  BY DEF ReaderInStep
<1> HIDE DEF c, y
<1>6. LeadsTo(K, c.table[i], YearNo(c.base + i))
  BY <1>2, <1>4, KindFits
<1>7. K[years[i].seek] = YearNo(c.base + i)
  BY <1>2, <1>6 DEF LeadsTo, Is
<1>8. LeadsTo(K, y.table[j], DayNo((K[years[i].seek][2] - 1) * YearDays + j))
  BY <1>4, KindFits
<1>9. LeadsTo(K, y.table[j], DayNo((c.base + i - 1) * YearDays + j))
  <2>1. \A n : YearNo(n)[2] = n
    BY DEF YearNo
  <2>2. K[years[i].seek][2] = c.base + i
    BY <1>7, <2>1
  <2>3. c.base + i - 1 = K[years[i].seek][2] - 1
    <3>1. c \in ChannelBuffer
      BY <1>4, KindFits
    <3>2. c.base \in Nat /\ i \in Int
      BY <3>1 DEF ChannelBuffer, YearIndex
    <3> QED  BY <2>2, <3>2
  <2> QED  BY <1>8, <2>3
<1> QED  BY <1>1, <1>5, <1>9 DEF LeadsTo

\* A file that a slot holds is of the day of its node, and ends after its start.
LEMMA SlotDay ==
  ASSUME NEW K, NEW X, NEW D, FileOK(K, D, disk), Owners(K, D), FileLinks(K, X, disk),
         NEW e, SlotAt(disk, e).start # 0
  PROVE  LET s == SlotAt(disk, e) IN
         s.start \in Nat /\ s.end \in Nat /\ s.start < s.end /\ Is(K, NodeOf(e), DayNo(Day(s.start)))
<1> DEFINE s == SlotAt(disk, e)
<1>1. SlotOK(K, X, NodeOf(e), SlotOf(e), s) /\ s # EmptySlot
  BY SlotOfFile
<1>2. /\ IsNode(disk, NodeOf(e), "day") /\ SlotOf(e) \in SlotIndex
      /\ s = disk.nodes[NodeOf(e)].slot[SlotOf(e)]
  BY <1>1 DEF SlotAt
<1>3. InOrder(K, NodeOf(e), s)
  BY <1>2 DEF IsNode, FileLinks, DayLinks, EntriesOK
<1>4. s \in SlotEntry
  <2> DEFINE b == disk.nodes[NodeOf(e)]
  <2>1. Fits(K, D, K[NodeOf(e)], b) /\ K[NodeOf(e)] \in Owner /\ b.kind = "day"
    BY <1>2, NodeFits DEF IsNode
  <2>2. s = b.slot[SlotOf(e)]
    BY <1>2
  <2> HIDE DEF b, s
  <2>3. b \in DayBuffer
    BY <2>1, KindFits
  <2> QED  BY <1>2, <2>2, <2>3 DEF DayBuffer
<1> HIDE DEF s
<1>5. s.start # 0
  BY DEF s
<1>6. Is(K, NodeOf(e), DayNo(Day(s.start)))
  BY <1>1 DEF SlotOK, AtPlace
<1> QED  BY <1>3, <1>4, <1>5, <1>6 DEF s, InOrder, SlotEntry

\* A file of a later day begins after this day, one of an earlier day before it.
LEMMA LaterDay ==
  ASSUME NEW g \in Int, NEW h \in Int, g < h, NEW x \in Nat, h = Day(x)
  PROVE  g * DayLen + DayLen <= x
<1>1. DayLen \in Nat \ {0} /\ h * DayLen <= x
  BY PositiveSizes, Remainder DEF Day
<1>2. (g + 1) * DayLen <= h * DayLen
  <2>1. h - (g + 1) \in Nat
    OBVIOUS
  <2>2. (h - (g + 1)) * DayLen \in Nat
    BY <1>1, <2>1
  <2>3. (h - (g + 1)) * DayLen = h * DayLen - (g + 1) * DayLen
    BY <1>1
  <2> QED  BY <1>1, <2>2, <2>3
<1> QED  BY <1>1, <1>2

LEMMA EarlierDay ==
  ASSUME NEW g \in Int, NEW h \in Int, h < g, NEW x \in Nat, h = Day(x)
  PROVE  x < g * DayLen
<1>1. DayLen \in Nat \ {0} /\ x < h * DayLen + DayLen
  BY PositiveSizes, Remainder DEF Day
<1>2. (h + 1) * DayLen <= g * DayLen
  <2>1. g - (h + 1) \in Nat
    OBVIOUS
  <2>2. (g - (h + 1)) * DayLen \in Nat
    BY <1>1, <2>1
  <2>3. (g - (h + 1)) * DayLen = g * DayLen - (h + 1) * DayLen
    BY <1>1
  <2> QED  BY <1>1, <2>2, <2>3
<1> QED  BY <1>1, <1>2

\* What a search finds that follows a link out of the buffer is of the day after, or before.
LEMMA LinkedDay ==
  ASSUME SharedInv, RecorderInv, ServerInv, ReaderInStep, NEW i \in YearIndex, NEW j \in DayIndex,
         days[<<i, j>>].loaded, NEW e, SlotAt(disk, e).start # 0, NodeOf(e) # days[<<i, j>>].seek, e # 0
  PROVE  LET z == days[<<i, j>>]
             b == disk.nodes[z.seek]
             s == SlotAt(disk, e)
         IN /\ s.start \in Nat /\ s.end \in Nat /\ s.start < s.end
            /\ (\E k \in SlotIndex : e = b.slot[k].next) => z.key * DayLen + DayLen <= s.start
            /\ (\E k \in SlotIndex : e = b.slot[k].prev) => s.start < z.key * DayLen
<1> DEFINE z == days[<<i, j>>]
           b == disk.nodes[z.seek]
           s == SlotAt(disk, e)
<1>1. PICK K, X : FileOK(K, AddedDays, disk) /\ FileLinks(K, X, disk) /\ Owners(K, AddedDays)
  BY DEF RecorderInv, LinkInv, Linked, Holds
<1>2. /\ s.start \in Nat /\ s.end \in Nat /\ s.start < s.end
      /\ Is(K, NodeOf(e), DayNo(Day(s.start)))
  BY <1>1, SlotDay
<1>3. Is(K, z.seek, DayNo(z.key))
  BY <1>1, DayInStep
<1>4. IsNode(disk, z.seek, "day")
  BY LoadedKinds
<1>5. \A k \in SlotIndex : InOrder(K, z.seek, b.slot[k])
  BY <1>1, <1>4 DEF IsNode, FileLinks, DayLinks, EntriesOK
<1>6. NodeOf(e) # z.seek /\ z.key \in Int /\ Day(s.start) \in Int
  <2>1. K[z.seek] \in Owner /\ K[z.seek] = DayNo(z.key)
    BY <1>1, <1>3, <1>4, NodeFits DEF Is
  <2>2. Day(s.start) \in Int
    <3>1. s.start \in Nat /\ DayLen \in Nat \ {0}
      BY <1>2, PositiveSizes
    <3> HIDE DEF s
    <3>2. s.start \div DayLen \in Nat
      BY <3>1, Remainder
    <3> QED  BY <3>2 DEF Day
  <2> HIDE DEF z
  <2> QED  BY <2>1, <2>2 DEF Owner, DayNo, z
<1> HIDE DEF z, b, s
<1>7. ASSUME NEW k \in SlotIndex, e = b.slot[k].next PROVE z.key * DayLen + DayLen <= s.start
  <2>1. DayBefore(K, z.seek, NodeOf(e))
    BY <1>5, <1>6, <1>7 DEF InOrder, NextInOrder
  <2>2. z.key < Day(s.start)
    BY <1>2, <1>3, <2>1 DEF DayBefore, Is, DayNo
  <2> QED  BY <1>2, <1>6, <2>2, LaterDay
<1>8. ASSUME NEW k \in SlotIndex, e = b.slot[k].prev PROVE s.start < z.key * DayLen
  <2>1. DayBefore(K, NodeOf(e), z.seek)
    BY <1>5, <1>6, <1>8 DEF InOrder, PrevInOrder
  <2>2. Day(s.start) < z.key
    BY <1>2, <1>3, <2>1 DEF DayBefore, Is, DayNo
  <2> QED  BY <1>2, <1>6, <2>2, EarlierDay
<1> QED  BY <1>2, <1>7, <1>8, Zenon DEF z, b, s

LEMMA FindFileServes ==
  ASSUME SharedInv, ReaderTypes, Underway, ServerPhase, NEW c \in Searchers, FindFile(c)
  PROVE  \E r : search' = [search EXCEPT ![c] = r] /\ Serves(r)'
<1>0. PICK q : q = search[c]
  OBVIOUS
<1> DEFINE i == q.year
           j == q.day
           z == days[<<i, j>>]
           b == disk.nodes[z.seek]
           start == z.key * DayLen
           t == q.time
           E == IF q.dir = "forward" THEN FilesForwardly(z.seek, b, start, t)
                                     ELSE FilesBackwardly(z.seek, b, start, t)
<1>1. /\ disk' = disk /\ root' = root /\ chan' = chan /\ years' = years /\ days' = days /\ q.at = "file"
      /\ \E x \in E : search' = [search EXCEPT ![c].at = "done", ![c].found = SlotAt(disk, x),
                                               ![c].wild = ~InBuffer(z.seek, x)]
  BY <1>0 DEF FindFile, vars, Alone
<1>2. PICK e \in E : search' = [search EXCEPT ![c].at = "done", ![c].found = SlotAt(disk, e),
                                              ![c].wild = ~InBuffer(z.seek, e)]
  BY <1>1
<1> DEFINE s == SlotAt(disk, e)
<1>15. PICK r : r = [q EXCEPT !.at = "done", !.found = s, !.wild = ~InBuffer(z.seek, e)]
  OBVIOUS
<1>16. SearchOK(q) /\ DOMAIN search = Searchers /\ HasLoaded(q)
  BY <1>0 DEF ReaderTypes, SearchesOK, Underway
<1>17. search' = [search EXCEPT ![c] = r]
  <2>1. PICK f, w : f = s /\ w = ~InBuffer(z.seek, e)
    OBVIOUS
  <2>2. /\ search' = [search EXCEPT ![c].at = "done", ![c].found = f, ![c].wild = w]
        /\ r = [q EXCEPT !.at = "done", !.found = f, !.wild = w]
    BY <1>2, <1>15, <2>1, Zenon
  <2> HIDE DEF s, z
  <2> QED  BY <1>0, <1>16, <2>2
<1>3. /\ r.found = s /\ r.wild = ~InBuffer(z.seek, e)
      /\ r.time = t /\ r.dir = q.dir /\ q.dir \in Directions /\ t \in Nat
  <2> HIDE DEF s, z
  <2> QED  BY <1>15, <1>16 DEF SearchOK, SearchFields
<1> SUFFICES ASSUME s.start # 0, r.wild => ReaderInStep'
             PROVE  /\ q.dir = "forward" => t < s.end
                    /\ q.dir = "backward" => s.start <= t
  BY <1>3, <1>17 DEF Serves
<1>4. i \in YearIndex /\ j \in DayIndex /\ z.loaded
  BY <1>1, <1>16 DEF SearchOK, HasLoaded
<1>5. NodeOf(e) \in DOMAIN disk.nodes /\ disk.nodes[NodeOf(e)].kind = "day" /\ SlotOf(e) \in SlotIndex
      /\ s = disk.nodes[NodeOf(e)].slot[SlotOf(e)]
  <2>1. s # EmptySlot
    BY DEF EmptySlot
  <2> QED  BY <2>1 DEF SlotAt, IsNode
<1>6. NodeOf(e) \in Nat \ {0} /\ e # 0
  <2>1. NodeOf(e) \in Nat \ {0}
    BY <1>5, DiskTypes
  <2>2. NodeOf(0) = 0
    BY PositiveSizes DEF NodeOf
  <2> QED  BY <2>1, <2>2
<1>7. r.wild => ReaderInStep /\ ServerInv /\ RecorderInv
  BY <1>1 DEF ReaderInStep, ServerPhase
<1>8. NodeOf(e) # z.seek => ReaderInStep /\ ServerInv /\ RecorderInv
  BY <1>3, <1>7 DEF InBuffer
<1>9. z.seek \in Nat
  <2>1. CASE NodeOf(e) = z.seek
    BY <1>6, <2>1
  <2>2. CASE NodeOf(e) # z.seek
    <3>1. IsNode(disk, z.seek, "day")
      BY <1>4, <1>8, <2>2, LoadedKinds
    <3> QED  BY <3>1, DiskTypes DEF IsNode
  <2> QED  BY <2>1, <2>2
<1>10. ASSUME NodeOf(e) = z.seek
       PROVE  /\ SlotOf(e) \in SlotIndex /\ s = b.slot[SlotOf(e)] /\ s.start \in Nat /\ s.end \in Nat
  <2>1. PICK K : FileOK(K, AddedDays, disk) /\ Owners(K, AddedDays)
    BY DEF SharedInv
  <2> DEFINE n == disk.nodes[NodeOf(e)]
  <2>2. Fits(K, AddedDays, K[NodeOf(e)], n) /\ K[NodeOf(e)] \in Owner /\ n.kind = "day"
    BY <1>5, <2>1, NodeFits DEF IsNode
  <2>3. s = n.slot[SlotOf(e)] /\ n = b
    BY <1>5, <1>10, Zenon
  <2> HIDE DEF n, s, b
  <2>4. n \in DayBuffer
    BY <2>2, KindFits
  <2> QED  BY <1>5, <2>3, <2>4 DEF DayBuffer, SlotEntry
<1>11. ASSUME NodeOf(e) # z.seek
       PROVE  /\ s.start \in Nat /\ s.end \in Nat /\ s.start < s.end /\ start \in Int
              /\ (\E k \in SlotIndex : e = b.slot[k].next) => start + DayLen <= s.start
              /\ (\E k \in SlotIndex : e = b.slot[k].prev) => s.start < start
  <2>1. z.key * DayLen \in Int
    <3>1. disk.nodes[chan.seek].base \in Nat
      <4>1. years[i].loaded /\ chan.loaded
        BY <1>4, <1>8, <1>11 DEF ServerInv, KnownYear, KnownDay
      <4>2. IsNode(disk, chan.seek, "channel")
        BY <1>8, <1>11, <4>1, LoadedKinds
      <4>3. PICK K : FileOK(K, AddedDays, disk) /\ Owners(K, AddedDays)
        BY DEF SharedInv
      <4> DEFINE n == disk.nodes[chan.seek]
      <4>4. Fits(K, AddedDays, K[chan.seek], n) /\ K[chan.seek] \in Owner /\ n.kind = "channel"
        BY <4>2, <4>3, NodeFits DEF IsNode
      <4> HIDE DEF n
      <4>5. n \in ChannelBuffer
        BY <4>4, KindFits
      <4> QED  BY <4>5 DEF n, ChannelBuffer
    <3>2. z.key = (disk.nodes[chan.seek].base + i - 1) * YearDays + j
      BY <1>4, <1>8, <1>11 DEF ReaderInStep
    <3>3. i \in Int /\ j \in Int /\ YearDays \in Int /\ DayLen \in Int
      BY <1>4, PositiveSizes DEF YearIndex, DayIndex
    <3> HIDE DEF z, i, j
    <3> QED  BY <3>1, <3>2, <3>3
  <2> QED  BY <1>4, <1>6, <1>8, <1>11, <2>1, LinkedDay, Zenon
<1> HIDE DEF s, b, z, i, j, start
<1>12. DayLen \in Nat
  BY PositiveSizes
<1>13. ASSUME q.dir = "forward" PROVE t < s.end
  <2>1. /\ NodeOf(e) = z.seek \/ \E k \in SlotIndex : e = b.slot[k].next
        /\ ~(t >= start + DayLen)
        /\ NodeOf(e) = z.seek => \E k \in SlotIndex : e = Entry(z.seek, k) /\ ~(t >= b.slot[k].end)
    BY <1>6, <1>9, <1>13, ForwardFiles
  <2>2. CASE NodeOf(e) = z.seek
    <3>1. ~(t >= s.end)
      BY <1>9, <1>10, <2>1, <2>2, EntryFacts
    <3> QED  BY <1>3, <1>10, <2>2, <3>1
  <2>3. CASE NodeOf(e) # z.seek
    BY <1>3, <1>11, <1>12, <2>1, <2>3
  <2> QED  BY <2>2, <2>3
<1>14. ASSUME q.dir = "backward" PROVE s.start <= t
  <2>1. /\ NodeOf(e) = z.seek \/ \E k \in SlotIndex : e = b.slot[k].prev
        /\ ~(t < start)
        /\ NodeOf(e) = z.seek => \E k \in SlotIndex : e = Entry(z.seek, k) /\ ~(t < b.slot[k].start)
    BY <1>6, <1>9, <1>14, BackwardFiles
  <2>2. CASE NodeOf(e) = z.seek
    <3>1. ~(t < s.start)
      BY <1>9, <1>10, <2>1, <2>2, EntryFacts
    <3> QED  BY <1>3, <1>10, <2>2, <3>1
  <2>3. CASE NodeOf(e) # z.seek
    BY <1>3, <1>11, <1>12, <2>1, <2>3
  <2> QED  BY <2>2, <2>3
<1> QED  BY <1>13, <1>14

\* The other sessions' searches have found what they had found.
LEMMA ServesKept ==
  ASSUME SearchesOK, FoundServesRequest, ReaderInStep' => ReaderInStep, NEW c \in Searchers, NEW r, Serves(r)',
         search' = [search EXCEPT ![c] = r]
  PROVE  FoundServesRequest'
<1>1. search'[c] = r /\ \A x \in Searchers : x # c => search'[x] = search[x]
  BY DEF SearchesOK
<1> SUFFICES ASSUME NEW x \in Searchers PROVE Serves(search[x])'
  BY DEF FoundServesRequest
<1>2. CASE x = c
  BY <1>1, <1>2 DEF Serves
<1>3. CASE x # c
  BY <1>1, <1>3 DEF FoundServesRequest, Serves
<1> QED  BY <1>2, <1>3

LEMMA FoundNext ==
  ASSUME SharedInv, ReaderTypes, Underway, ServerPhase, FoundServesRequest, [SearchNext]_searchVars
  PROVE  FoundServesRequest'
<1>1. ReaderInStep' => ReaderInStep
  BY InStepKept
<1>2. ASSUME search' = search PROVE FoundServesRequest'
  BY <1>1, <1>2 DEF FoundServesRequest, Serves
<1>3. ASSUME NEW c \in Searchers, NEW r, search' = [search EXCEPT ![c] = r], r.found = NoFile
      PROVE  FoundServesRequest'
  <2>1. Serves(r)'
    BY <1>3 DEF Serves, NoFile, EmptySlot
  <2> QED  BY <1>1, <1>3, <2>1, ServesKept DEF ReaderTypes
<1>4. ASSUME NEW c \in Searchers, Passes(c) PROVE FoundServesRequest'
  <2>1. PICK r : search' = [search EXCEPT ![c] = r] /\ (r = search[c] \/ r.found = NoFile)
    BY <1>4, PassedBy DEF ReaderTypes
  <2>2. CASE r = search[c]
    <3>1. search' = search
      BY <2>1, <2>2 DEF ReaderTypes, SearchesOK
    <3> QED  BY <1>2, <3>1
  <2> QED  BY <1>3, <2>1, <2>2
<1>5. ASSUME NEW c \in Searchers, FindChannel(c) \/ CreateChannel(c) \/ FindYear(c) \/ FindDay(c)
      PROVE  FoundServesRequest'
  <2>1. PICK s : s = search[c]
    OBVIOUS
  <2>2. s.at # "done" /\ SearchOK(s) /\ HasLoaded(s)
    BY <1>5, <2>1 DEF FindChannel, CreateChannel, FindYear, FindDay, Alone, ReaderTypes, SearchesOK, Underway
  <2>3. \/ \E at : GoesOn(c, at)
        \/ \E y : search' = [search EXCEPT ![c].at = "day", ![c].year = y]
        \/ \E d : search' = [search EXCEPT ![c].at = "file", ![c].day = d]
    BY <1>5, Zenon DEF FindChannel, CreateChannel, FindYear, FindDay, GoesOn
  <2>4. \E r : search' = [search EXCEPT ![c] = r] /\ r.found = s.found
    <3>1. CASE \E at : GoesOn(c, at)
      <4>1. PICK at, r : GoesOn(c, at) /\ r = [s EXCEPT !.at = at]
        BY <3>1
      <4> QED  BY <2>1, <4>1, GoneOn DEF ReaderTypes
    <3>2. CASE \E y : search' = [search EXCEPT ![c].at = "day", ![c].year = y]
      <4>1. PICK y, r : /\ search' = [search EXCEPT ![c].at = "day", ![c].year = y]
                        /\ r = [s EXCEPT !.at = "day", !.year = y]
        BY <3>2
      <4>2. DOMAIN search = Searchers
        BY DEF ReaderTypes, SearchesOK
      <4>3. search' = [search EXCEPT ![c] = r]
        BY <2>1, <4>1, <4>2
      <4>4. r.found = s.found
        BY <2>2, <4>1 DEF SearchOK, SearchFields
      <4> QED  BY <4>3, <4>4
    <3>3. CASE \E d : search' = [search EXCEPT ![c].at = "file", ![c].day = d]
      <4>1. PICK d, r : /\ search' = [search EXCEPT ![c].at = "file", ![c].day = d]
                        /\ r = [s EXCEPT !.at = "file", !.day = d]
        BY <3>3
      <4>2. DOMAIN search = Searchers
        BY DEF ReaderTypes, SearchesOK
      <4>3. search' = [search EXCEPT ![c] = r]
        BY <2>1, <4>1, <4>2
      <4>4. r.found = s.found
        BY <2>2, <4>1 DEF SearchOK, SearchFields
      <4> QED  BY <4>3, <4>4
    <3> QED  BY <2>3, <3>1, <3>2, <3>3
  <2> QED  BY <1>3, <2>2, <2>4 DEF HasLoaded
<1>6. ASSUME NEW c \in Searchers, FindFile(c) PROVE FoundServesRequest'
  BY <1>1, <1>6, FindFileServes, ServesKept DEF ReaderTypes
<1>7. CASE (Next /\ UNCHANGED reader) \/ StartServer \/ UNCHANGED searchVars
  <2>1. search' = search
    BY <1>7, Zenon DEF StartServer, reader, searchVars
  <2> QED  BY <1>2, <2>1
<1> QED  BY <1>4, <1>5, <1>6, <1>7, StepOfSession, Zenon DEF SearchNext, Reads

(* What a search finds serves the request, at whatever moments the         *)
(* recorder writes and other sessions search between the nodes of the      *)
(* search, and whatever nodes the requests before have left in the server: *)
(* forwards no file that has ended, backwards none that has not begun.  A  *)
(* walk within the buffer needs nothing more; one that leaves it by a link *)
(* relies on the order of the days that the links lead to.  It says this   *)
(* for as long as no two sessions have used the stream at once; after      *)
(* that the server takes no step.                                          *)
THEOREM FoundFileServes == SearchSpec => []FoundServesRequest
<1> DEFINE Inv == SharedInv /\ ReaderTypes /\ Underway /\ ServerPhase /\ FoundServesRequest
<1>1. SearchInit => Inv
  <2> SUFFICES ASSUME SearchInit PROVE Inv
    OBVIOUS
  <2>1. \A c \in Searchers : search[c] = NoSearch
    BY DEF SearchInit
  <2>2. FoundServesRequest
    BY <2>1 DEF NoSearch, FoundServesRequest, Serves
  <2> QED  BY <2>2, InitShared, InitReader, InitPhase DEF SearchInit
<1>2. Inv /\ [SearchNext]_searchVars => Inv'
  BY ReaderNext, PhaseNext, FoundNext
<1> QED  BY <1>1, <1>2, PTL DEF SearchSpec
================================================================================
