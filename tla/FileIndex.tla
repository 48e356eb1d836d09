------------------------------ MODULE FileIndex ------------------------------
(***************************************************************************)
(* The index of recorded files, src/nvr/mkv/librecorder/                   *)
(* streaming_media_library.cpp, as the recorder writes it for one channel. *)
(*                                                                         *)
(* The file .index holds a tree: the root, a node for the channel with a   *)
(* table of years, for each year a node with a table of days, for each day *)
(* a node with a table of slots.  A slot holds one file: its start, its    *)
(* end, and the places of the entries before and after it.  InsertIndex    *)
(* changes the nodes in memory and then writes them one after the other,   *)
(* through stdio: a large node (a day) goes to the disk at once, a small   *)
(* one stays in the buffer of the stream until the next write.             *)
(*                                                                         *)
(* A node is at the address of its place among the nodes of the disk; the  *)
(* entry of slot i of the day at address a is at Entry(a, i).  0 is "none",*)
(* as in the code.                                                         *)
(***************************************************************************)
EXTENDS Integers, Sequences, FiniteSets

CONSTANTS
  SlotLen,     \* fileDuration
  Slots,       \* fileTableCapacity
  YearDays,    \* days in a year
  YearCap,     \* yearTableCapacity
  Clips,       \* the files that may be recorded: [start, end]
  MaxCrashes,  \* bound: the number of crashes
  MaxFailures  \* bound: the number of writes that fail

ASSUME FileIndexAssumption ==
  /\ SlotLen \in Nat \ {0} /\ Slots \in Nat \ {0}
  /\ YearDays \in Nat \ {0} /\ YearCap \in Nat \ {0}
  /\ \A c \in Clips : c.start \in Nat \ {0} /\ c.end \in Nat /\ c.start < c.end
  /\ MaxCrashes \in Nat /\ MaxFailures \in Nat

VARIABLES
  disk,     \* [root, nodes]: what has reached the disk
  pending,  \* the write that is in the buffer of the stream, at most one
  mem,      \* the recorder's nodes, and the writes that its handler still makes
  heap,     \* which nodes in memory have been deleted
  up,       \* whether the recorder runs
  added,    \* history: the files AddMediaFile was called for, in order
  faults    \* history: [crashes, failures, skipped], skipped = files whose
            \* insertion was cut short, or found the index file closed

vars == <<disk, pending, mem, heap, up, added, faults>>

-----------------------------------------------------------------------------
(* The calendar.  Times count from 1 (an empty slot has start 0).          *)
DayLen == SlotLen * Slots
Day(t) == t \div DayLen
Year(t) == 1 + Day(t) \div YearDays
DayOfYear(t) == Day(t) % YearDays
Slot(t) == (t % DayLen) \div SlotLen
YearOfDay(d) == 1 + d \div YearDays

Days == {Day(c.start) : c \in Clips}

(* No two files share a slot: the recorder splits so (module Recorder,     *)
(* NextFileInLaterSlot), and the code has no list of collisions.           *)
ASSUME SlotsDiffer ==
  \A c, e \in Clips : c # e => Day(c.start) # Day(e.start) \/ Slot(c.start) # Slot(e.start)
SlotIndex == 0 .. Slots - 1
YearIndex == 0 .. YearCap - 1
DayIndex == 0 .. YearDays - 1

(* Places in the file: headerSize is 1, the rest of a day its slots.       *)
NodeSize == Slots + 1
Entry(at, i) == at * NodeSize + 1 + i
NodeOf(entry) == entry \div NodeSize
SlotOf(entry) == (entry % NodeSize) - 1

EmptySlot == [start |-> 0, end |-> 0, prev |-> 0, next |-> 0]
NewChannelBuffer == [kind |-> "channel", base |-> 0, first |-> -1, last |-> -1,
                     table |-> [i \in YearIndex |-> 0]]
NewYearBuffer == [kind |-> "year", first |-> -1, last |-> -1, table |-> [i \in DayIndex |-> 0]]
NewDayBuffer == [kind |-> "day", first |-> 0, last |-> 0, slot |-> [i \in SlotIndex |-> EmptySlot]]

(* A node in memory: its place in the file (seekBase), isDirty, pBuffer.   *)
NoNode == [loaded |-> FALSE, seek |-> 0, dirty |-> FALSE, buf |-> EmptySlot]
NewNode(buffer) == [loaded |-> TRUE, seek |-> 0, dirty |-> TRUE, buf |-> buffer]
LoadedNode(at, buffer) == [loaded |-> TRUE, seek |-> at, dirty |-> FALSE, buf |-> buffer]

(* A FileNode in memory; day is its pParent.                               *)
NoFile == [start |-> 0, end |-> 0, seek |-> 0, day |-> -1]

-----------------------------------------------------------------------------
(* The file under the stream.                                              *)
Put(d, w) ==
  IF w.at = 0 THEN [d EXCEPT !.root = w.buf]
  ELSE IF w.at \in DOMAIN d.nodes THEN [d EXCEPT !.nodes[w.at] = w.buf]
  ELSE [d EXCEPT !.nodes = Append(@, w.buf)]

\* fseek and fclose flush the buffer of the stream.
Flushed == IF pending = <<>> THEN disk ELSE Put(disk, pending[1])

\* What the recorder reads back: fseek flushes first.
OnDisk(at) == Flushed.nodes[at]

IsLarge(w) == w.at > 0 /\ w.buf.kind = "day"

Written(m, at, buffer) == [m EXCEPT !.writes = Append(@, [at |-> at, buf |-> buffer])]
NewPlace(m) == m.eof + 1

-----------------------------------------------------------------------------
\* Mutant: the node is not marked as changed.
SetTableUnmarked(node, i, at) ==
  [node EXCEPT !.buf.table[i] = at,
               !.buf.first = IF @ = -1 \/ i < @ THEN i ELSE @,
               !.buf.last = IF @ = -1 \/ i > @ THEN i ELSE @]

(* SetBufferContent of a table with the indices of its first and last      *)
(* entry: a channel or a year.                                             *)
SetTable(node, i, at) ==
  [node EXCEPT !.dirty = TRUE,
               !.buf.table[i] = at,
               !.buf.first = IF @ = -1 \/ i < @ THEN i ELSE @,
               !.buf.last = IF @ = -1 \/ i > @ THEN i ELSE @]

(* UpdateIndexFile of the four kinds of nodes.  A new node is appended and *)
(* its place put in its parent's buffer.                                   *)
UpdateRoot(m) ==
  IF ~m.rootDirty \/ ~m.open THEN m
  ELSE Written([m EXCEPT !.rootDirty = FALSE], 0, m.root)

UpdateChannel(m) ==
  IF ~m.chan.dirty \/ ~m.open THEN m
  ELSE IF m.chan.seek > 0
  THEN Written([m EXCEPT !.chan.dirty = FALSE], m.chan.seek, m.chan.buf)
  ELSE LET at == NewPlace(m) IN
       Written([m EXCEPT !.chan.dirty = FALSE, !.chan.seek = at, !.eof = at,
                         !.root = at, !.rootDirty = TRUE], at, m.chan.buf)

\* Mutant: the end of the file stays where it was when a year is appended.
UpdateYearSamePlace(m, i) ==
  IF ~m.years[i].dirty \/ ~m.open THEN m
  ELSE IF m.years[i].seek > 0
  THEN Written([m EXCEPT !.years[i].dirty = FALSE], m.years[i].seek, m.years[i].buf)
  ELSE LET at == NewPlace(m) IN
       Written([m EXCEPT !.years[i].dirty = FALSE, !.years[i].seek = at,
                         !.chan = SetTable(@, i, at)], at, m.years[i].buf)

UpdateYear(m, i) ==
  IF ~m.years[i].dirty \/ ~m.open THEN m
  ELSE IF m.years[i].seek > 0
  THEN Written([m EXCEPT !.years[i].dirty = FALSE], m.years[i].seek, m.years[i].buf)
  ELSE LET at == NewPlace(m) IN
       Written([m EXCEPT !.years[i].dirty = FALSE, !.years[i].seek = at, !.eof = at,
                         !.chan = SetTable(@, i, at)], at, m.years[i].buf)

\* The index of the year of a day in the table of the channel.
YearAt(m, d) == YearOfDay(d) - m.chan.buf.base

UpdateDay(m, d) ==
  IF ~m.days[d].dirty \/ ~m.open THEN m
  ELSE IF m.days[d].seek > 0
  THEN Written([m EXCEPT !.days[d].dirty = FALSE], m.days[d].seek, m.days[d].buf)
  ELSE LET at == NewPlace(m) IN
       Written([m EXCEPT !.days[d].dirty = FALSE, !.days[d].seek = at, !.eof = at,
                         !.years[YearAt(m, d)] = SetTable(@, d % YearDays, at)],
               at, m.days[d].buf)

-----------------------------------------------------------------------------
\* Mutant: the day's first file is taken for its last.
LoadFirstFile(m, d, node) ==
  IF node.buf.first = 0 THEN m
  ELSE LET e == node.buf.slot[SlotOf(node.buf.first)] IN
       [m EXCEPT !.last = [start |-> e.start, end |-> e.end, seek |-> node.buf.first, day |-> d]]

(* RootNode::GetChannelNode.  A channel that is in the file is loaded with *)
(* its last year, that year's last day and that day's last file.           *)
LoadLastFile(m, d, node) ==
  IF node.buf.last = 0 THEN m
  ELSE LET e == node.buf.slot[SlotOf(node.buf.last)] IN
       [m EXCEPT !.last = [start |-> e.start, end |-> e.end, seek |-> node.buf.last, day |-> d]]

LoadLastDay(m, i) ==
  LET year == m.years[i].buf IN
  IF year.last = -1 \/ year.table[year.last] = 0 THEN m
  ELSE LET d == (m.chan.buf.base + i - 1) * YearDays + year.last
           node == LoadedNode(year.table[year.last], OnDisk(year.table[year.last]))
       IN LoadLastFile([m EXCEPT !.days[d] = node], d, node)

LoadLastYear(m) ==
  LET channel == m.chan.buf IN
  IF channel.base = 0 \/ channel.last = -1 \/ channel.table[channel.last] = 0 THEN m
  ELSE LoadLastDay([m EXCEPT !.years[channel.last] =
                      LoadedNode(channel.table[channel.last], OnDisk(channel.table[channel.last]))],
                   channel.last)

GetChannelNode(m) ==
  IF m.chan.loaded THEN m
  ELSE IF m.open /\ m.root # 0
  THEN LoadLastYear([m EXCEPT !.chan = LoadedNode(m.root, OnDisk(m.root))])
  ELSE UpdateRoot(UpdateChannel([m EXCEPT !.chan = NewNode(NewChannelBuffer)]))

-----------------------------------------------------------------------------
(* ChannelNode::GetYearNode and YearNode::GetDateNode with isCreate: load  *)
(* the node, or create it.  A day is written as soon as it is created.     *)
SetBase(m, t) ==
  IF m.chan.buf.base # 0 THEN m
  ELSE [m EXCEPT !.chan.buf.base = Year(t), !.chan.dirty = TRUE]

HasYear(m, t) == Year(t) - m.chan.buf.base \in YearIndex

GetYearNode(m, i) ==
  IF m.years[i].loaded THEN m
  ELSE LET at == m.chan.buf.table[i] IN
       [m EXCEPT !.years[i] = IF m.open /\ at # 0 THEN LoadedNode(at, OnDisk(at))
                                                  ELSE NewNode(NewYearBuffer)]

GetDateNode(m, d) ==
  IF m.days[d].loaded THEN m
  ELSE LET at == m.years[YearAt(m, d)].buf.table[d % YearDays] IN
       IF m.open /\ at # 0
       THEN [m EXCEPT !.days[d] = LoadedNode(at, OnDisk(at))]
       ELSE UpdateDay([m EXCEPT !.days[d] = NewNode(NewDayBuffer)], d)

\* DateNode::SetBufferContent sets the place of the file it is given.
PlaceOf(m, d, f) == IF m.days[d].seek > 0 THEN Entry(m.days[d].seek, Slot(f.start)) ELSE f.seek

\* Mutant: the link to the file before is not set.
SetSlotNoPrev(buf, place, f, prev, next) ==
  [buf EXCEPT
     !.slot[Slot(f.start)] = [start |-> f.start, end |-> f.end, prev |-> @.prev,
                              next |-> IF next > 0 THEN next ELSE @.next],
     !.first = IF place > 0 /\ (@ = 0 \/ place < @) THEN place ELSE @,
     !.last = IF place > 0 /\ (@ = 0 \/ place > @) THEN place ELSE @]

\* The buffer of a day with the file f at its place; a link of 0 stays as it is.
SetSlot(buf, place, f, prev, next) ==
  [buf EXCEPT
     !.slot[Slot(f.start)] = [start |-> f.start, end |-> f.end,
                              prev |-> IF prev > 0 THEN prev ELSE @.prev,
                              next |-> IF next > 0 THEN next ELSE @.next],
     !.first = IF place > 0 /\ (@ = 0 \/ place < @) THEN place ELSE @,
     !.last = IF place > 0 /\ (@ = 0 \/ place > @) THEN place ELSE @]

SetFile(m, d, f, prev, next) ==
  LET node == m.days[d]
      buf == SetSlot(node.buf, PlaceOf(m, d, f), f, prev, next)
  IN IF Day(f.start) # d THEN m
     ELSE [m EXCEPT !.days[d] = [node EXCEPT !.dirty = TRUE, !.buf = buf]]

-----------------------------------------------------------------------------
(* RootNode::InsertIndex, the part that changes nodes and writes them.     *)
NewFile(c) == [start |-> c.start, end |-> c.end, seek |-> 0, day |-> -1]

SaveTree(m, d) == UpdateRoot(UpdateChannel(UpdateYear(UpdateDay(m, d), YearAt(m, d))))

\* The nodes for the day of c, loaded or created.
WithNodes(m, c) == GetDateNode(GetYearNode(m, Year(c.start) - m.chan.buf.base), Day(c.start))

(* The first file of the channel.                                          *)
InsertFirst(m0, c) ==
  LET m == SetBase(m0, c.start)
      d == Day(c.start)
      n == WithNodes(m, c)
      f == [NewFile(c) EXCEPT !.day = d, !.seek = PlaceOf(n, d, NewFile(c))]
  IN IF HasYear(m, c.start)
     THEN SaveTree([SetFile(n, d, f, 0, 0) EXCEPT !.last = f], d)
     ELSE UpdateRoot(UpdateChannel([m EXCEPT !.last = NewFile(c)]))

\* Mutant: the file before gets its link, but is not written when it is of another day.
UpdateLastDaySkipped(m, last, d) == m

(* The day of the file before, when the new file is of another day, and    *)
(* its year when that is another one too.                                  *)
UpdateLastDay(m, last, d) ==
  IF last.day = d THEN m
  ELSE LET n == UpdateDay(m, last.day) IN
       IF YearAt(m, last.day) = YearAt(m, d) THEN n ELSE UpdateYear(n, YearAt(m, last.day))

(* A later file: it goes to its day, or when the table of years does not   *)
(* reach it, nowhere (it keeps the parent of the file before); then the    *)
(* file before gets its link, and the nodes are written.                   *)
InsertAfter(m, c) ==
  LET last == m.last
      n == IF HasYear(m, c.start) THEN WithNodes(m, c) ELSE m
      d == IF HasYear(m, c.start) THEN Day(c.start) ELSE last.day
      f == [NewFile(c) EXCEPT !.day = d,
                              !.seek = IF Day(c.start) = d THEN PlaceOf(n, d, NewFile(c)) ELSE 0]
      placed == SetFile(n, d, f, last.seek, 0)
      linked == SetFile(placed, last.day, last, 0, f.seek)
  IN SaveTree(UpdateLastDay([linked EXCEPT !.last = f, !.prevDay = last.day], last, d), d)

(* InsertIndex then deletes the file before the last one, with its day     *)
(* when that is another day than the last one's, and its year likewise.    *)
(* The tables keep the pointers.  Deleting a year deletes the days in its  *)
(* table, and the code writes to the day afterwards.                       *)
YearChanges(m) == YearAt(m, m.prevDay) # YearAt(m, m.last.day)

\* Mutant: the day is deleted although the last file is of it, too.
DeletesDayAlways(m) == m.prevDay # -1

DeletesDay(m) == m.prevDay # -1 /\ m.prevDay # m.last.day

\* The nodes that the handler follows pointers to.
Used(m, c) ==
  {m.last.day} \cup (IF HasYear(m, c.start) THEN {Day(c.start)} ELSE {})
               \cup (IF DeletesDay(m) THEN {m.prevDay} ELSE {})

HeapAfter(m, c) ==
  IF m.last.seek = 0 /\ m.last.start = 0 THEN heap
  ELSE [days |-> IF DeletesDay(m) THEN heap.days \cup {m.prevDay} ELSE heap.days,
        corrupt |-> \/ -1 \in Used(m, c)
                    \/ Used(m, c) \cap heap.days # {}
                    \/ DeletesDay(m) /\ YearChanges(m)]

-----------------------------------------------------------------------------
NewMemory(d) ==
  [open |-> TRUE, root |-> d.root, rootDirty |-> FALSE, chan |-> NoNode,
   years |-> [i \in YearIndex |-> NoNode], days |-> [x \in Days |-> NoNode],
   last |-> NoFile, prevDay |-> -1, eof |-> Len(d.nodes), writes |-> <<>>]
CleanHeap == [days |-> {}, corrupt |-> FALSE]

Init ==
  /\ disk = [root |-> 0, nodes |-> <<>>]
  /\ pending = <<>>
  /\ mem = NewMemory(disk)
  /\ heap = CleanHeap
  /\ up = TRUE
  /\ added = <<>>
  /\ faults = [crashes |-> 0, failures |-> 0, skipped |-> {}]

AddedFiles == {added[i] : i \in DOMAIN added}

\* The file whose insertion is not complete, if there is one.
InHand == IF mem.writes = <<>> THEN {} ELSE {added[Len(added)]}

(* StreamingMediaLibrary::AddMediaFile, after the file got its name.  The  *)
(* recorder's clock is not set back.  When the file before has no day, the *)
(* code follows a null pointer before it changes anything.                 *)
InsertIndex(c) ==
  /\ up /\ mem.writes = <<>> /\ ~heap.corrupt
  /\ c \notin AddedFiles
  /\ \A e \in AddedFiles : e.end <= c.start
  /\ LET m == GetChannelNode(mem)
     IN /\ mem' = IF m.last = NoFile THEN InsertFirst(m, c)
                  ELSE IF m.last.day = -1 THEN m
                  ELSE InsertAfter(m, c)
        /\ heap' = HeapAfter(m, c)
  /\ added' = Append(added, c)
  /\ faults' = IF mem.open THEN faults ELSE [faults EXCEPT !.skipped = @ \cup {c}]
  /\ UNCHANGED <<disk, pending, up>>

\* Mutant: the buffer of the stream is not flushed first.
WriteNodeUnflushed ==
  /\ up /\ mem.writes # <<>>
  /\ pending' = Append(pending, Head(mem.writes))
  /\ mem' = [mem EXCEPT !.writes = Tail(@)]
  /\ UNCHANGED <<disk, heap, up, added, faults>>

(* IndexFileWrite: the next write of the handler.                          *)
WriteNode ==
  /\ up /\ mem.writes # <<>>
  /\ LET w == Head(mem.writes) IN
     IF IsLarge(w) THEN disk' = Put(Flushed, w) /\ pending' = <<>>
                   ELSE disk' = Flushed /\ pending' = <<w>>
  /\ mem' = [mem EXCEPT !.writes = Tail(@)]
  /\ UNCHANGED <<heap, up, added, faults>>

(* The write fails: the stream is closed for good, the other nodes of the  *)
(* handler find no stream and are not written.  fclose may still manage to *)
(* write what is in the buffer.                                            *)
WriteFails ==
  /\ up /\ mem.writes # <<>> /\ faults.failures < MaxFailures
  /\ disk' \in {disk, Flushed}
  /\ pending' = <<>>
  /\ mem' = [mem EXCEPT !.writes = <<>>, !.open = FALSE]
  /\ faults' = [faults EXCEPT !.failures = @ + 1, !.skipped = @ \cup InHand]
  /\ UNCHANGED <<heap, up, added>>

(* The recorder ends: it crashes, or it exits, which flushes the stream.   *)
Crash ==
  /\ up /\ faults.crashes < MaxCrashes
  /\ up' = FALSE /\ pending' = <<>>
  /\ mem' = NewMemory(disk) /\ heap' = CleanHeap
  /\ faults' = [faults EXCEPT !.crashes = @ + 1, !.skipped = @ \cup InHand]
  /\ UNCHANGED <<disk, added>>

Exit ==
  /\ up /\ mem.writes = <<>>
  /\ up' = FALSE /\ pending' = <<>> /\ disk' = Flushed
  /\ mem' = NewMemory(Flushed) /\ heap' = CleanHeap
  /\ UNCHANGED <<added, faults>>

(* A new process; what it starts from is set when the old one ends.        *)
Restart ==
  /\ ~up
  /\ up' = TRUE
  /\ UNCHANGED <<disk, pending, mem, heap, added, faults>>

Next ==
  \/ \E c \in Clips : InsertIndex(c)
  \/ WriteNode \/ WriteFails
  \/ Crash \/ Exit \/ Restart

Spec == Init /\ [][Next]_vars

-----------------------------------------------------------------------------
(* What a reader of the file sees: by the tables, as a search does, and by *)
(* the links from the first file on, as playback does.                     *)
IsNode(d, at, kind) == at \in DOMAIN d.nodes /\ d.nodes[at].kind = kind
SlotAt(d, e) == IF IsNode(d, NodeOf(e), "day") /\ SlotOf(e) \in SlotIndex
                THEN d.nodes[NodeOf(e)].slot[SlotOf(e)] ELSE EmptySlot

YearsOf(d) == IF d.root = 0 THEN {} ELSE {d.nodes[d.root].table[i] : i \in YearIndex} \ {0}
DaysOf(d) == UNION {{d.nodes[y].table[i] : i \in DayIndex} \ {0} : y \in YearsOf(d)}
TreeFiles(d) ==
  (UNION {{d.nodes[a].slot[i].start : i \in SlotIndex} : a \in DaysOf(d)}) \ {0}

FirstEntry(d) ==
  LET least(a) == d.nodes[a].first
      starts == {SlotAt(d, least(a)).start : a \in DaysOf(d)} \ {0}
  IN IF starts = {} THEN 0
     ELSE LET t == CHOOSE x \in starts : \A y \in starts : x <= y
          IN least(CHOOSE a \in DaysOf(d) : SlotAt(d, least(a)).start = t)

\* The starts of the files in the order of their links.  (A bound variable
\* over a singleton has TLC evaluate the walk so far once.)
Follow(d, w) ==
  LET f == SlotAt(d, w.at) IN
  IF f.start = 0 THEN w ELSE [at |-> f.next, starts |-> Append(w.starts, f.start)]
Walk(d) ==
  LET walk[n \in 0 .. Cardinality(Clips)] ==
        IF n = 0 THEN [at |-> FirstEntry(d), starts |-> <<>>]
        ELSE CHOOSE r \in {Follow(d, w) : w \in {walk[n - 1]}} : TRUE
  IN walk[Cardinality(Clips)].starts
ChainStarts(file) == CHOOSE s \in {Walk(d) : d \in {file}} : TRUE
ChainFiles(d) == LET c == ChainStarts(d) IN {c[n] : n \in DOMAIN c}

-----------------------------------------------------------------------------
TypeOK ==
  /\ disk.root \in 0 .. Len(disk.nodes)
  /\ \A a \in DOMAIN disk.nodes : disk.nodes[a].kind \in {"channel", "year", "day"}
  /\ Len(pending) <= 1
  /\ mem.last.day \in Days \cup {-1}
  /\ heap.days \subseteq Days /\ heap.corrupt \in BOOLEAN
  /\ up \in BOOLEAN
  /\ AddedFiles \subseteq Clips
  /\ faults.crashes \in 0 .. MaxCrashes /\ faults.failures \in 0 .. MaxFailures

(* Whenever the recorder stops, the tables on the disk lead only to nodes  *)
(* that are on the disk, of the kind that belongs there: a node is written *)
(* before its parent, although the writes go through a buffer and some are *)
(* lost.                                                                   *)
TablesLeadToNodes ==
  /\ disk.root # 0 => IsNode(disk, disk.root, "channel")
  /\ \A a \in YearsOf(disk) : IsNode(disk, a, "year")
  /\ \A a \in DaysOf(disk) : IsNode(disk, a, "day")

(* A crash costs at most one of the files whose insertion was complete (a  *)
(* write that fails, likewise, what the buffer of the stream held):        *)
(* all others are found through the tables.  (Files added after a write    *)
(* failed, or in a year beyond the table, are not in the index at all.)    *)
Complete == AddedFiles \ (InHand \cup faults.skipped)
InTable(c) ==
  Flushed.root # 0 => Year(c.start) - Flushed.nodes[Flushed.root].base \in YearIndex
CrashLosesAtMostOne ==
  Cardinality({c \in Complete : InTable(c) /\ c.start \notin TreeFiles(Flushed)})
    <= faults.crashes + faults.failures

(* The two ways to find files agree: what the tables hold is on the chain, *)
(* and a file that only the chain leads to is the last one of it.          *)
TablesAgreeWithChain ==
  LET chain == ChainStarts(Flushed) IN
  /\ mem.writes = <<>> => TreeFiles(Flushed) \subseteq ChainFiles(Flushed)
  /\ \A n \in DOMAIN chain : n < Len(chain) => chain[n] \in TreeFiles(Flushed)

(* Backward playback visits the files of forward playback: the file after  *)
(* a file leads back to it.                                                *)
LinksGoBothWays ==
  \A a \in DaysOf(Flushed) : \A i \in SlotIndex :
    LET e == Entry(a, i)
        f == SlotAt(Flushed, e).next
    IN f # 0 /\ SlotAt(Flushed, f).start # 0 => SlotAt(Flushed, f).prev = e

(* The recorder follows a pointer to a deleted node only when it deletes   *)
(* the days of a year that has ended: when a file is added after one of a  *)
(* new year.                                                               *)
HeapFailsOnlyAfterNewYear ==
  heap.corrupt =>
    \E i, j \in DOMAIN added :
      i < j /\ j < Len(added) /\ Year(added[i].start) < Year(added[j].start)

(* The chain of files is the one of module MediaChain: it only changes at  *)
(* its end.                                                                *)
Chain == INSTANCE MediaChain WITH Times <- {c.start : c \in Clips},
                                  files <- ChainStarts(Flushed)
ImplementsMediaChain == Chain!Spec
=============================================================================
