------------------------------ MODULE FileSearch ------------------------------
(***************************************************************************)
(* The playback server searches the index that the recorder, another       *)
(* process, writes: LocateMediaFile with FORWARD_SEARCH and                *)
(* BACKWARD_SEARCH in streaming_media_library.cpp, together with the       *)
(* recorder of module FileIndex.                                           *)
(*                                                                         *)
(* The server keeps the nodes it has loaded.  A search opens .index anew   *)
(* and reads the buffers of the channel, the year and the day again, one   *)
(* after the other, while the recorder goes on writing; the root is read   *)
(* only once, when the server starts.  A node of a table that is not       *)
(* loaded yet is loaded with the time of the request, not with the time    *)
(* that belongs to its place in the table.                                 *)
(*                                                                         *)
(* The sessions' handlers run on two or three threads, and all searches    *)
(* share the stream pIndexFile and the nodes, without a lock.  A session   *)
(* is "using" them from the moment it opens the stream or goes on to the   *)
(* next node, until it has read it.  Searches interleave at these nodes.   *)
(* When two sessions are using them at once, one closes the stream under   *)
(* the other or moves its position, and what follows is undefined: nothing *)
(* in the code prevents it, and the server takes no step after that.       *)
(***************************************************************************)
EXTENDS FileIndex

CONSTANTS
  Searchers, \* the sessions of the server that search
  Requests   \* the times that may be searched for

ASSUME FileSearchAssumption == Requests \subseteq Nat \ {0}

VARIABLES
  root,    \* the root as the server read it, -1 before it starts
  chan,    \* its node for the channel: key is 1 when the server has created it
  years,   \* its nodes for the years: key is the year the node was made for
  days,    \* its nodes for the days of each year: key likewise
  search,  \* of each session, the search under way, or the last one and its result
  using    \* the sessions that are using the stream and the nodes

reader == <<root, chan, years, days, search, using>>
searchVars == <<vars, reader>>

-----------------------------------------------------------------------------
NoEntry == [loaded |-> FALSE, key |-> 0, seek |-> 0]
Keyed(key, at) == [loaded |-> TRUE, key |-> key, seek |-> at]
NoSearch == [at |-> "idle", time |-> 0, dir |-> "forward", year |-> 0, day |-> 0,
             found |-> NoFile, wild |-> FALSE, covering |-> {}]

(* The first index from i up to the last one, or from i down to the first  *)
(* one, at which there is a node, loaded or not; -1 when there is none.    *)
FirstFrom(S) == IF S = {} THEN -1 ELSE CHOOSE i \in S : \A j \in S : i <= j
LastTo(S) == IF S = {} THEN -1 ELSE CHOOSE i \in S : \A j \in S : i >= j
Pick(dir, S) == IF dir = "forward" THEN FirstFrom(S) ELSE LastTo(S)

-----------------------------------------------------------------------------
(* ChannelNode::GetYearNodeForwardly and GetYearNodeBackwardly, on the     *)
(* channel's buffer b: the index of a year of the table.  A year before    *)
(* the table makes the index of the backward search the last one: it is    *)
(* compared as an unsigned number.                                         *)
YearForwardly(b, t) ==
  LET from == IF Year(t) <= b.base THEN 0 ELSE Year(t) - b.base IN
  IF b.base = 0 THEN -1
  ELSE FirstFrom({i \in YearIndex : from <= i /\ i <= b.last /\
                                    (years[i].loaded \/ b.table[i] # 0)})

YearBackwardly(b, t) ==
  LET index == Year(t) - b.base
      from == IF index \in YearIndex THEN index ELSE YearCap - 1
  IN IF b.base = 0 \/ b.first = -1 THEN -1
     ELSE LastTo({i \in YearIndex : b.first <= i /\ i <= from /\
                                    (years[i].loaded \/ b.table[i] # 0)})

\* The node in the table, or a new one made for the request.
Kept(node, key, at) == IF node.loaded THEN node ELSE Keyed(key, at)

(* YearNode::GetDateNodeForwardly and GetDateNodeBackwardly, on the year's *)
(* buffer b; the year believes that it begins at the year of its key.      *)
YearStart(y) == (years[y].key - 1) * YearDays * DayLen
YearEnd(y) == years[y].key * YearDays * DayLen

\* Mutant: the last day of the year is left out.
DayForwardlyShort(y, b, t) ==
  LET from == IF t <= YearStart(y) THEN 0 ELSE (t - YearStart(y)) \div DayLen IN
  IF t >= YearEnd(y) THEN -1
  ELSE FirstFrom({i \in DayIndex : from <= i /\ i < b.last /\
                                   (days[<<y, i>>].loaded \/ b.table[i] # 0)})

DayForwardly(y, b, t) ==
  LET from == IF t <= YearStart(y) THEN 0 ELSE (t - YearStart(y)) \div DayLen IN
  IF t >= YearEnd(y) THEN -1
  ELSE FirstFrom({i \in DayIndex : from <= i /\ i <= b.last /\
                                   (days[<<y, i>>].loaded \/ b.table[i] # 0)})

DayBackwardly(y, b, t) ==
  LET last == IF t >= YearEnd(y) THEN YearEnd(y) - 1 ELSE t
      from == (last - YearStart(y)) \div DayLen
  IN IF t < YearStart(y) \/ b.first = -1 THEN -1
     ELSE LastTo({i \in DayIndex : b.first <= i /\ i <= from /\
                                   (days[<<y, i>>].loaded \/ b.table[i] # 0)})

-----------------------------------------------------------------------------
(* DateNode::GetFileNodeForwardly and GetFileNodeBackwardly, on the buffer *)
(* b of the day node at address a, which believes that it begins at        *)
(* "start".  Each returns the set of entries it may return (0: none): it   *)
(* follows links out of the buffer, and what it reads there is undefined.  *)
InBuffer(a, e) == NodeOf(e) = a
At(b, e) == b.slot[SlotOf(e)]

\* The entry at which the walk begins: the file before, when it is of the
\* same day (forwards), the file after (backwards).
WalkFrom(a, b, i) ==
  LET e == Entry(a, i)
      p == At(b, e).prev
  IN IF p >= Entry(a, 0) /\ InBuffer(a, p) /\ At(b, p).start # 0 THEN p ELSE e
WalkBackFrom(a, b, i) ==
  LET e == Entry(a, i)
      n == At(b, e).next
  IN IF InBuffer(a, n) /\ At(b, n).start # 0 THEN n ELSE e

(* The entry at which a walk ends that goes on from the entries it passes  *)
(* by their links; the number of slots bounds its length.                  *)
WalkEnd(from, passed, link) ==
  LET entry[n \in 0 .. Slots] ==
        IF n = 0 THEN from
        ELSE IF entry[n - 1] \in passed THEN link[entry[n - 1]] ELSE entry[n - 1]
  IN entry[Slots]

\* Mutant: a file that ends with the time is taken for one that covers it.
WalkToEnd(a, b, from, t, bound) ==
  LET inside == {Entry(a, i) : i \in {j \in SlotIndex : b.slot[j].start # 0 /\ b.slot[j].start < bound}}
      passed == {x \in inside : t > At(b, x).end}
      e == WalkEnd(from, passed, [x \in passed |-> At(b, x).next])
  IN IF e \in inside \ passed THEN {e}
     ELSE IF e >= Entry(a, 0) /\ ~InBuffer(a, e) THEN {0, e} ELSE {0}

\* The walk forwards: on until a file ends after t.
WalkForwardly(a, b, from, t, bound) ==
  LET inside == {Entry(a, i) : i \in {j \in SlotIndex : b.slot[j].start # 0 /\ b.slot[j].start < bound}}
      passed == {x \in inside : t >= At(b, x).end}
      e == WalkEnd(from, passed, [x \in passed |-> At(b, x).next])
  IN IF e \in inside \ passed THEN {e}
     ELSE IF e >= Entry(a, 0) /\ ~InBuffer(a, e) THEN {0, e} ELSE {0}

\* The walk backwards: on until a file begins before t, or at it.
WalkBackwardly(a, b, from, t, bound) ==
  LET inside == {Entry(a, i) : i \in {j \in SlotIndex : b.slot[j].end # 0 /\ b.slot[j].end >= bound}}
      passed == {x \in inside : t < At(b, x).start}
      e == WalkEnd(from, passed, [x \in passed |-> At(b, x).prev])
  IN IF e \in inside \ passed THEN {e}
     ELSE IF e < Entry(a, Slots) /\ ~InBuffer(a, e) THEN {0, e} ELSE {0}

FilesForwardly(a, b, start, t) ==
  LET index == IF t <= start THEN 0 ELSE (t - start) \div SlotLen
      lastStart == IF b.last >= Entry(a, 0) THEN At(b, b.last).start ELSE 0
      last == IF lastStart > start THEN (lastStart - start) \div SlotLen ELSE Slots - 1
      i == FirstFrom({x \in SlotIndex : index <= x /\ x <= last /\ b.slot[x].start # 0})
  IN IF t >= start + DayLen \/ i = -1 THEN {0}
     ELSE WalkForwardly(a, b, WalkFrom(a, b, i), t, start + (i + 1) * SlotLen)

FilesBackwardly(a, b, start, t) ==
  LET end == start + DayLen
      index == ((IF t >= end THEN end - 1 ELSE t) - start) \div SlotLen
      firstStart == IF b.first >= Entry(a, 0) THEN At(b, b.first).start ELSE 0
      first == IF firstStart > start THEN (firstStart - start) \div SlotLen ELSE 0
      i == LastTo({x \in SlotIndex : first <= x /\ x <= index /\ b.slot[x].start # 0})
  IN IF t < start \/ i = -1 THEN {0}
     ELSE WalkBackwardly(a, b, WalkBackFrom(a, b, i), t, start + i * SlotLen)

-----------------------------------------------------------------------------
SearchInit ==
  /\ Init
  /\ root = -1
  /\ chan = NoEntry
  /\ years = [i \in YearIndex |-> NoEntry]
  /\ days = [p \in YearIndex \X DayIndex |-> NoEntry]
  /\ search = [c \in Searchers |-> NoSearch]
  /\ using = {}

(* RootNode::RootNode in the server.                                       *)
StartServer ==
  /\ root = -1
  /\ root' = disk.root
  /\ UNCHANGED <<vars, chan, years, days, search, using>>

(* The files in the index that cover t on the day they began.  One that    *)
(* lasts beyond its slot is reached from a later slot only, so there must  *)
(* be a file in that slot or after it.                                     *)
CoveringOnDisk(t) ==
  {c \in Clips :
     /\ c.start <= t /\ t < c.end /\ c.start \in TreeFiles(disk)
     /\ Day(c.start) = Day(t)
     /\ \E f \in TreeFiles(disk) : Day(f) = Day(t) /\ Slot(t) <= Slot(f)}

Begun(t, dir) == [NoSearch EXCEPT !.at = "channel", !.time = t, !.dir = dir,
                                  !.covering = CoveringOnDisk(t)]

\* Nothing undefined has happened in the server.
Defined == Cardinality(using) <= 1

\* Session c reads the next node of its search, and goes on to the place "at".
Alone(c, at) == search[c].at = at /\ using = {c} /\ using' = {}

(* LocateMediaFile of session c: the stream is closed and opened anew.     *)
BeginSearch(c, t, dir) ==
  /\ root # -1 /\ Defined
  /\ search[c].at \in {"idle", "done"}
  /\ search' = [search EXCEPT ![c] = Begun(t, dir)]
  /\ using' = using \cup {c}
  /\ UNCHANGED <<vars, root, chan, years, days>>

(* The session goes on to the next node.                                   *)
Use(c) ==
  /\ Defined /\ c \notin using
  /\ search[c].at \in {"year", "day", "file"}
  /\ using' = using \cup {c}
  /\ UNCHANGED <<vars, root, chan, years, days, search>>

(* GetChannelNode of a search: the node is there, or is loaded with its    *)
(* last year and that year's last day ...                                  *)
FindChannel(c) ==
  /\ Alone(c, "channel")
  /\ chan.loaded \/ root # 0
  /\ search' = [search EXCEPT ![c].at = "year"]
  /\ IF chan.loaded THEN UNCHANGED <<chan, years, days>>
     ELSE LET b == disk.nodes[root]
              y == IF b.last = -1 THEN 0 ELSE b.table[b.last]
              d == IF y = 0 THEN -1 ELSE disk.nodes[y].last
              x == IF d = -1 THEN 0 ELSE disk.nodes[y].table[d]
          IN /\ chan' = Keyed(0, root)
             /\ years' = IF y = 0 THEN years ELSE [years EXCEPT ![b.last] = Keyed(b.base + b.last, y)]
             /\ days' = IF x = 0 THEN days
                        ELSE [days EXCEPT ![<<b.last, d>>] = Keyed((b.base + b.last - 1) * YearDays + d, x)]
  /\ UNCHANGED <<vars, root>>

(* ... or, when the root that the server has read does not know the        *)
(* channel, a new one is appended and the server writes its root.          *)
CreateChannel(c) ==
  /\ Alone(c, "channel")
  /\ ~chan.loaded /\ root = 0
  /\ mem.writes = <<>> /\ pending = <<>>
  /\ LET at == Len(disk.nodes) + 1 IN
     /\ disk' = [root |-> at, nodes |-> Append(disk.nodes, NewChannelBuffer)]
     /\ mem' = IF up THEN [mem EXCEPT !.eof = at] ELSE NewMemory(disk')
     /\ root' = at /\ chan' = Keyed(1, at)
  /\ search' = [search EXCEPT ![c].at = "year"]
  /\ UNCHANGED <<pending, heap, up, added, faults, years, days>>

\* Mutant: the year that was picked is kept where all sessions keep theirs.
FindYearForAll(c) ==
  /\ Alone(c, "year")
  /\ LET s == search[c]
         b == disk.nodes[chan.seek]
         y == IF s.dir = "forward" THEN YearForwardly(b, s.time) ELSE YearBackwardly(b, s.time)
     IN IF y = -1
        THEN search' = [search EXCEPT ![c].at = "done"] /\ UNCHANGED years
        ELSE /\ search' = [x \in Searchers |-> [search[x] EXCEPT !.at = IF x = c THEN "day" ELSE @,
                                                                !.year = y]]
             /\ years' = [years EXCEPT ![y] = Kept(@, Year(s.time), b.table[y])]
  /\ UNCHANGED <<vars, root, chan, days>>

FindYear(c) ==
  /\ Alone(c, "year")
  /\ LET s == search[c]
         b == disk.nodes[chan.seek]
         y == IF s.dir = "forward" THEN YearForwardly(b, s.time) ELSE YearBackwardly(b, s.time)
     IN IF y = -1
        THEN search' = [search EXCEPT ![c].at = "done"] /\ UNCHANGED years
        ELSE /\ search' = [search EXCEPT ![c].at = "day", ![c].year = y]
             /\ years' = [years EXCEPT ![y] = Kept(@, Year(s.time), b.table[y])]
  /\ UNCHANGED <<vars, root, chan, days>>

FindDay(c) ==
  /\ Alone(c, "day")
  /\ LET s == search[c]
         y == s.year
         b == disk.nodes[years[y].seek]
         d == IF s.dir = "forward" THEN DayForwardly(y, b, s.time) ELSE DayBackwardly(y, b, s.time)
     IN IF d = -1
        THEN search' = [search EXCEPT ![c].at = "done"] /\ UNCHANGED days
        ELSE /\ search' = [search EXCEPT ![c].at = "file", ![c].day = d]
             /\ days' = [days EXCEPT ![<<y, d>>] = Kept(@, Day(s.time), b.table[d])]
  /\ UNCHANGED <<vars, root, chan, years>>

FindFile(c) ==
  /\ Alone(c, "file")
  /\ LET s == search[c]
         node == days[<<s.year, s.day>>]
         b == disk.nodes[node.seek]
         start == node.key * DayLen
     IN \E e \in IF s.dir = "forward" THEN FilesForwardly(node.seek, b, start, s.time)
                                       ELSE FilesBackwardly(node.seek, b, start, s.time) :
          search' = [search EXCEPT ![c].at = "done", ![c].found = SlotAt(disk, e),
                                   ![c].wild = ~InBuffer(node.seek, e)]
  /\ UNCHANGED <<vars, root, chan, years, days>>

(* LocateMediaFile of a session that plays the file it has found, for the  *)
(* next one or the one before: the stream is opened anew here, too.  What  *)
(* the link gives is in module PbReader.                                   *)
FollowLink(c) ==
  /\ Defined
  /\ search[c].at = "done" /\ search[c].found.start # 0
  /\ search' = [search EXCEPT ![c] = [NoSearch EXCEPT !.at = "link"]]
  /\ using' = using \cup {c}
  /\ UNCHANGED <<vars, root, chan, years, days>>

ReadLink(c) ==
  /\ Alone(c, "link")
  /\ search' = [search EXCEPT ![c].at = "idle"]
  /\ UNCHANGED <<vars, root, chan, years, days>>

Directions == {"forward", "backward"}
SearchNext ==
  \/ Next /\ UNCHANGED reader
  \/ StartServer
  \/ \E c \in Searchers :
       \/ \E t \in Requests, dir \in Directions : BeginSearch(c, t, dir)
       \/ Use(c)
       \/ FindChannel(c) \/ CreateChannel(c) \/ FindYear(c) \/ FindDay(c) \/ FindFile(c)
       \/ FollowLink(c) \/ ReadLink(c)

SearchSpec == SearchInit /\ [][SearchNext]_searchVars

-----------------------------------------------------------------------------
SearchTypeOK ==
  /\ TypeOK
  /\ root \in -1 .. Len(disk.nodes)
  /\ chan.seek \in 0 .. Len(disk.nodes)
  /\ using \subseteq Searchers
  /\ \A c \in Searchers : search[c].year \in YearIndex /\ search[c].day \in DayIndex

(* The nodes that the server has loaded are those of the index, and each   *)
(* was loaded as the node of its place in the table.                       *)
ReaderInStep ==
  /\ chan.key = 0
  /\ \A i \in YearIndex : years[i].loaded => years[i].key = disk.nodes[chan.seek].base + i
  /\ \A i \in YearIndex, j \in DayIndex : days[<<i, j>>].loaded =>
       days[<<i, j>>].key = (disk.nodes[chan.seek].base + i - 1) * YearDays + j

(* What is found serves the request: a forward search returns no file that *)
(* has ended, a backward search none that has not begun, whatever nodes    *)
(* the requests before and those of other sessions have left in the        *)
(* server; unless the search followed a link out of the buffer and with a  *)
(* node in the wrong place.                                                *)
Serves(s) ==
  s.at = "done" /\ s.found.start # 0 /\ (s.wild => ReaderInStep) =>
    /\ s.dir = "forward" => s.time < s.found.end
    /\ s.dir = "backward" => s.found.start <= s.time
FoundServesRequest == \A c \in Searchers : Serves(search[c])

(* A file that covers the time and was in the index when the search began  *)
(* is the one that is found, in either direction, while the recorder goes  *)
(* on adding files and other sessions search; unless the server lost touch *)
(* with the index: it made a channel of its own, or an earlier request     *)
(* went to a day without files and left a node with the wrong time in its  *)
(* tables.                                                                 *)
CoveringFileIsFound ==
  \A c \in Searchers :
    search[c].at = "done" /\ search[c].covering # {} /\ ReaderInStep =>
      \E f \in search[c].covering : search[c].found.start = f.start
=============================================================================
