---------------------------- MODULE FileIndexProofs ----------------------------
(***************************************************************************)
(* The index on the disk can be read at any moment, the recorder uses no   *)
(* node that it has deleted before the year changes, the file after a file *)
(* leads back to it, and a crash costs at most one complete file: for      *)
(* every calendar and every set of files, any number of crashes and failed *)
(* writes.                                                                 *)
(*                                                                         *)
(* The argument: the owner of a place in the file (the channel, a year, a  *)
(* day) is fixed when the place is given out; K is the sequence of the     *)
(* owners.  In memory, in the queue of writes and on the disk, a table of  *)
(* the owner o leads to places of the owners that belong there (Fits), and *)
(* what a write leads to is on the disk when its turn comes (QueueOK).     *)
(* With a new process K is cut down to what has reached the disk.  The     *)
(* entries of files are treated likewise: X is the set of the files that   *)
(* have got one (LinkInv); their links lead to the same day or go with the *)
(* time (InOrder).                                                         *)
(*                                                                         *)
(* For the losses: entries are put into a node and never taken out, so a   *)
(* copy that is written later has all of an earlier one (Below), and what  *)
(* is in memory is what the file becomes when the queue is written         *)
(* (Becomes, Synced).  Nothing that was found is lost but with the write   *)
(* in the buffer of the stream (LossInv).                                  *)
(***************************************************************************)
EXTENDS FileIndex, FiniteSetTheorems, TLAPS

-----------------------------------------------------------------------------
(* The arithmetic of the calendar and of the places in the file.           *)

\* Quotient and remainder, by what they are.
LEMMA Quotient ==
  ASSUME NEW n \in Nat \ {0}, NEW q \in Nat, NEW r \in 0 .. n - 1
  PROVE  (q * n + r) \div n = q /\ (q * n + r) % n = r /\ q * n + r \in Nat
<1> SUFFICES ASSUME NEW x, x = q * n + r
             PROVE  x \div n = q /\ x % n = r /\ x \in Nat
  OBVIOUS
<1>1. q * n \in Nat /\ q * n = n * q
  OBVIOUS
<1>2. x \in Nat
  BY <1>1
<1>3. x \div n \in Nat /\ x % n \in 0 .. n - 1 /\ x = n * (x \div n) + (x % n)
  BY <1>2
<1> DEFINE p == x \div n
<1>4. p = q
  <2> SUFFICES ASSUME NEW u \in Nat, NEW s \in 0 .. n - 1, n * u + s = n * q + r PROVE u = q
    BY <1>1, <1>3
  <2>1. CASE u < q
    <3>1. n * (q - u) = n * q - n * u /\ q - u >= 1 /\ q - u \in Nat
      BY <2>1
    <3>2. n * (q - u) >= n
      BY <3>1
    <3>3. n * q \in Nat /\ n * u \in Nat
      OBVIOUS
    <3> QED  BY <3>1, <3>2, <3>3
  <2>2. CASE q < u
    <3>1. n * (u - q) = n * u - n * q /\ u - q >= 1 /\ u - q \in Nat
      BY <2>2
    <3>2. n * (u - q) >= n
      BY <3>1
    <3>3. n * q \in Nat /\ n * u \in Nat
      OBVIOUS
    <3> QED  BY <3>1, <3>2, <3>3
  <2> QED  BY <2>1, <2>2
<1>5. x % n = r
  BY <1>1, <1>3, <1>4
<1> QED  BY <1>2, <1>4, <1>5

LEMMA Remainder ==
  ASSUME NEW n \in Nat \ {0}, NEW x \in Nat
  PROVE  x \div n \in Nat /\ x % n \in 0 .. n - 1 /\ x = (x \div n) * n + (x % n)
<1>1. x \div n \in Nat /\ x % n \in 0 .. n - 1 /\ x = n * (x \div n) + (x % n)
  OBVIOUS
<1>2. \A q \in Nat : n * q = q * n
  OBVIOUS
<1> QED  BY <1>1, <1>2

LEMMA QuotientGrows ==
  ASSUME NEW n \in Nat \ {0}, NEW x \in Nat, NEW y \in Nat, x <= y
  PROVE  x \div n <= y \div n
<1> SUFFICES ASSUME NEW p \in Nat, NEW q \in Nat, NEW r \in 0 .. n - 1, NEW s \in 0 .. n - 1,
                    p * n + r <= q * n + s, p > q
             PROVE  FALSE
  BY Remainder
<1>1. (p - q) * n = p * n - q * n /\ p - q \in Nat /\ p - q >= 1
  OBVIOUS
<1>2. (p - q) * n >= n
  BY <1>1
<1>3. p * n \in Nat /\ q * n \in Nat
  OBVIOUS
<1> QED  BY <1>1, <1>2, <1>3

LEMMA PositiveSizes ==
  /\ SlotLen \in Nat \ {0} /\ Slots \in Nat \ {0} /\ YearDays \in Nat \ {0} /\ YearCap \in Nat \ {0}
  /\ DayLen \in Nat \ {0} /\ NodeSize \in Nat \ {0}
<1>1. SlotLen \in Nat \ {0} /\ Slots \in Nat \ {0} /\ YearDays \in Nat \ {0} /\ YearCap \in Nat \ {0}
  BY FileIndexAssumption
<1>2. SlotLen * Slots \in Nat /\ SlotLen * Slots # 0
  BY <1>1
<1> QED  BY <1>1, <1>2 DEF DayLen, NodeSize

LEMMA DayFacts ==
  ASSUME NEW t \in Nat
  PROVE  /\ Day(t) \in Nat /\ Year(t) \in Nat \ {0} /\ Year(t) = YearOfDay(Day(t))
         /\ Slot(t) \in SlotIndex
<1>1. Day(t) \in Nat /\ t % DayLen \in 0 .. DayLen - 1
  BY PositiveSizes, Remainder DEF Day
<1>2. Day(t) \div YearDays \in Nat
  BY <1>1, PositiveSizes, Remainder
<1>3. Slot(t) \in SlotIndex
  <2> DEFINE x == t % DayLen
             q == x \div SlotLen
  <2>1. x \in 0 .. DayLen - 1 /\ DayLen \in Nat \ {0}
    BY <1>1, PositiveSizes
  <2> HIDE DEF x
  <2>2. q \in Nat /\ x % SlotLen \in 0 .. SlotLen - 1 /\ x = q * SlotLen + (x % SlotLen)
    BY <2>1, PositiveSizes, Remainder
  <2>3. q < Slots
    <3> SUFFICES ASSUME q >= Slots PROVE FALSE
      BY <2>2, PositiveSizes
    <3> HIDE DEF q
    <3>1. (q - Slots) * SlotLen = q * SlotLen - Slots * SlotLen /\ (q - Slots) * SlotLen >= 0
      BY <2>2, PositiveSizes
    <3>2. Slots * SlotLen = DayLen /\ q * SlotLen \in Nat
      BY <2>2, PositiveSizes DEF DayLen
    <3> QED  BY <2>1, <2>2, <3>1, <3>2, PositiveSizes
  <2> QED  BY <2>2, <2>3, PositiveSizes DEF Slot, SlotIndex, x
<1> QED  BY <1>1, <1>2, <1>3 DEF Year, YearOfDay

\* A day is the one of its number in its year.
LEMMA DayInYear ==
  ASSUME NEW d \in Nat
  PROVE  /\ YearOfDay(d) \in Nat \ {0} /\ d % YearDays \in DayIndex
         /\ d = (YearOfDay(d) - 1) * YearDays + (d % YearDays)
<1>1. /\ d \div YearDays \in Nat /\ d % YearDays \in 0 .. YearDays - 1
      /\ d = (d \div YearDays) * YearDays + (d % YearDays)
  BY PositiveSizes, Remainder
<1>2. YearOfDay(d) - 1 = d \div YearDays
  BY <1>1 DEF YearOfDay
<1> QED  BY <1>1, <1>2 DEF YearOfDay, DayIndex

LEMMA DayOfIndex ==
  ASSUME NEW y \in Nat \ {0}, NEW j \in DayIndex
  PROVE  LET d == (y - 1) * YearDays + j IN
         d \in Nat /\ YearOfDay(d) = y /\ d % YearDays = j
<1>1. y - 1 \in Nat /\ j \in 0 .. YearDays - 1
  BY DEF DayIndex
<1>2. LET d == (y - 1) * YearDays + j IN d \in Nat /\ d \div YearDays = y - 1 /\ d % YearDays = j
  BY <1>1, PositiveSizes, Quotient
<1> QED  BY <1>2 DEF YearOfDay

LEMMA YearsGrow ==
  ASSUME NEW d \in Nat, NEW e \in Nat, d <= e
  PROVE  YearOfDay(d) <= YearOfDay(e)
BY PositiveSizes, QuotientGrows, Remainder DEF YearOfDay

\* The entries, and the slot of an entry.
EntryNo == {0} \cup {Entry(a, i) : a \in Nat, i \in SlotIndex}

LEMMA EntryFacts ==
  ASSUME NEW a \in Nat, NEW i \in SlotIndex
  PROVE  /\ Entry(a, i) \in Nat \ {0} /\ NodeOf(Entry(a, i)) = a /\ SlotOf(Entry(a, i)) = i
<1>1. i + 1 \in 0 .. NodeSize - 1 /\ i \in Nat
  BY PositiveSizes DEF NodeSize, SlotIndex
<1>2. a * NodeSize \in Nat
  BY PositiveSizes
<1>3. a * NodeSize + (i + 1) = Entry(a, i)
  BY <1>1, <1>2 DEF Entry
<1>4. /\ (a * NodeSize + (i + 1)) \div NodeSize = a /\ (a * NodeSize + (i + 1)) % NodeSize = i + 1
      /\ a * NodeSize + (i + 1) \in Nat
  BY <1>1, PositiveSizes, Quotient
<1>5. Entry(a, i) # 0
  BY <1>1, <1>2, <1>3
<1> QED  BY <1>1, <1>3, <1>4, <1>5 DEF NodeOf, SlotOf

LEMMA EntryNoFacts ==
  ASSUME NEW e \in EntryNo
  PROVE  e \in Nat /\ (e # 0 => SlotOf(e) \in SlotIndex)
BY EntryFacts DEF EntryNo

-----------------------------------------------------------------------------
(* The types of nodes, files and writes.                                   *)
SlotEntry == [start : Nat, end : Nat, prev : Nat, next : Nat]
ChannelBuffer == [kind : {"channel"}, base : Nat, first : YearIndex \cup {-1},
                  last : YearIndex \cup {-1}, table : [YearIndex -> Nat]]
YearBuffer == [kind : {"year"}, first : DayIndex \cup {-1}, last : DayIndex \cup {-1},
               table : [DayIndex -> Nat]]
DayBuffer == [kind : {"day"}, first : EntryNo, last : EntryNo, slot : [SlotIndex -> SlotEntry]]
Node(B) == [loaded : BOOLEAN, seek : Nat, dirty : BOOLEAN, buf : B \cup {EmptySlot}]
File == [start : Nat, end : Nat, seek : EntryNo, day : Days \cup {-1}]
Write == [at : Nat, buf : ChannelBuffer \cup YearBuffer \cup DayBuffer \cup Nat]
Memory == [open : BOOLEAN, root : Nat, rootDirty : BOOLEAN, chan : Node(ChannelBuffer),
           years : [YearIndex -> Node(YearBuffer)], days : [Days -> Node(DayBuffer)],
           last : File, prevDay : Days \cup {-1}, eof : Nat, writes : Seq(Write)]

(* The owner of each place in the file is fixed when the place is given    *)
(* out: the channel, a year, or a day.  K is the sequence of the owners.   *)
Channel == <<"channel", 0>>
YearNo(y) == <<"year", y>>
DayNo(d) == <<"day", d>>
Owner == {"channel", "year", "day"} \X Int
Is(K, a, o) == a \in DOMAIN K /\ K[a] = o
Extends(K, L) == Len(K) <= Len(L) /\ \A a \in DOMAIN K : L[a] = K[a]

\* A reference leads to a place of the owner o, or nowhere.
LeadsTo(K, a, o) == a = 0 \/ Is(K, a, o)

\* The node of the owner o is as it should be; D is the set of days with files.
Fits(K, D, o, b) ==
  \/ /\ o = Channel /\ b \in ChannelBuffer
     /\ b.base = 0 \/ b.base \in {YearOfDay(d) : d \in D}
     /\ \A i \in YearIndex : IF b.base = 0 THEN b.table[i] = 0
                             ELSE LeadsTo(K, b.table[i], YearNo(b.base + i))
  \/ /\ o[1] = "year" /\ b \in YearBuffer
     /\ \A j \in DayIndex : LeadsTo(K, b.table[j], DayNo((o[2] - 1) * YearDays + j))
  \/ o[1] = "day" /\ b \in DayBuffer

\* Where the node b of the owner o leads to.
Refs(o, b) == IF o[1] = "channel" THEN {b.table[i] : i \in YearIndex} \ {0}
              ELSE IF o[1] = "year" THEN {b.table[j] : j \in DayIndex} \ {0}
              ELSE {}

Owners(K, D) == K \in Seq(Owner) /\ \A a \in DOMAIN K : K[a][1] = "day" => K[a][2] \in D

(* The file d: its nodes are those of their owners, and lead to nodes that *)
(* are there.                                                              *)
FileOK(K, D, d) ==
  /\ d.nodes \in Seq(ChannelBuffer \cup YearBuffer \cup DayBuffer) /\ Len(d.nodes) <= Len(K)
  /\ LeadsTo(K, d.root, Channel) /\ d.root \in 0 .. Len(d.nodes)
  /\ d = [root |-> d.root, nodes |-> d.nodes]
  /\ \A a \in DOMAIN d.nodes : Fits(K, D, K[a], d.nodes[a])
                               /\ Refs(K[a], d.nodes[a]) \subseteq 1 .. Len(d.nodes)

(* The writes that are to come: each is of the node of its owner, and what *)
(* it leads to, and all places before its own, are in the file by then: in *)
(* its first F places, or written earlier.                                 *)
WriteOK(K, D, w) ==
  IF w.at = 0 THEN LeadsTo(K, w.buf, Channel)
              ELSE w.at \in DOMAIN K /\ Fits(K, D, K[w.at], w.buf)
Needs(K, w) == IF w.at = 0 THEN {w.buf} \ {0} ELSE (1 .. w.at - 1) \cup Refs(K[w.at], w.buf)
ThereAt(F, Q, n) == (1 .. F) \cup {Q[k].at : k \in 1 .. n - 1}

QueueOK(K, D, F, Q) ==
  /\ \A n \in DOMAIN Q : WriteOK(K, D, Q[n]) /\ Needs(K, Q[n]) \subseteq ThereAt(F, Q, n)
  /\ DOMAIN K \subseteq ThereAt(F, Q, Len(Q) + 1)

NodeOK(K, D, o, n) == IF n.loaded THEN Fits(K, D, o, n.buf) /\ LeadsTo(K, n.seek, o)
                                  ELSE ~n.dirty

(* The memory of the recorder.                                             *)
MemoryOK(K, D, m) ==
  /\ m \in Memory
  /\ LeadsTo(K, m.root, Channel)
  /\ NodeOK(K, D, Channel, m.chan)
  /\ \A i \in YearIndex :
       /\ m.years[i].loaded => m.chan.loaded /\ m.chan.buf.base # 0
       /\ NodeOK(K, D, YearNo(m.chan.buf.base + i), m.years[i])
  /\ \A d \in Days :
       /\ m.days[d].loaded => /\ d \in D /\ m.chan.loaded
                              /\ YearAt(m, d) \in YearIndex /\ m.years[YearAt(m, d)].loaded
       /\ NodeOK(K, D, DayNo(d), m.days[d])
  /\ m.last.day # -1 => m.last.day \in D /\ m.days[m.last.day].loaded
  /\ ~m.chan.loaded => m.last = NoFile
  /\ m.open => m.eof = Len(K)

Holds(K, D, F, m) ==
  /\ Owners(K, D)
  /\ MemoryOK(K, D, m)
  /\ IF m.open THEN QueueOK(K, D, F, m.writes) ELSE m.writes = <<>>

\* What an update of the file leaves alone in memory.
Keeps(m, n) ==
  /\ n.open = m.open /\ n.last = m.last /\ n.prevDay = m.prevDay
  /\ n.chan.loaded = m.chan.loaded /\ n.chan.buf.base = m.chan.buf.base
  /\ \A i \in YearIndex : n.years[i].loaded = m.years[i].loaded
  /\ \A d \in Days : n.days[d].loaded = m.days[d].loaded

-----------------------------------------------------------------------------
(* More places only add to what is known of the owners.                    *)
LEMMA LeadsOn ==
  ASSUME NEW K \in Seq(Owner), NEW L \in Seq(Owner), Extends(K, L), NEW a, NEW o, LeadsTo(K, a, o)
  PROVE  LeadsTo(L, a, o)
BY DEF Extends, LeadsTo, Is

LEMMA FitsOn ==
  ASSUME NEW K \in Seq(Owner), NEW L \in Seq(Owner), Extends(K, L),
         NEW D, NEW E, D \subseteq E, NEW o, NEW b, Fits(K, D, o, b)
  PROVE  Fits(L, E, o, b)
<1>1. CASE /\ o = Channel /\ b \in ChannelBuffer
           /\ b.base = 0 \/ b.base \in {YearOfDay(d) : d \in D}
           /\ \A i \in YearIndex : IF b.base = 0 THEN b.table[i] = 0
                                   ELSE LeadsTo(K, b.table[i], YearNo(b.base + i))
  <2>1. b.base = 0 \/ b.base \in {YearOfDay(d) : d \in E}
    BY <1>1
  <2>2. \A i \in YearIndex : IF b.base = 0 THEN b.table[i] = 0
                                   ELSE LeadsTo(L, b.table[i], YearNo(b.base + i))
    BY <1>1, LeadsOn
  <2> QED  BY <1>1, <2>1, <2>2 DEF Fits
<1>2. CASE /\ o[1] = "year" /\ b \in YearBuffer
           /\ \A j \in DayIndex : LeadsTo(K, b.table[j], DayNo((o[2] - 1) * YearDays + j))
  BY <1>2, LeadsOn DEF Fits
<1>3. CASE o[1] = "day" /\ b \in DayBuffer
  BY <1>3 DEF Fits
<1> QED  BY <1>1, <1>2, <1>3 DEF Fits

LEMMA ExtendsOn ==
  ASSUME NEW K \in Seq(Owner), NEW L \in Seq(Owner), NEW M \in Seq(Owner), Extends(K, L), Extends(L, M)
  PROVE  Extends(K, M)
BY DEF Extends

LEMMA ExtendsSelf == ASSUME NEW K \in Seq(Owner) PROVE Extends(K, K)
BY DEF Extends

LEMMA NodeOn ==
  ASSUME NEW K \in Seq(Owner), NEW L \in Seq(Owner), Extends(K, L), NEW D, NEW E, D \subseteq E,
         NEW o, NEW n, NodeOK(K, D, o, n)
  PROVE  NodeOK(L, E, o, n)
BY FitsOn, LeadsOn DEF NodeOK

LEMMA FileOn ==
  ASSUME NEW K \in Seq(Owner), NEW L \in Seq(Owner), Extends(K, L), NEW D, NEW E, D \subseteq E,
         NEW d, FileOK(K, D, d)
  PROVE  FileOK(L, E, d)
<1>1. Len(d.nodes) \in Nat /\ DOMAIN d.nodes = 1 .. Len(d.nodes) /\ Len(d.nodes) <= Len(L)
  BY DEF FileOK, Extends
<1>2. \A a \in DOMAIN d.nodes : L[a] = K[a]
  BY <1>1 DEF Extends, FileOK
<1>3. \A a \in DOMAIN d.nodes : Fits(L, E, L[a], d.nodes[a]) /\ Refs(L[a], d.nodes[a]) \subseteq 1 .. Len(d.nodes)
  BY <1>2, FitsOn DEF FileOK
<1>4. LeadsTo(L, d.root, Channel)
  BY LeadsOn DEF FileOK
<1> QED  BY <1>1, <1>3, <1>4 DEF FileOK

LEMMA NewPlaceExtends ==
  ASSUME NEW K \in Seq(Owner), NEW o \in Owner
  PROVE  LET L == Append(K, o) IN
         /\ L \in Seq(Owner) /\ Extends(K, L) /\ Len(L) = Len(K) + 1 /\ Len(K) \in Nat
         /\ DOMAIN L = 1 .. Len(K) + 1 /\ DOMAIN K = 1 .. Len(K)
         /\ L[Len(K) + 1] = o /\ \A a \in 1 .. Len(K) : L[a] = K[a]
BY DEF Extends

-----------------------------------------------------------------------------
(* The queue of writes.                                                    *)
LEMMA RefsThere ==
  ASSUME NEW K \in Seq(Owner), NEW D, NEW o, NEW b, Fits(K, D, o, b)
  PROVE  Refs(o, b) \subseteq DOMAIN K
<1>1. CASE /\ o = Channel /\ b \in ChannelBuffer
           /\ \A i \in YearIndex : IF b.base = 0 THEN b.table[i] = 0
                                   ELSE LeadsTo(K, b.table[i], YearNo(b.base + i))
  BY <1>1 DEF Refs, Channel, LeadsTo, Is
<1>2. CASE /\ o[1] = "year" /\ b \in YearBuffer
           /\ \A j \in DayIndex : LeadsTo(K, b.table[j], DayNo((o[2] - 1) * YearDays + j))
  BY <1>2 DEF Refs, LeadsTo, Is
<1>3. CASE o[1] = "day"
  BY <1>3 DEF Refs
<1> QED  BY <1>1, <1>2, <1>3 DEF Fits

LEMMA QueueAppend ==
  ASSUME NEW Q \in Seq(Write), NEW w \in Write, NEW F
  PROVE  LET R == Append(Q, w) IN
         /\ R \in Seq(Write) /\ Len(R) = Len(Q) + 1 /\ Len(Q) \in Nat
         /\ DOMAIN R = 1 .. Len(Q) + 1 /\ DOMAIN Q = 1 .. Len(Q)
         /\ R[Len(Q) + 1] = w /\ \A n \in 1 .. Len(Q) : R[n] = Q[n]
         /\ \A n \in 1 .. Len(Q) + 1 : ThereAt(F, R, n) = ThereAt(F, Q, n)
         /\ ThereAt(F, R, Len(R) + 1) = ThereAt(F, Q, Len(Q) + 1) \cup {w.at}
<1> DEFINE R == Append(Q, w)
<1>1. /\ R \in Seq(Write) /\ Len(R) = Len(Q) + 1 /\ Len(Q) \in Nat
      /\ DOMAIN R = 1 .. Len(Q) + 1 /\ DOMAIN Q = 1 .. Len(Q)
      /\ R[Len(Q) + 1] = w /\ \A n \in 1 .. Len(Q) : R[n] = Q[n]
  OBVIOUS
<1> HIDE DEF R
<1>2. \A n \in 1 .. Len(Q) + 1 : ThereAt(F, R, n) = ThereAt(F, Q, n)
  <2> SUFFICES ASSUME NEW n \in 1 .. Len(Q) + 1 PROVE ThereAt(F, R, n) = ThereAt(F, Q, n)
    OBVIOUS
  <2>1. \A k \in 1 .. n - 1 : R[k] = Q[k]
    BY <1>1
  <2> QED  BY <2>1 DEF ThereAt
<1>3. ThereAt(F, R, Len(R) + 1) = ThereAt(F, Q, Len(Q) + 1) \cup {w.at}
  <2>1. \A k \in 1 .. Len(Q) : R[k] = Q[k]
    BY <1>1
  <2>2. 1 .. Len(R) = (1 .. Len(Q)) \cup {Len(Q) + 1} /\ R[Len(Q) + 1] = w
    BY <1>1
  <2>3. {R[k].at : k \in 1 .. Len(R)} = {Q[k].at : k \in 1 .. Len(Q)} \cup {w.at}
    BY <2>1, <2>2
  <2>4. 1 .. (Len(R) + 1) - 1 = 1 .. Len(R) /\ 1 .. (Len(Q) + 1) - 1 = 1 .. Len(Q)
    BY <1>1
  <2>5. ThereAt(F, R, Len(R) + 1) = (1 .. F) \cup {R[k].at : k \in 1 .. Len(R)}
    BY <2>4 DEF ThereAt
  <2>6. ThereAt(F, Q, Len(Q) + 1) = (1 .. F) \cup {Q[k].at : k \in 1 .. Len(Q)}
    BY <2>4 DEF ThereAt
  <2> QED  BY <2>3, <2>5, <2>6
<1> QED  BY <1>1, <1>2, <1>3 DEF R

LEMMA EnqueueOld ==
  ASSUME NEW K \in Seq(Owner), NEW D, NEW F \in Nat, NEW Q \in Seq(Write), QueueOK(K, D, F, Q),
         NEW w \in Write, WriteOK(K, D, w)
  PROVE  QueueOK(K, D, F, Append(Q, w))
<1> DEFINE R == Append(Q, w)
<1>1. /\ Len(R) = Len(Q) + 1 /\ Len(Q) \in Nat
      /\ DOMAIN R = 1 .. Len(Q) + 1 /\ DOMAIN Q = 1 .. Len(Q)
      /\ R[Len(Q) + 1] = w /\ \A n \in 1 .. Len(Q) : R[n] = Q[n]
      /\ \A n \in 1 .. Len(Q) + 1 : ThereAt(F, R, n) = ThereAt(F, Q, n)
      /\ ThereAt(F, R, Len(R) + 1) = ThereAt(F, Q, Len(Q) + 1) \cup {w.at}
  BY QueueAppend
<1> HIDE DEF R
<1>2. Needs(K, w) \subseteq DOMAIN K
  <2>1. CASE w.at = 0
    BY <2>1 DEF Needs, WriteOK, LeadsTo, Is
  <2>2. CASE w.at # 0
    <3>1. w.at \in DOMAIN K /\ Fits(K, D, K[w.at], w.buf)
      BY <2>2 DEF WriteOK
    <3>2. 1 .. w.at - 1 \subseteq DOMAIN K
      BY <3>1
    <3>3. Refs(K[w.at], w.buf) \subseteq DOMAIN K
      BY <3>1, RefsThere
    <3> QED  BY <2>2, <3>2, <3>3 DEF Needs
  <2> QED  BY <2>1, <2>2
<1>3. ASSUME NEW n \in DOMAIN R
      PROVE  WriteOK(K, D, R[n]) /\ Needs(K, R[n]) \subseteq ThereAt(F, R, n)
  <2>1. CASE n = Len(Q) + 1
    BY <1>1, <1>2, <2>1 DEF QueueOK
  <2>2. CASE n # Len(Q) + 1
    <3>1. n \in DOMAIN Q /\ R[n] = Q[n] /\ ThereAt(F, R, n) = ThereAt(F, Q, n)
      BY <1>1, <2>2
    <3> QED  BY <3>1 DEF QueueOK
  <2> QED  BY <2>1, <2>2
<1>4. DOMAIN K \subseteq ThereAt(F, R, Len(R) + 1)
  BY <1>1 DEF QueueOK
<1> QED  BY <1>3, <1>4 DEF QueueOK, R

LEMMA EnqueueNew ==
  ASSUME NEW K \in Seq(Owner), NEW D, NEW F \in Nat, NEW Q \in Seq(Write), QueueOK(K, D, F, Q),
         NEW o \in Owner, NEW w \in Write, w.at = Len(K) + 1, Fits(K, D, o, w.buf)
  PROVE  QueueOK(Append(K, o), D, F, Append(Q, w))
<1> DEFINE R == Append(Q, w)
           L == Append(K, o)
<1>1. /\ Len(R) = Len(Q) + 1 /\ Len(Q) \in Nat
      /\ DOMAIN R = 1 .. Len(Q) + 1 /\ DOMAIN Q = 1 .. Len(Q)
      /\ R[Len(Q) + 1] = w /\ \A n \in 1 .. Len(Q) : R[n] = Q[n]
      /\ \A n \in 1 .. Len(Q) + 1 : ThereAt(F, R, n) = ThereAt(F, Q, n)
      /\ ThereAt(F, R, Len(R) + 1) = ThereAt(F, Q, Len(Q) + 1) \cup {w.at}
  BY QueueAppend
<1>2. /\ L \in Seq(Owner) /\ Extends(K, L) /\ Len(L) = Len(K) + 1 /\ Len(K) \in Nat
      /\ DOMAIN L = 1 .. Len(K) + 1 /\ DOMAIN K = 1 .. Len(K)
      /\ L[Len(K) + 1] = o /\ \A a \in 1 .. Len(K) : L[a] = K[a]
  BY NewPlaceExtends
<1> HIDE DEF R, L
<1>3. WriteOK(L, D, w) /\ Needs(L, w) = DOMAIN K \cup Refs(o, w.buf) /\ Refs(o, w.buf) \subseteq DOMAIN K
  <2>1. Fits(L, D, o, w.buf)
    BY <1>2, FitsOn
  <2>2. w.at # 0 /\ 1 .. w.at - 1 = DOMAIN K
    BY <1>2
  <2> QED  BY <1>2, <2>1, <2>2, RefsThere DEF WriteOK, Needs
<1>4. ASSUME NEW n \in DOMAIN Q
      PROVE  WriteOK(L, D, Q[n]) /\ Needs(L, Q[n]) = Needs(K, Q[n])
  <2>1. WriteOK(K, D, Q[n])
    BY DEF QueueOK
  <2>2. CASE Q[n].at = 0
    BY <1>2, <2>1, <2>2, LeadsOn DEF WriteOK, Needs
  <2>3. CASE Q[n].at # 0
    <3>1. Q[n].at \in DOMAIN K /\ Fits(K, D, K[Q[n].at], Q[n].buf)
      BY <2>1, <2>3 DEF WriteOK
    <3>2. Q[n].at \in DOMAIN L /\ L[Q[n].at] = K[Q[n].at]
      BY <1>2, <3>1
    <3>3. Fits(L, D, L[Q[n].at], Q[n].buf)
      BY <1>2, <3>1, <3>2, FitsOn
    <3> QED  BY <2>3, <3>2, <3>3 DEF WriteOK, Needs
  <2> QED  BY <2>2, <2>3
<1>5. ASSUME NEW n \in DOMAIN R
      PROVE  WriteOK(L, D, R[n]) /\ Needs(L, R[n]) \subseteq ThereAt(F, R, n)
  <2>1. CASE n = Len(Q) + 1
    BY <1>1, <1>3, <2>1 DEF QueueOK
  <2>2. CASE n # Len(Q) + 1
    <3>1. n \in DOMAIN Q /\ R[n] = Q[n] /\ ThereAt(F, R, n) = ThereAt(F, Q, n)
      BY <1>1, <2>2
    <3> QED  BY <1>4, <3>1 DEF QueueOK
  <2> QED  BY <2>1, <2>2
<1>6. DOMAIN L \subseteq ThereAt(F, R, Len(R) + 1)
  <2>1. DOMAIN L = DOMAIN K \cup {w.at}
    BY <1>2
  <2> QED  BY <1>1, <2>1 DEF QueueOK
<1> QED  BY <1>5, <1>6 DEF QueueOK, R, L

-----------------------------------------------------------------------------
(* The updates of the file.                                                *)

\* The memory after an update: the nodes and places are as they should be.
LEMMA MemoryKept ==
  ASSUME NEW K, NEW D, NEW m, MemoryOK(K, D, m), NEW L, NEW n, n \in Memory, Keeps(m, n),
         LeadsTo(L, n.root, Channel),
         NodeOK(L, D, Channel, n.chan),
         \A i \in YearIndex : NodeOK(L, D, YearNo(m.chan.buf.base + i), n.years[i]),
         \A d \in Days : NodeOK(L, D, DayNo(d), n.days[d]),
         n.open => n.eof = Len(L)
  PROVE  MemoryOK(L, D, n)
<1>1. \A d \in Days : YearAt(n, d) = YearAt(m, d)
  BY DEF YearAt, Keeps
<1>2. \A i \in YearIndex :
       /\ n.years[i].loaded => n.chan.loaded /\ n.chan.buf.base # 0
       /\ NodeOK(L, D, YearNo(n.chan.buf.base + i), n.years[i])
  BY DEF MemoryOK, Keeps
<1>3. \A d \in Days :
       /\ n.days[d].loaded => /\ d \in D /\ n.chan.loaded
                              /\ YearAt(n, d) \in YearIndex /\ n.years[YearAt(n, d)].loaded
  BY <1>1 DEF MemoryOK, Keeps
<1>4. n.last.day # -1 => n.last.day \in D /\ n.days[n.last.day].loaded
  <2>1. m.last.day \in Days \cup {-1}
    BY DEF MemoryOK, Memory, File
  <2> QED  BY <2>1 DEF MemoryOK, Keeps
<1>5. ~n.chan.loaded => n.last = NoFile
  BY DEF MemoryOK, Keeps
<1> QED  BY <1>2, <1>3, <1>4, <1>5 DEF MemoryOK

\* The memory m with some of its fields replaced, and a write more.
LEMMA WritesLonger ==
  ASSUME NEW m \in Memory, NEW w \in Write
  PROVE  Append(m.writes, w) \in Seq(Write)
<1>1. m.writes \in Seq(Write)
  BY DEF Memory
<1> QED  BY <1>1

LEMMA UpdateRootHolds ==
  ASSUME NEW K, NEW D, NEW F \in Nat, NEW m, Holds(K, D, F, m)
  PROVE  Holds(K, D, F, UpdateRoot(m)) /\ Keeps(m, UpdateRoot(m))
<1> DEFINE n == UpdateRoot(m)
           w == [at |-> 0, buf |-> m.root]
           q == Append(m.writes, w)
<1>1. m \in Memory /\ K \in Seq(Owner) /\ LeadsTo(K, m.root, Channel)
  BY DEF Holds, MemoryOK, Owners
<1>2. CASE ~m.rootDirty \/ ~m.open
  BY <1>2 DEF UpdateRoot, Keeps
<1>3. CASE ~(~m.rootDirty \/ ~m.open)
  <2>1. n = [m EXCEPT !.rootDirty = FALSE, !.writes = q]
    BY <1>1, <1>3 DEF UpdateRoot, Written, Memory
  <2>2. w \in Write
    BY <1>1 DEF Write, Memory
  <2>3. /\ n \in Memory /\ n.open = m.open /\ n.root = m.root /\ n.chan = m.chan /\ n.years = m.years
        /\ n.days = m.days /\ n.last = m.last /\ n.prevDay = m.prevDay /\ n.eof = m.eof
        /\ n.writes = q
    <3>1. q \in Seq(Write)
      BY <1>1, <2>2, WritesLonger
    <3> HIDE DEF q, n
    <3> QED  BY <1>1, <2>1, <3>1 DEF Memory
  <2> HIDE DEF n
  <2>4. Keeps(m, n)
    BY <2>3 DEF Keeps
  <2>5. MemoryOK(K, D, n)
    <3>1. MemoryOK(K, D, m)
      BY DEF Holds
    <3>2. /\ LeadsTo(K, n.root, Channel) /\ NodeOK(K, D, Channel, n.chan)
          /\ \A i \in YearIndex : NodeOK(K, D, YearNo(m.chan.buf.base + i), n.years[i])
          /\ \A d \in Days : NodeOK(K, D, DayNo(d), n.days[d])
          /\ n.open => n.eof = Len(K)
      BY <2>3, <3>1 DEF MemoryOK
    <3> QED  BY <2>3, <2>4, <3>1, <3>2, MemoryKept
  <2>6. QueueOK(K, D, F, n.writes)
    <3>1. QueueOK(K, D, F, m.writes) /\ m.writes \in Seq(Write)
      BY <1>1, <1>3 DEF Holds, Memory
    <3>2. WriteOK(K, D, w)
      BY <1>1 DEF WriteOK
    <3> QED  BY <1>1, <2>2, <2>3, <3>1, <3>2, EnqueueOld
  <2> QED  BY <1>3, <2>3, <2>4, <2>5, <2>6 DEF Holds, n
<1> QED  BY <1>2, <1>3

LEMMA OwnersMore ==
  ASSUME NEW K, NEW D, Owners(K, D), NEW o \in Owner, o[1] = "day" => o[2] \in D
  PROVE  Owners(Append(K, o), D)
<1> DEFINE L == Append(K, o)
<1>1. /\ L \in Seq(Owner) /\ DOMAIN L = 1 .. Len(K) + 1 /\ DOMAIN K = 1 .. Len(K)
      /\ L[Len(K) + 1] = o /\ \A a \in 1 .. Len(K) : L[a] = K[a]
  BY NewPlaceExtends DEF Owners
<1> HIDE DEF L
<1>2. \A a \in DOMAIN L : a = Len(K) + 1 \/ a \in DOMAIN K
  BY <1>1, NewPlaceExtends DEF Owners
<1> QED  BY <1>1, <1>2 DEF Owners, L

LEMMA UpdateChannelHolds ==
  ASSUME NEW K, NEW D, NEW F \in Nat, NEW m, Holds(K, D, F, m)
  PROVE  /\ \E L \in Seq(Owner) : Extends(K, L) /\ Holds(L, D, F, UpdateChannel(m))
                                  /\ (\A a \in DOMAIN L : a \in DOMAIN K \/ L[a] = Channel)
         /\ Keeps(m, UpdateChannel(m))
         /\ UpdateChannel(m).days = m.days /\ UpdateChannel(m).years = m.years
         /\ UpdateChannel(m).chan.buf = m.chan.buf
<1> DEFINE n == UpdateChannel(m)
<1>1. /\ m \in Memory /\ K \in Seq(Owner) /\ LeadsTo(K, m.root, Channel) /\ Owners(K, D)
      /\ MemoryOK(K, D, m) /\ m.chan \in Node(ChannelBuffer)
  BY DEF Holds, MemoryOK, Owners, Memory
<1>2. CASE ~m.chan.dirty \/ ~m.open
  BY <1>1, <1>2, ExtendsSelf, Zenon DEF UpdateChannel, Keeps
<1>3. CASE m.chan.dirty /\ m.open /\ m.chan.seek > 0
  <2> DEFINE w == [at |-> m.chan.seek, buf |-> m.chan.buf]
  <2>1. n = [m EXCEPT !.chan = [m.chan EXCEPT !.dirty = FALSE], !.writes = Append(m.writes, w)]
    BY <1>1, <1>3 DEF UpdateChannel, Written, Memory
  <2>2. Fits(K, D, Channel, m.chan.buf) /\ LeadsTo(K, m.chan.seek, Channel) /\ m.chan.loaded
    BY <1>1, <1>3 DEF MemoryOK, NodeOK
  <2>3. w \in Write /\ WriteOK(K, D, w)
    BY <1>1, <1>3, <2>2, SMTT(30) DEF Write, Node, Fits, Channel, WriteOK, LeadsTo, Is
  <2>4. [m.chan EXCEPT !.dirty = FALSE] \in Node(ChannelBuffer)
    BY <1>1 DEF Node
  <2>5. /\ n \in Memory /\ n.open = m.open /\ n.root = m.root /\ n.chan = [m.chan EXCEPT !.dirty = FALSE]
        /\ n.years = m.years /\ n.days = m.days /\ n.last = m.last /\ n.prevDay = m.prevDay
        /\ n.eof = m.eof /\ n.writes = Append(m.writes, w)
    <3> DEFINE q == Append(m.writes, w)
               c == [m.chan EXCEPT !.dirty = FALSE]
    <3>1. q \in Seq(Write)
      BY <1>1, <2>3, WritesLonger
    <3> HIDE DEF q, c, w
    <3>2. n = [m EXCEPT !.chan = c, !.writes = q]
      BY <2>1 DEF q, c
    <3>3. c \in Node(ChannelBuffer)
      BY <2>4 DEF c
    <3>4. /\ n \in Memory /\ n.open = m.open /\ n.root = m.root /\ n.chan = c
          /\ n.years = m.years /\ n.days = m.days /\ n.last = m.last /\ n.prevDay = m.prevDay
          /\ n.eof = m.eof /\ n.writes = q
      <4> HIDE DEF n
      <4> QED  BY <1>1, <3>1, <3>2, <3>3 DEF Memory
    <3> QED  BY <3>4 DEF q, c
  <2>6. n.chan.loaded = m.chan.loaded /\ n.chan.buf = m.chan.buf /\ n.chan.seek = m.chan.seek
    BY <1>1, <2>5 DEF Node
  <2> HIDE DEF n
  <2>7. Keeps(m, n)
    BY <2>5, <2>6 DEF Keeps
  <2>8. NodeOK(K, D, Channel, n.chan)
    BY <2>2, <2>6 DEF NodeOK
  <2>9. MemoryOK(K, D, n)
    <3>1. /\ LeadsTo(K, n.root, Channel)
          /\ \A i \in YearIndex : NodeOK(K, D, YearNo(m.chan.buf.base + i), n.years[i])
          /\ \A d \in Days : NodeOK(K, D, DayNo(d), n.days[d])
          /\ n.open => n.eof = Len(K)
      BY <1>1, <2>5 DEF MemoryOK
    <3> QED  BY <1>1, <2>5, <2>7, <2>8, <3>1, MemoryKept
  <2>10. QueueOK(K, D, F, n.writes)
    <3>1. QueueOK(K, D, F, m.writes) /\ m.writes \in Seq(Write)
      BY <1>1, <1>3 DEF Holds, Memory
    <3> QED  BY <1>1, <2>3, <2>5, <3>1, EnqueueOld
  <2> QED  BY <1>1, <1>3, <2>5, <2>6, <2>7, <2>9, <2>10, ExtendsSelf DEF Holds, n
<1>4. CASE m.chan.dirty /\ m.open /\ ~(m.chan.seek > 0)
  <2> DEFINE at == m.eof + 1
             w == [at |-> at, buf |-> m.chan.buf]
             L == Append(K, Channel)
             c == [m.chan EXCEPT !.dirty = FALSE, !.seek = at]
  <2>0. Channel \in Owner
    BY DEF Channel, Owner
  <2>1. n = [m EXCEPT !.chan = c, !.eof = at, !.root = at, !.rootDirty = TRUE, !.writes = Append(m.writes, w)]
    BY <1>1, <1>4 DEF UpdateChannel, Written, Memory, NewPlace
  <2>2. Fits(K, D, Channel, m.chan.buf) /\ m.chan.loaded /\ m.eof = Len(K) /\ m.eof \in Nat
    BY <1>1, <1>4 DEF MemoryOK, NodeOK, Memory
  <2>3. w \in Write
    BY <1>1, <2>2 DEF Write, Node, Fits, Channel
  <2>4. c \in Node(ChannelBuffer)
    <3>1. at \in Nat
      BY <2>2
    <3> QED  BY <1>1, <3>1 DEF Node
  <2>5. /\ n \in Memory /\ n.open = m.open /\ n.root = at /\ n.chan = c
        /\ n.years = m.years /\ n.days = m.days /\ n.last = m.last /\ n.prevDay = m.prevDay
        /\ n.eof = at /\ n.writes = Append(m.writes, w)
    <3> DEFINE q == Append(m.writes, w)
    <3>1. q \in Seq(Write)
      BY <1>1, <2>3, WritesLonger
    <3>2. at \in Nat
      BY <2>2
    <3> HIDE DEF c, w, at, q
    <3>3. n = [m EXCEPT !.chan = c, !.eof = at, !.root = at, !.rootDirty = TRUE, !.writes = q]
      BY <2>1 DEF q
    <3>4. /\ n \in Memory /\ n.open = m.open /\ n.root = at /\ n.chan = c
          /\ n.years = m.years /\ n.days = m.days /\ n.last = m.last /\ n.prevDay = m.prevDay
          /\ n.eof = at /\ n.writes = q
      <4> HIDE DEF n
      <4> QED  BY <1>1, <2>4, <3>1, <3>2, <3>3 DEF Memory
    <3> QED  BY <3>4 DEF q
  <2>6. n.chan.loaded = m.chan.loaded /\ n.chan.buf = m.chan.buf /\ n.chan.seek = at
    BY <1>1, <2>5 DEF Node
  <2> HIDE DEF n, c
  <2>7. Keeps(m, n)
    BY <2>5, <2>6 DEF Keeps
  <2>8. /\ L \in Seq(Owner) /\ Extends(K, L) /\ Len(L) = Len(K) + 1
        /\ at \in DOMAIN L /\ L[at] = Channel /\ (\A a \in DOMAIN L : a \in DOMAIN K \/ L[a] = Channel)
    BY <1>1, <2>0, <2>2, NewPlaceExtends
  <2> HIDE DEF L
  <2>9. NodeOK(L, D, Channel, n.chan) /\ LeadsTo(L, n.root, Channel)
    BY <1>1, <2>2, <2>5, <2>6, <2>8, FitsOn DEF NodeOK, LeadsTo, Is
  <2>10. MemoryOK(L, D, n)
    <3>1. \A i \in YearIndex : NodeOK(L, D, YearNo(m.chan.buf.base + i), n.years[i])
      BY <1>1, <2>5, <2>8, NodeOn DEF MemoryOK
    <3>2. \A d \in Days : NodeOK(L, D, DayNo(d), n.days[d])
      BY <1>1, <2>5, <2>8, NodeOn DEF MemoryOK
    <3> QED  BY <1>1, <2>2, <2>5, <2>7, <2>8, <2>9, <3>1, <3>2, MemoryKept
  <2>11. QueueOK(L, D, F, n.writes)
    <3>1. QueueOK(K, D, F, m.writes) /\ m.writes \in Seq(Write)
      BY <1>1, <1>4 DEF Holds, Memory
    <3> QED  BY <1>1, <2>0, <2>2, <2>3, <2>5, <3>1, EnqueueNew DEF L
  <2>12. Owners(L, D)
    BY <1>1, <2>0, OwnersMore DEF L, Channel
  <2> QED  BY <1>4, <2>5, <2>6, <2>7, <2>8, <2>10, <2>11, <2>12 DEF Holds, n
<1> QED  BY <1>2, <1>3, <1>4

\* A table that gets a reference.
LEMMA ChannelFits ==
  ASSUME NEW K, NEW D, NEW b
  PROVE  Fits(K, D, Channel, b) <=>
           /\ b \in ChannelBuffer
           /\ b.base = 0 \/ b.base \in {YearOfDay(d) : d \in D}
           /\ \A i \in YearIndex : IF b.base = 0 THEN b.table[i] = 0
                                   ELSE LeadsTo(K, b.table[i], YearNo(b.base + i))
BY DEF Fits, Channel

LEMMA YearFits ==
  ASSUME NEW K, NEW D, NEW y, NEW b
  PROVE  Fits(K, D, YearNo(y), b) <=>
           /\ b \in YearBuffer
           /\ \A j \in DayIndex : LeadsTo(K, b.table[j], DayNo((y - 1) * YearDays + j))
BY DEF Fits, YearNo, Channel

LEMMA DayFits ==
  ASSUME NEW K, NEW D, NEW d, NEW b
  PROVE  Fits(K, D, DayNo(d), b) <=> b \in DayBuffer
BY DEF Fits, DayNo, Channel

LEMMA ChannelTable ==
  ASSUME NEW K, NEW D, NEW node \in Node(ChannelBuffer), node.loaded, NodeOK(K, D, Channel, node),
         node.buf.base # 0, NEW i \in YearIndex, NEW at \in Nat, Is(K, at, YearNo(node.buf.base + i))
  PROVE  LET r == SetTable(node, i, at) IN
         /\ r \in Node(ChannelBuffer) /\ r.loaded /\ r.seek = node.seek
         /\ r.buf.base = node.buf.base /\ NodeOK(K, D, Channel, r)
<1> DEFINE r == SetTable(node, i, at)
           b == node.buf
           t == [b.table EXCEPT ![i] = at]
           f == IF b.first = -1 \/ i < b.first THEN i ELSE b.first
           l == IF b.last = -1 \/ i > b.last THEN i ELSE b.last
           c == [b EXCEPT !.table = t, !.first = f, !.last = l]
<1>1. b \in ChannelBuffer /\ Fits(K, D, Channel, b)
  BY ChannelFits DEF NodeOK
<1>2. t \in [YearIndex -> Nat] /\ \A k \in YearIndex : t[k] = IF k = i THEN at ELSE b.table[k]
  BY <1>1 DEF ChannelBuffer
<1>3. f \in YearIndex \cup {-1} /\ l \in YearIndex \cup {-1}
  BY <1>1 DEF ChannelBuffer
<1>4. r = [node EXCEPT !.dirty = TRUE, !.buf = c]
  <2>1. b = [kind |-> b.kind, base |-> b.base, first |-> b.first, last |-> b.last, table |-> b.table]
    BY <1>1 DEF ChannelBuffer
  <2> QED  BY <2>1 DEF SetTable, Node
<1> HIDE DEF t, f, l, b
<1>5. c \in ChannelBuffer /\ c.table = t /\ c.base = b.base
  BY <1>1, <1>2, <1>3 DEF ChannelBuffer
<1>6. Fits(K, D, Channel, c)
  <2>1. b.base # 0
    BY DEF b
  <2>2. \A k \in YearIndex : LeadsTo(K, c.table[k], YearNo(c.base + k))
    <3> SUFFICES ASSUME NEW k \in YearIndex PROVE LeadsTo(K, c.table[k], YearNo(c.base + k))
      OBVIOUS
    <3>1. CASE k = i
      BY <1>2, <1>5, <3>1 DEF LeadsTo, b
    <3>2. CASE k # i
      BY <1>1, <1>2, <1>5, <2>1, <3>2, ChannelFits
    <3> QED  BY <3>1, <3>2
  <2> QED  BY <1>1, <1>5, <2>1, <2>2, ChannelFits
<1> HIDE DEF c, r
<1>7. r \in Node(ChannelBuffer) /\ r.loaded = node.loaded /\ r.seek = node.seek /\ r.buf = c
  BY <1>4, <1>5 DEF Node
<1> QED  BY <1>5, <1>6, <1>7 DEF NodeOK, r, b

LEMMA YearTable ==
  ASSUME NEW K, NEW D, NEW y, NEW node \in Node(YearBuffer), node.loaded, NodeOK(K, D, YearNo(y), node),
         NEW j \in DayIndex, NEW at \in Nat, Is(K, at, DayNo((y - 1) * YearDays + j))
  PROVE  LET r == SetTable(node, j, at) IN
         /\ r \in Node(YearBuffer) /\ r.loaded /\ r.seek = node.seek /\ NodeOK(K, D, YearNo(y), r)
<1> DEFINE r == SetTable(node, j, at)
           b == node.buf
           t == [b.table EXCEPT ![j] = at]
           f == IF b.first = -1 \/ j < b.first THEN j ELSE b.first
           l == IF b.last = -1 \/ j > b.last THEN j ELSE b.last
           c == [b EXCEPT !.table = t, !.first = f, !.last = l]
<1>1. b \in YearBuffer /\ Fits(K, D, YearNo(y), b)
  BY YearFits DEF NodeOK
<1>2. t \in [DayIndex -> Nat] /\ \A k \in DayIndex : t[k] = IF k = j THEN at ELSE b.table[k]
  BY <1>1 DEF YearBuffer
<1>3. f \in DayIndex \cup {-1} /\ l \in DayIndex \cup {-1}
  BY <1>1 DEF YearBuffer
<1>4. r = [node EXCEPT !.dirty = TRUE, !.buf = c]
  <2>1. b = [kind |-> b.kind, first |-> b.first, last |-> b.last, table |-> b.table]
    BY <1>1 DEF YearBuffer
  <2> QED  BY <2>1 DEF SetTable, Node
<1> HIDE DEF t, f, l, b
<1>5. c \in YearBuffer /\ c.table = t
  BY <1>1, <1>2, <1>3 DEF YearBuffer
<1>6. Fits(K, D, YearNo(y), c)
  <2>2. \A k \in DayIndex : LeadsTo(K, c.table[k], DayNo((y - 1) * YearDays + k))
    <3> SUFFICES ASSUME NEW k \in DayIndex PROVE LeadsTo(K, c.table[k], DayNo((y - 1) * YearDays + k))
      OBVIOUS
    <3>1. CASE k = j
      BY <1>2, <1>5, <3>1 DEF LeadsTo
    <3>2. CASE k # j
      BY <1>1, <1>2, <1>5, <3>2, YearFits
    <3> QED  BY <3>1, <3>2
  <2> QED  BY <1>5, <2>2, YearFits
<1> HIDE DEF c, r
<1>7. r \in Node(YearBuffer) /\ r.loaded = node.loaded /\ r.seek = node.seek /\ r.buf = c
  BY <1>4, <1>5 DEF Node
<1> QED  BY <1>6, <1>7 DEF NodeOK, r

\* The pieces of a memory.
LEMMA MemoryParts ==
  ASSUME NEW m \in Memory
  PROVE  /\ m.chan \in Node(ChannelBuffer) /\ m.eof \in Nat /\ m.root \in Nat
         /\ \A i \in YearIndex : m.years[i] \in Node(YearBuffer)
         /\ \A d \in Days : m.days[d] \in Node(DayBuffer)
         /\ m.writes \in Seq(Write) /\ m.last \in File /\ m.open \in BOOLEAN
BY DEF Memory

LEMMA UpdateYearHolds ==
  ASSUME NEW K, NEW D, NEW F \in Nat, NEW m, Holds(K, D, F, m), NEW i \in YearIndex
  PROVE  /\ \E L \in Seq(Owner) : Extends(K, L) /\ Holds(L, D, F, UpdateYear(m, i))
         /\ Keeps(m, UpdateYear(m, i)) /\ UpdateYear(m, i).days = m.days
<1> DEFINE n == UpdateYear(m, i)
           y == m.years[i]
           o == YearNo(m.chan.buf.base + i)
<1>1. /\ m \in Memory /\ K \in Seq(Owner) /\ LeadsTo(K, m.root, Channel) /\ Owners(K, D)
      /\ MemoryOK(K, D, m) /\ y \in Node(YearBuffer) /\ NodeOK(K, D, o, y) /\ NodeOK(K, D, Channel, m.chan)
      /\ m.chan \in Node(ChannelBuffer) /\ m.writes \in Seq(Write) /\ m.eof \in Nat
  BY MemoryParts DEF Holds, MemoryOK, Owners
<1>2. CASE ~y.dirty \/ ~m.open
  BY <1>1, <1>2, ExtendsSelf, Zenon DEF UpdateYear, Keeps
<1>3. CASE y.dirty /\ m.open /\ y.seek > 0
  <2> DEFINE w == [at |-> y.seek, buf |-> y.buf]
             z == [y EXCEPT !.dirty = FALSE]
             q == Append(m.writes, w)
  <2>2. Fits(K, D, o, y.buf) /\ LeadsTo(K, y.seek, o) /\ y.loaded
    BY <1>1, <1>3 DEF NodeOK
  <2>3. w \in Write /\ WriteOK(K, D, w)
    BY <1>1, <1>3, <2>2, YearFits DEF Write, Node, WriteOK, LeadsTo, Is
  <2>4. z \in Node(YearBuffer) /\ z.loaded = y.loaded /\ z.buf = y.buf /\ z.seek = y.seek
    BY <1>1 DEF Node
  <2>5. /\ n \in Memory /\ n.open = m.open /\ n.root = m.root /\ n.chan = m.chan
        /\ n.years[i] = z /\ (\A k \in YearIndex \ {i} : n.years[k] = m.years[k])
        /\ n.days = m.days /\ n.last = m.last /\ n.prevDay = m.prevDay /\ n.eof = m.eof /\ n.writes = q
    <3>1. n = [m EXCEPT !.years[i] = z, !.writes = q]
      BY <1>1, <1>3 DEF UpdateYear, Written, Memory
    <3>2. q \in Seq(Write)
      BY <1>1, <2>3, WritesLonger
    <3> HIDE DEF n, z, q, w, y
    <3> QED  BY <1>1, <2>4, <3>1, <3>2 DEF Memory
  <2> HIDE DEF n
  <2>7. Keeps(m, n)
    <3>1. \A k \in YearIndex : n.years[k].loaded = m.years[k].loaded
      BY <2>4, <2>5
    <3> QED  BY <2>5, <3>1 DEF Keeps
  <2>8. \A k \in YearIndex : NodeOK(K, D, YearNo(m.chan.buf.base + k), n.years[k])
    <3> SUFFICES ASSUME NEW k \in YearIndex PROVE NodeOK(K, D, YearNo(m.chan.buf.base + k), n.years[k])
      OBVIOUS
    <3>1. CASE k = i
      BY <2>2, <2>4, <2>5, <3>1 DEF NodeOK
    <3>2. CASE k # i
      BY <1>1, <2>5, <3>2 DEF MemoryOK
    <3> QED  BY <3>1, <3>2
  <2>9. MemoryOK(K, D, n)
    <3>1. /\ LeadsTo(K, n.root, Channel) /\ NodeOK(K, D, Channel, n.chan)
          /\ \A d \in Days : NodeOK(K, D, DayNo(d), n.days[d])
          /\ n.open => n.eof = Len(K)
      BY <1>1, <2>5 DEF MemoryOK
    <3> QED  BY <1>1, <2>5, <2>7, <2>8, <3>1, MemoryKept
  <2>10. QueueOK(K, D, F, n.writes)
    <3>1. QueueOK(K, D, F, m.writes)
      BY <1>3 DEF Holds
    <3> QED  BY <1>1, <2>3, <2>5, <3>1, EnqueueOld
  <2> QED  BY <1>1, <1>3, <2>5, <2>7, <2>9, <2>10, ExtendsSelf DEF Holds, n
<1>4. CASE y.dirty /\ m.open /\ ~(y.seek > 0)
  <2> DEFINE at == m.eof + 1
             w == [at |-> at, buf |-> y.buf]
             L == Append(K, o)
             z == [y EXCEPT !.dirty = FALSE, !.seek = at]
             c == SetTable(m.chan, i, at)
             q == Append(m.writes, w)
  <2>1. Fits(K, D, o, y.buf) /\ y.loaded /\ m.eof = Len(K) /\ m.chan.loaded /\ m.chan.buf.base # 0
    BY <1>1, <1>4 DEF MemoryOK, NodeOK
  <2>0. o \in Owner /\ at \in Nat
    <3>1. m.chan.buf \in ChannelBuffer
      BY <1>1, <2>1, ChannelFits DEF NodeOK
    <3>2. m.chan.buf.base + i \in Int
      BY <3>1, SMTT(30) DEF ChannelBuffer, YearIndex
    <3> QED  BY <1>1, <3>2 DEF YearNo, Owner
  <2>2. /\ L \in Seq(Owner) /\ Extends(K, L) /\ Len(L) = Len(K) + 1
        /\ at \in DOMAIN L /\ L[at] = o
    BY <1>1, <2>0, <2>1, NewPlaceExtends
  <2> HIDE DEF L
  <2>3. w \in Write
    BY <1>1, <2>0, <2>1, YearFits DEF Write
  <2>4. z \in Node(YearBuffer) /\ z.loaded = y.loaded /\ z.buf = y.buf /\ z.seek = at
    BY <1>1, <2>0 DEF Node
  <2>5. c \in Node(ChannelBuffer) /\ c.loaded /\ c.buf.base = m.chan.buf.base /\ NodeOK(L, D, Channel, c)
    <3>1. Is(L, at, o)
      BY <2>2 DEF Is
    <3>2. NodeOK(L, D, Channel, m.chan)
      BY <1>1, <2>2, NodeOn
    <3> QED  BY <1>1, <2>0, <2>1, <3>1, <3>2, ChannelTable
  <2>6. /\ n \in Memory /\ n.open = m.open /\ n.root = m.root /\ n.chan = c
        /\ n.years[i] = z /\ (\A k \in YearIndex \ {i} : n.years[k] = m.years[k])
        /\ n.days = m.days /\ n.last = m.last /\ n.prevDay = m.prevDay /\ n.eof = at /\ n.writes = q
    <3>1. n = [m EXCEPT !.years[i] = z, !.chan = c, !.eof = at, !.writes = q]
      BY <1>1, <1>4, ZenonT(40) DEF UpdateYear, Written, Memory, NewPlace
    <3>2. q \in Seq(Write)
      BY <1>1, <2>3, WritesLonger
    <3> HIDE DEF n, z, q, w, y, c, at
    <3> QED  BY <1>1, <2>0, <2>4, <2>5, <3>1, <3>2 DEF Memory
  <2> HIDE DEF n
  <2>7. Keeps(m, n)
    <3>1. \A k \in YearIndex : n.years[k].loaded = m.years[k].loaded
      BY <2>4, <2>6
    <3> QED  BY <2>1, <2>5, <2>6, <3>1 DEF Keeps
  <2>8. \A k \in YearIndex : NodeOK(L, D, YearNo(m.chan.buf.base + k), n.years[k])
    <3> SUFFICES ASSUME NEW k \in YearIndex PROVE NodeOK(L, D, YearNo(m.chan.buf.base + k), n.years[k])
      OBVIOUS
    <3>1. CASE k = i
      <4>1. Fits(L, D, o, z.buf)
        BY <1>1, <2>1, <2>2, <2>4, FitsOn
      <4>2. LeadsTo(L, z.seek, o)
        BY <2>2, <2>4 DEF LeadsTo, Is
      <4> HIDE DEF z
      <4> QED  BY <2>6, <3>1, <4>1, <4>2, <2>1, <2>4 DEF NodeOK
    <3>2. CASE k # i
      BY <1>1, <2>2, <2>6, <3>2, NodeOn DEF MemoryOK
    <3> QED  BY <3>1, <3>2
  <2>9. MemoryOK(L, D, n)
    <3>1. LeadsTo(L, n.root, Channel) /\ NodeOK(L, D, Channel, n.chan)
      BY <1>1, <2>2, <2>5, <2>6, LeadsOn
    <3>2. \A d \in Days : NodeOK(L, D, DayNo(d), n.days[d])
      BY <1>1, <2>2, <2>6, NodeOn DEF MemoryOK
    <3> QED  BY <1>1, <2>1, <2>2, <2>6, <2>7, <2>8, <3>1, <3>2, MemoryKept
  <2>10. QueueOK(L, D, F, n.writes)
    <3>1. QueueOK(K, D, F, m.writes)
      BY <1>4 DEF Holds
    <3> QED  BY <1>1, <2>0, <2>1, <2>3, <2>6, <3>1, EnqueueNew DEF L
  <2>11. Owners(L, D)
    BY <1>1, <2>0, OwnersMore DEF L, YearNo
  <2> QED  BY <1>4, <2>2, <2>6, <2>7, <2>9, <2>10, <2>11 DEF Holds, n
<1> QED  BY <1>2, <1>3, <1>4

LEMMA DaysAreNumbers == Days \subseteq Nat
BY FileIndexAssumption, DayFacts DEF Days

LEMMA UpdateDayHolds ==
  ASSUME NEW K, NEW D, NEW F \in Nat, NEW m, Holds(K, D, F, m), NEW d \in Days
  PROVE  /\ \E L \in Seq(Owner) : Extends(K, L) /\ Holds(L, D, F, UpdateDay(m, d))
         /\ Keeps(m, UpdateDay(m, d))
<1> DEFINE n == UpdateDay(m, d)
           y == m.days[d]
           o == DayNo(d)
           i == YearAt(m, d)
<1>1. /\ m \in Memory /\ K \in Seq(Owner) /\ LeadsTo(K, m.root, Channel) /\ Owners(K, D)
      /\ MemoryOK(K, D, m) /\ y \in Node(DayBuffer) /\ NodeOK(K, D, o, y) /\ NodeOK(K, D, Channel, m.chan)
      /\ m.chan \in Node(ChannelBuffer) /\ m.writes \in Seq(Write) /\ m.eof \in Nat
      /\ \A k \in YearIndex : NodeOK(K, D, YearNo(m.chan.buf.base + k), m.years[k])
  BY MemoryParts DEF Holds, MemoryOK, Owners
<1>2. CASE ~y.dirty \/ ~m.open
  BY <1>1, <1>2, ExtendsSelf, Zenon DEF UpdateDay, Keeps
<1>3. CASE y.dirty /\ m.open /\ y.seek > 0
  <2> DEFINE w == [at |-> y.seek, buf |-> y.buf]
             z == [y EXCEPT !.dirty = FALSE]
             q == Append(m.writes, w)
  <2>2. Fits(K, D, o, y.buf) /\ LeadsTo(K, y.seek, o) /\ y.loaded
    BY <1>1, <1>3 DEF NodeOK
  <2>3. w \in Write /\ WriteOK(K, D, w)
    BY <1>1, <1>3, <2>2, DayFits DEF Write, Node, WriteOK, LeadsTo, Is
  <2>4. z \in Node(DayBuffer) /\ z.loaded = y.loaded /\ z.buf = y.buf /\ z.seek = y.seek
    BY <1>1 DEF Node
  <2>5. /\ n \in Memory /\ n.open = m.open /\ n.root = m.root /\ n.chan = m.chan /\ n.years = m.years
        /\ n.days[d] = z /\ (\A k \in Days \ {d} : n.days[k] = m.days[k])
        /\ n.last = m.last /\ n.prevDay = m.prevDay /\ n.eof = m.eof /\ n.writes = q
    <3>1. n = [m EXCEPT !.days[d] = z, !.writes = q]
      BY <1>1, <1>3 DEF UpdateDay, Written, Memory
    <3>2. q \in Seq(Write)
      BY <1>1, <2>3, WritesLonger
    <3> HIDE DEF n, z, q, w, y
    <3> QED  BY <1>1, <2>4, <3>1, <3>2 DEF Memory
  <2> HIDE DEF n
  <2>6. \A k \in Days : n.days[k].loaded = m.days[k].loaded
    BY <2>4, <2>5
  <2>7. Keeps(m, n)
    BY <2>5, <2>6 DEF Keeps
  <2>8. \A k \in Days : NodeOK(K, D, DayNo(k), n.days[k])
    <3> SUFFICES ASSUME NEW k \in Days PROVE NodeOK(K, D, DayNo(k), n.days[k])
      OBVIOUS
    <3>1. CASE k = d
      BY <2>2, <2>4, <2>5, <3>1 DEF NodeOK
    <3>2. CASE k # d
      BY <1>1, <2>5, <3>2 DEF MemoryOK
    <3> QED  BY <3>1, <3>2
  <2>9. MemoryOK(K, D, n)
    <3>1. /\ LeadsTo(K, n.root, Channel) /\ NodeOK(K, D, Channel, n.chan)
          /\ \A k \in YearIndex : NodeOK(K, D, YearNo(m.chan.buf.base + k), n.years[k])
          /\ n.open => n.eof = Len(K)
      BY <1>1, <2>5 DEF MemoryOK
    <3> QED  BY <1>1, <2>5, <2>7, <2>8, <3>1, MemoryKept
  <2>10. QueueOK(K, D, F, n.writes)
    <3>1. QueueOK(K, D, F, m.writes)
      BY <1>3 DEF Holds
    <3> QED  BY <1>1, <2>3, <2>5, <3>1, EnqueueOld
  <2> QED  BY <1>1, <1>3, <2>5, <2>7, <2>9, <2>10, ExtendsSelf DEF Holds, n
<1>4. CASE y.dirty /\ m.open /\ ~(y.seek > 0)
  <2> DEFINE at == m.eof + 1
             w == [at |-> at, buf |-> y.buf]
             L == Append(K, o)
             z == [y EXCEPT !.dirty = FALSE, !.seek = at]
             t == SetTable(m.years[i], d % YearDays, at)
             q == Append(m.writes, w)
  <2>1. /\ Fits(K, D, o, y.buf) /\ y.loaded /\ m.eof = Len(K) /\ m.chan.loaded
        /\ d \in D /\ i \in YearIndex /\ m.years[i].loaded /\ d \in Nat
    BY <1>1, <1>4, DaysAreNumbers DEF MemoryOK, NodeOK
  <2>0. o \in Owner /\ at \in Nat
    BY <1>1, <2>1 DEF DayNo, Owner
  <2>2. /\ L \in Seq(Owner) /\ Extends(K, L) /\ Len(L) = Len(K) + 1
        /\ at \in DOMAIN L /\ L[at] = o
    BY <1>1, <2>0, <2>1, NewPlaceExtends
  <2> HIDE DEF L
  <2>3. w \in Write
    BY <1>1, <2>0, <2>1, DayFits DEF Write
  <2>4. z \in Node(DayBuffer) /\ z.loaded = y.loaded /\ z.buf = y.buf /\ z.seek = at
    BY <1>1, <2>0 DEF Node
  <2>5. m.chan.buf.base + i = YearOfDay(d)
    <3>1. m.chan.buf \in ChannelBuffer
      BY <1>1, <2>1, ChannelFits DEF NodeOK
    <3>2. YearOfDay(d) \in Nat /\ m.chan.buf.base \in Nat
      BY <2>1, <3>1, DayInYear DEF ChannelBuffer
    <3> QED  BY <3>2 DEF YearAt
  <2>6. /\ t \in Node(YearBuffer) /\ t.loaded /\ t.seek = m.years[i].seek
        /\ NodeOK(L, D, YearNo(m.chan.buf.base + i), t)
    <3>1. Is(L, at, o)
      BY <2>2 DEF Is
    <3>2. NodeOK(L, D, YearNo(m.chan.buf.base + i), m.years[i])
      BY <1>1, <2>1, <2>2, NodeOn
    <3>3. d % YearDays \in DayIndex /\ d = (YearOfDay(d) - 1) * YearDays + (d % YearDays)
      BY <2>1, DayInYear
    <3>4. m.years[i] \in Node(YearBuffer)
      BY <1>1, <2>1, MemoryParts
    <3>5. Is(L, at, DayNo(((m.chan.buf.base + i) - 1) * YearDays + (d % YearDays)))
      BY <2>5, <3>1, <3>3
    <3> HIDE DEF i
    <3> QED  BY <2>0, <2>1, <3>2, <3>3, <3>4, <3>5, YearTable
  <2>7. /\ n \in Memory /\ n.open = m.open /\ n.root = m.root /\ n.chan = m.chan
        /\ n.days[d] = z /\ (\A k \in Days \ {d} : n.days[k] = m.days[k])
        /\ n.years[i] = t /\ (\A k \in YearIndex \ {i} : n.years[k] = m.years[k])
        /\ n.last = m.last /\ n.prevDay = m.prevDay /\ n.eof = at /\ n.writes = q
    <3>1. n = [m EXCEPT !.days[d] = z, !.eof = at, !.years[i] = t, !.writes = q]
      BY <1>1, <1>4, ZenonT(30) DEF UpdateDay, Written, Memory, NewPlace
    <3>2. q \in Seq(Write)
      BY <1>1, <2>3, WritesLonger
    <3> HIDE DEF n, z, q, w, y, t, at, i
    <3> QED  BY <1>1, <2>0, <2>1, <2>4, <2>6, <3>1, <3>2 DEF Memory
  <2> HIDE DEF n
  <2>8. Keeps(m, n)
    <3>1. \A k \in YearIndex : n.years[k].loaded = m.years[k].loaded
      <4>1. t.loaded = TRUE /\ m.years[i].loaded = TRUE
        BY <1>1, <2>1, <2>6, MemoryParts DEF Node
      <4> QED  BY <2>7, <4>1
    <3>2. \A k \in Days : n.days[k].loaded = m.days[k].loaded
      BY <2>4, <2>7
    <3> QED  BY <2>7, <3>1, <3>2 DEF Keeps
  <2>9. \A k \in YearIndex : NodeOK(L, D, YearNo(m.chan.buf.base + k), n.years[k])
    <3> SUFFICES ASSUME NEW k \in YearIndex PROVE NodeOK(L, D, YearNo(m.chan.buf.base + k), n.years[k])
      OBVIOUS
    <3>1. CASE k = i
      BY <2>6, <2>7, <3>1
    <3>2. CASE k # i
      BY <1>1, <2>2, <2>7, <3>2, NodeOn
    <3> QED  BY <3>1, <3>2
  <2>10. \A k \in Days : NodeOK(L, D, DayNo(k), n.days[k])
    <3> SUFFICES ASSUME NEW k \in Days PROVE NodeOK(L, D, DayNo(k), n.days[k])
      OBVIOUS
    <3>1. CASE k = d
      <4>1. Fits(L, D, o, z.buf)
        BY <1>1, <2>1, <2>2, <2>4, FitsOn
      <4>2. LeadsTo(L, z.seek, o)
        BY <2>2, <2>4 DEF LeadsTo, Is
      <4> HIDE DEF z
      <4> QED  BY <2>7, <3>1, <4>1, <4>2, <2>1, <2>4 DEF NodeOK
    <3>2. CASE k # d
      BY <1>1, <2>2, <2>7, <3>2, NodeOn DEF MemoryOK
    <3> QED  BY <3>1, <3>2
  <2>11. MemoryOK(L, D, n)
    <3>1. LeadsTo(L, n.root, Channel) /\ NodeOK(L, D, Channel, n.chan)
      BY <1>1, <2>2, <2>7, LeadsOn, NodeOn
    <3> QED  BY <1>1, <2>1, <2>2, <2>7, <2>8, <2>9, <2>10, <3>1, MemoryKept
  <2>12. QueueOK(L, D, F, n.writes)
    <3>1. QueueOK(K, D, F, m.writes)
      BY <1>4 DEF Holds
    <3> QED  BY <1>1, <2>0, <2>1, <2>3, <2>7, <3>1, EnqueueNew DEF L
  <2>13. Owners(L, D)
    BY <1>1, <2>0, <2>1, OwnersMore DEF L, DayNo
  <2> QED  BY <1>4, <2>2, <2>7, <2>8, <2>11, <2>12, <2>13 DEF Holds, n
<1> QED  BY <1>2, <1>3, <1>4

-----------------------------------------------------------------------------
(* Nodes that are created or loaded.                                       *)

LEMMA NewBuffers ==
  /\ NewChannelBuffer \in ChannelBuffer /\ NewYearBuffer \in YearBuffer /\ NewDayBuffer \in DayBuffer
  /\ \A K, D : Fits(K, D, Channel, NewChannelBuffer)
  /\ \A K, D, y : Fits(K, D, YearNo(y), NewYearBuffer)
  /\ \A K, D, d : Fits(K, D, DayNo(d), NewDayBuffer)
<1>1. NewChannelBuffer \in ChannelBuffer
  BY DEF NewChannelBuffer, ChannelBuffer
<1>2. NewYearBuffer \in YearBuffer
  BY DEF NewYearBuffer, YearBuffer
<1>3. NewDayBuffer \in DayBuffer
  BY DEF NewDayBuffer, DayBuffer, EntryNo, EmptySlot, SlotEntry
<1>4. \A K, D : Fits(K, D, Channel, NewChannelBuffer)
  BY <1>1, ChannelFits DEF NewChannelBuffer
<1>5. \A K, D, y : Fits(K, D, YearNo(y), NewYearBuffer)
  BY <1>2, YearFits DEF NewYearBuffer, LeadsTo
<1> QED  BY <1>1, <1>2, <1>3, <1>4, <1>5, DayFits

LEMMA NewNodeIs ==
  ASSUME NEW B, NEW b \in B, NEW K, NEW D, NEW o, Fits(K, D, o, b)
  PROVE  /\ NewNode(b) \in Node(B) /\ NewNode(b).loaded = TRUE /\ NewNode(b).seek = 0
         /\ NewNode(b).buf = b /\ NodeOK(K, D, o, NewNode(b))
BY DEF NewNode, Node, NodeOK, LeadsTo

LEMMA LoadedNodeIs ==
  ASSUME NEW B, NEW b \in B, NEW K, NEW D, NEW o, Fits(K, D, o, b), NEW at \in Nat, Is(K, at, o)
  PROVE  /\ LoadedNode(at, b) \in Node(B) /\ LoadedNode(at, b).loaded = TRUE
         /\ LoadedNode(at, b).buf = b /\ NodeOK(K, D, o, LoadedNode(at, b))
BY DEF LoadedNode, Node, NodeOK, LeadsTo

\* Only the channel has been created since the file was written.
OnlyChannelNew(K, F) == \A a \in DOMAIN K : a \in 1 .. F \/ K[a] = Channel

\* Only nodes of the channel are new, so a node of a day or of a year is in the file.
LEMMA DayInFile ==
  ASSUME NEW K, NEW F, OnlyChannelNew(K, F), NEW a, NEW d, Is(K, a, DayNo(d))
  PROVE  a \in 1 .. F
BY DEF OnlyChannelNew, Is, DayNo, Channel

LEMMA YearInFile ==
  ASSUME NEW K, NEW F, OnlyChannelNew(K, F), NEW a, NEW y, Is(K, a, YearNo(y))
  PROVE  a \in 1 .. F
BY DEF OnlyChannelNew, Is, YearNo, Channel

\* What is read from the file is the node of the owner.
LEMMA ReadBack ==
  ASSUME NEW K, NEW D, FileOK(K, D, Flushed), NEW o, NEW a, Is(K, a, o), a \in 1 .. Len(Flushed.nodes)
  PROVE  Fits(K, D, o, OnDisk(a))
BY DEF FileOK, Is, OnDisk

LEMMA MoreDays ==
  ASSUME NEW K, NEW D, NEW F, NEW m, Holds(K, D, F, m), NEW E, D \subseteq E
  PROVE  Holds(K, E, F, m)
<1>1. K \in Seq(Owner) /\ Extends(K, K) /\ Owners(K, D) /\ MemoryOK(K, D, m)
  BY ExtendsSelf DEF Holds, Owners
<1>2. Owners(K, E)
  BY <1>1 DEF Owners
<1>3. \A o, n : NodeOK(K, D, o, n) => NodeOK(K, E, o, n)
  BY <1>1, NodeOn
<1>4. MemoryOK(K, E, m)
  BY <1>1, <1>3 DEF MemoryOK
<1>5. QueueOK(K, D, F, m.writes) => QueueOK(K, E, F, m.writes)
  <2>1. \A w : WriteOK(K, D, w) => WriteOK(K, E, w)
    BY <1>1, FitsOn DEF WriteOK
  <2> QED  BY <2>1 DEF QueueOK
<1> QED  BY <1>2, <1>4, <1>5 DEF Holds

(* The memory with another year, day, last file or channel.                *)
WithYear(m, i, y) == [m EXCEPT !.years[i] = y]
WithDay(m, d, z) == [m EXCEPT !.days[d] = z]
WithLast(m, f, p) == [m EXCEPT !.last = f, !.prevDay = p]
WithChannel(m, c) == [m EXCEPT !.chan = c]

LEMMA SetYear ==
  ASSUME NEW K, NEW D, NEW F, NEW m, Holds(K, D, F, m), m.chan.loaded, m.chan.buf.base # 0,
         NEW i \in YearIndex, NEW y \in Node(YearBuffer), y.loaded,
         NodeOK(K, D, YearNo(m.chan.buf.base + i), y)
  PROVE  LET n == WithYear(m, i, y) IN
         /\ Holds(K, D, F, n) /\ n.years[i] = y /\ (n.open <=> m.open) /\ n.chan = m.chan /\ n.days = m.days
         /\ n.last = m.last /\ n.prevDay = m.prevDay /\ n.writes = m.writes
<1> DEFINE n == WithYear(m, i, y)
<1>1. m \in Memory /\ MemoryOK(K, D, m)
  BY DEF Holds, MemoryOK
<1>2. /\ n \in Memory /\ (n.open <=> m.open) /\ n.root = m.root /\ n.chan = m.chan /\ n.days = m.days
      /\ n.years[i] = y /\ (\A k \in YearIndex \ {i} : n.years[k] = m.years[k])
      /\ n.last = m.last /\ n.prevDay = m.prevDay /\ n.eof = m.eof /\ n.writes = m.writes
  BY <1>1 DEF Memory, WithYear
<1> HIDE DEF n
<1>3. \A d \in Days : YearAt(n, d) = YearAt(m, d)
  BY <1>2 DEF YearAt
<1>4. \A k \in YearIndex :
       /\ n.years[k].loaded => n.chan.loaded /\ n.chan.buf.base # 0
       /\ NodeOK(K, D, YearNo(n.chan.buf.base + k), n.years[k])
  <2> SUFFICES ASSUME NEW k \in YearIndex
               PROVE  /\ n.years[k].loaded => n.chan.loaded /\ n.chan.buf.base # 0
                      /\ NodeOK(K, D, YearNo(n.chan.buf.base + k), n.years[k])
    OBVIOUS
  <2>1. CASE k = i
    BY <1>2, <2>1
  <2>2. CASE k # i
    BY <1>1, <1>2, <2>2 DEF MemoryOK
  <2> QED  BY <2>1, <2>2
<1>5. \A d \in Days :
       /\ n.days[d].loaded => /\ d \in D /\ n.chan.loaded
                              /\ YearAt(n, d) \in YearIndex /\ n.years[YearAt(n, d)].loaded
       /\ NodeOK(K, D, DayNo(d), n.days[d])
  <2> SUFFICES ASSUME NEW d \in Days
               PROVE  /\ n.days[d].loaded => /\ d \in D /\ n.chan.loaded
                              /\ YearAt(n, d) \in YearIndex /\ n.years[YearAt(n, d)].loaded
                      /\ NodeOK(K, D, DayNo(d), n.days[d])
    OBVIOUS
  <2>1. CASE YearAt(n, d) = i
    BY <1>1, <1>2, <1>3, <2>1 DEF MemoryOK
  <2>2. CASE YearAt(n, d) # i
    BY <1>1, <1>2, <1>3, <2>2 DEF MemoryOK
  <2> QED  BY <2>1, <2>2
<1>6. MemoryOK(K, D, n)
  BY <1>1, <1>2, <1>4, <1>5 DEF MemoryOK
<1> QED  BY <1>2, <1>6 DEF Holds, n

LEMMA SetDay ==
  ASSUME NEW K, NEW D, NEW F, NEW m, Holds(K, D, F, m), m.chan.loaded,
         NEW d \in Days, d \in D, YearAt(m, d) \in YearIndex, m.years[YearAt(m, d)].loaded,
         NEW z \in Node(DayBuffer), z.loaded, NodeOK(K, D, DayNo(d), z)
  PROVE  LET n == WithDay(m, d, z) IN
         /\ Holds(K, D, F, n) /\ n.days[d] = z /\ (n.open <=> m.open) /\ n.chan = m.chan
         /\ n.years = m.years /\ (\A k \in Days \ {d} : n.days[k] = m.days[k])
         /\ n.last = m.last /\ n.prevDay = m.prevDay /\ n.writes = m.writes
<1> DEFINE n == WithDay(m, d, z)
<1>1. m \in Memory /\ MemoryOK(K, D, m)
  BY DEF Holds, MemoryOK
<1>2. /\ n \in Memory /\ (n.open <=> m.open) /\ n.root = m.root /\ n.chan = m.chan /\ n.years = m.years
      /\ n.days[d] = z /\ (\A k \in Days \ {d} : n.days[k] = m.days[k])
      /\ n.last = m.last /\ n.prevDay = m.prevDay /\ n.eof = m.eof /\ n.writes = m.writes
  BY <1>1 DEF Memory, WithDay
<1> HIDE DEF n
<1>3. \A k \in Days : YearAt(n, k) = YearAt(m, k)
  BY <1>2 DEF YearAt
<1>4. \A k \in Days :
       /\ n.days[k].loaded => /\ k \in D /\ n.chan.loaded
                              /\ YearAt(n, k) \in YearIndex /\ n.years[YearAt(n, k)].loaded
       /\ NodeOK(K, D, DayNo(k), n.days[k])
  <2> SUFFICES ASSUME NEW k \in Days
               PROVE  /\ n.days[k].loaded => /\ k \in D /\ n.chan.loaded
                              /\ YearAt(n, k) \in YearIndex /\ n.years[YearAt(n, k)].loaded
                      /\ NodeOK(K, D, DayNo(k), n.days[k])
    OBVIOUS
  <2>1. CASE k = d
    BY <1>1, <1>2, <1>3, <2>1
  <2>2. CASE k # d
    BY <1>1, <1>2, <1>3, <2>2 DEF MemoryOK
  <2> QED  BY <2>1, <2>2
<1>5. n.last.day # -1 => n.last.day \in D /\ n.days[n.last.day].loaded
  <2>1. m.last.day \in Days \cup {-1}
    BY <1>1 DEF Memory, File
  <2>2. CASE m.last.day = d
    BY <1>1, <1>2, <2>2
  <2>3. CASE m.last.day # d
    BY <1>1, <1>2, <2>1, <2>3 DEF MemoryOK
  <2> QED  BY <2>2, <2>3
<1>6. MemoryOK(K, D, n)
  BY <1>1, <1>2, <1>4, <1>5 DEF MemoryOK
<1> QED  BY <1>2, <1>6 DEF Holds, n

LEMMA SetLast ==
  ASSUME NEW K, NEW D, NEW F, NEW m, Holds(K, D, F, m), m.chan.loaded,
         NEW f \in File, f.day # -1 => f.day \in D /\ m.days[f.day].loaded,
         NEW p \in Days \cup {-1}
  PROVE  LET n == WithLast(m, f, p) IN
         /\ Holds(K, D, F, n) /\ (n.open <=> m.open) /\ n.chan = m.chan
         /\ n.years = m.years /\ n.days = m.days
         /\ n.last = f /\ n.prevDay = p /\ n.writes = m.writes
<1> DEFINE n == WithLast(m, f, p)
<1>1. m \in Memory /\ MemoryOK(K, D, m)
  BY DEF Holds, MemoryOK
<1>2. /\ n \in Memory /\ (n.open <=> m.open) /\ n.root = m.root /\ n.chan = m.chan /\ n.years = m.years
      /\ n.days = m.days /\ n.last = f /\ n.prevDay = p /\ n.eof = m.eof /\ n.writes = m.writes
  BY <1>1 DEF Memory, WithLast
<1> HIDE DEF n
<1>3. \A k \in Days : YearAt(n, k) = YearAt(m, k)
  BY <1>2 DEF YearAt
<1>4. MemoryOK(K, D, n)
  BY <1>1, <1>2, <1>3 DEF MemoryOK
<1> QED  BY <1>2, <1>4 DEF Holds, n

LEMMA SetChannel ==
  ASSUME NEW K, NEW D, NEW F, NEW m, Holds(K, D, F, m), ~m.chan.loaded,
         NEW c \in Node(ChannelBuffer), c.loaded, NodeOK(K, D, Channel, c)
  PROVE  LET n == WithChannel(m, c) IN
         /\ Holds(K, D, F, n) /\ (n.open <=> m.open) /\ n.chan = c
         /\ n.years = m.years /\ n.days = m.days /\ n.last = m.last /\ n.prevDay = m.prevDay
         /\ n.writes = m.writes
         /\ \A i \in YearIndex : ~n.years[i].loaded
         /\ \A d \in Days : ~n.days[d].loaded
<1> DEFINE n == WithChannel(m, c)
<1>1. m \in Memory /\ MemoryOK(K, D, m)
  BY DEF Holds, MemoryOK
<1>2. /\ n \in Memory /\ (n.open <=> m.open) /\ n.root = m.root /\ n.chan = c /\ n.years = m.years
      /\ n.days = m.days /\ n.last = m.last /\ n.prevDay = m.prevDay /\ n.eof = m.eof /\ n.writes = m.writes
  BY <1>1 DEF Memory, WithChannel
<1> HIDE DEF n
<1>3. \A i \in YearIndex : ~n.years[i].loaded /\ ~n.years[i].dirty
  BY <1>1, <1>2 DEF MemoryOK, NodeOK
<1>4. \A d \in Days : ~n.days[d].loaded /\ ~n.days[d].dirty
  BY <1>1, <1>2 DEF MemoryOK, NodeOK
<1>5. n.last.day = -1
  BY <1>1, <1>2 DEF MemoryOK, NoFile
<1>6. MemoryOK(K, D, n)
  BY <1>1, <1>2, <1>3, <1>4, <1>5 DEF MemoryOK, NodeOK
<1> QED  BY <1>2, <1>3, <1>4, <1>6 DEF Holds, n

\* The file that was inserted last, as it is loaded from the nodes n of its day d.
LEMMA LoadLastFileHolds ==
  ASSUME NEW K, NEW D, D \subseteq Days, NEW F, NEW m, Holds(K, D, F, m), m.chan.loaded, m.last = NoFile,
         NEW d \in D, m.days[d].loaded, NEW node, node.buf \in DayBuffer
  PROVE  LET n == LoadLastFile(m, d, node) IN
         /\ Holds(K, D, F, n) /\ (n.open <=> m.open) /\ n.chan = m.chan /\ n.years = m.years /\ n.days = m.days
         /\ n.prevDay = m.prevDay /\ n.writes = m.writes
         /\ n.last = NoFile \/ (n.last.seek # 0 /\ n.last.day # -1)
<1> DEFINE e == node.buf.slot[SlotOf(node.buf.last)]
           f == [start |-> e.start, end |-> e.end, seek |-> node.buf.last, day |-> d]
<1>1. m \in Memory /\ m.prevDay \in Days \cup {-1} /\ d # -1
  BY DaysAreNumbers DEF Holds, MemoryOK, Memory
<1>2. CASE node.buf.last = 0
  BY <1>2 DEF LoadLastFile
<1>3. CASE node.buf.last # 0
  <2>1. e \in SlotEntry /\ node.buf.last \in EntryNo
    BY <1>3, EntryNoFacts DEF DayBuffer
  <2>2. f \in File
    BY <2>1 DEF SlotEntry, File
  <2> HIDE DEF e
  <2>3. f.day = d /\ f.seek = node.buf.last
    OBVIOUS
  <2> HIDE DEF f
  <2>4. LoadLastFile(m, d, node) = [m EXCEPT !.last = f]
    BY <1>3 DEF LoadLastFile, e, f
  <2>5. [m EXCEPT !.last = f] = WithLast(m, f, m.prevDay)
    BY <1>1 DEF Memory, WithLast
  <2>6. LET n == WithLast(m, f, m.prevDay) IN
         /\ Holds(K, D, F, n) /\ (n.open <=> m.open) /\ n.chan = m.chan
         /\ n.years = m.years /\ n.days = m.days
         /\ n.last = f /\ n.prevDay = m.prevDay /\ n.writes = m.writes
    BY <1>1, <2>2, <2>3, SetLast
  <2> QED  BY <1>1, <1>3, <2>3, <2>4, <2>5, <2>6
<1> QED  BY <1>2, <1>3

LEMMA LoadLastDayHolds ==
  ASSUME NEW K, NEW D, D \subseteq Days, NEW m, m.open, FileOK(K, D, Flushed),
         DOMAIN K \subseteq 1 .. Len(Flushed.nodes),
         Holds(K, D, Len(Flushed.nodes), m), m.chan.loaded, m.last = NoFile,
         NEW i \in YearIndex, m.years[i].loaded
  PROVE  LET n == LoadLastDay(m, i) IN
         /\ Holds(K, D, Len(Flushed.nodes), n) /\ (n.open <=> m.open) /\ n.chan = m.chan
         /\ n.prevDay = m.prevDay /\ n.writes = m.writes
         /\ n.last = NoFile \/ (n.last.seek # 0 /\ n.last.day # -1)
<1> DEFINE F == Len(Flushed.nodes)
           year == m.years[i].buf
           y == m.chan.buf.base + i
           at == year.table[year.last]
           d == (m.chan.buf.base + i - 1) * YearDays + year.last
           node == LoadedNode(at, OnDisk(at))
           n == WithDay(m, d, node)
<1>1. CASE year.last = -1 \/ at = 0
  BY <1>1, Zenon DEF LoadLastDay
<1>2. CASE ~(year.last = -1 \/ at = 0)
  <2>1. MemoryOK(K, D, m) /\ m \in Memory
    BY DEF Holds, MemoryOK
  <2>2. m.chan.buf \in ChannelBuffer /\ m.chan.buf.base # 0 /\ Fits(K, D, YearNo(y), year)
    BY <2>1, ChannelFits DEF MemoryOK, NodeOK
  <2>3. year \in YearBuffer /\ year.last \in DayIndex /\ Is(K, at, DayNo((y - 1) * YearDays + year.last))
    BY <1>2, <2>2, YearFits DEF YearBuffer, LeadsTo
  <2>4. y \in Nat \ {0} /\ m.chan.buf.base \in Nat
    BY <2>2 DEF ChannelBuffer, YearIndex
  <2>5. d = (y - 1) * YearDays + year.last
    <3>1. m.chan.buf.base + i - 1 = y - 1
      BY <2>4, SMTT(30) DEF YearIndex
    <3> QED  BY <3>1
  <2> HIDE DEF y, at, year
  <2>6. d \in Nat /\ YearOfDay(d) = y
    BY <2>3, <2>4, <2>5, DayOfIndex
  <2>7. d \in D /\ d \in Days /\ Is(K, at, DayNo(d))
    BY <2>3, <2>5 DEF Holds, Owners, Is, DayNo
  <2> HIDE DEF d
  <2>8. YearAt(m, d) = i
    BY <2>4, <2>6 DEF YearAt, y, YearIndex
  <2>9. at \in Nat /\ Fits(K, D, DayNo(d), OnDisk(at)) /\ OnDisk(at) \in DayBuffer
    <3>1. at \in 1 .. Len(Flushed.nodes)
      BY <2>7 DEF Is
    <3> QED  BY <2>7, <3>1, ReadBack, DayFits
  <2>10. /\ node \in Node(DayBuffer) /\ node.loaded /\ node.buf = OnDisk(at)
         /\ NodeOK(K, D, DayNo(d), node)
    <3>1. node.buf = OnDisk(at)
      BY DEF LoadedNode
    <3>2. node \in Node(DayBuffer) /\ node.loaded
      BY <2>7, <2>9, LoadedNodeIs
    <3>3. NodeOK(K, D, DayNo(d), node)
      BY <2>7, <2>9, LoadedNodeIs
    <3> QED  BY <3>1, <3>2, <3>3
  <2> HIDE DEF node
  <2>11. /\ Holds(K, D, F, n) /\ n.days[d] = node /\ (n.open <=> m.open) /\ n.chan = m.chan
         /\ n.last = m.last /\ n.prevDay = m.prevDay /\ n.writes = m.writes
    <3> QED  BY <2>7, <2>8, <2>10, SetDay
  <2> HIDE DEF n
  <2>12. LET r == LoadLastFile(n, d, node) IN
         /\ Holds(K, D, F, r) /\ (r.open <=> n.open) /\ r.chan = n.chan
         /\ r.prevDay = n.prevDay /\ r.writes = n.writes
         /\ r.last = NoFile \/ (r.last.seek # 0 /\ r.last.day # -1)
    BY <2>7, <2>9, <2>10, <2>11, LoadLastFileHolds
  <2>13. LoadLastDay(m, i) = LoadLastFile(n, d, node)
    BY <1>2 DEF LoadLastDay, WithDay, n, node, at, d, year
  <2> QED  BY <2>11, <2>12, <2>13
<1> QED  BY <1>1, <1>2

LEMMA LoadLastYearHolds ==
  ASSUME NEW K, NEW D, D \subseteq Days, NEW m, m.open, FileOK(K, D, Flushed),
         DOMAIN K \subseteq 1 .. Len(Flushed.nodes),
         Holds(K, D, Len(Flushed.nodes), m), m.chan.loaded, m.last = NoFile
  PROVE  LET n == LoadLastYear(m) IN
         /\ Holds(K, D, Len(Flushed.nodes), n) /\ (n.open <=> m.open) /\ n.chan = m.chan
         /\ n.prevDay = m.prevDay /\ n.writes = m.writes
         /\ n.last = NoFile \/ (n.last.seek # 0 /\ n.last.day # -1)
<1> DEFINE F == Len(Flushed.nodes)
           channel == m.chan.buf
           at == channel.table[channel.last]
           i == channel.last
           node == LoadedNode(at, OnDisk(at))
           n == WithYear(m, i, node)
<1>1. CASE channel.base = 0 \/ channel.last = -1 \/ at = 0
  BY <1>1, Zenon DEF LoadLastYear
<1>2. CASE ~(channel.base = 0 \/ channel.last = -1 \/ at = 0)
  <2>1. MemoryOK(K, D, m) /\ m \in Memory
    BY DEF Holds, MemoryOK
  <2>2. channel \in ChannelBuffer /\ channel.base # 0 /\ Fits(K, D, Channel, channel)
    BY <1>2, <2>1, ChannelFits DEF MemoryOK, NodeOK
  <2>3. i \in YearIndex /\ Is(K, at, YearNo(channel.base + i))
    BY <1>2, <2>2, ChannelFits DEF ChannelBuffer, LeadsTo
  <2> HIDE DEF i, at
  <2>4. at \in Nat /\ Fits(K, D, YearNo(channel.base + i), OnDisk(at)) /\ OnDisk(at) \in YearBuffer
    <3>1. at \in 1 .. Len(Flushed.nodes)
      BY <2>3 DEF Is
    <3> QED  BY <2>3, <3>1, ReadBack, YearFits
  <2>5. /\ node \in Node(YearBuffer) /\ node.loaded /\ node.buf = OnDisk(at)
        /\ NodeOK(K, D, YearNo(channel.base + i), node)
    <3>1. node.buf = OnDisk(at)
      BY DEF LoadedNode
    <3>2. node \in Node(YearBuffer) /\ node.loaded
      BY <2>3, <2>4, LoadedNodeIs
    <3>3. NodeOK(K, D, YearNo(channel.base + i), node)
      BY <2>3, <2>4, LoadedNodeIs, ZenonT(30)
    <3> QED  BY <3>1, <3>2, <3>3
  <2> HIDE DEF node
  <2>6. /\ Holds(K, D, F, n) /\ n.years[i] = node /\ (n.open <=> m.open) /\ n.chan = m.chan
        /\ n.last = m.last /\ n.prevDay = m.prevDay /\ n.writes = m.writes
    <3> QED  BY <2>2, <2>3, <2>5, SetYear
  <2> HIDE DEF n
  <2>7. LET r == LoadLastDay(n, i) IN
         /\ Holds(K, D, F, r) /\ (r.open <=> n.open) /\ r.chan = n.chan
         /\ r.prevDay = n.prevDay /\ r.writes = n.writes
         /\ r.last = NoFile \/ (r.last.seek # 0 /\ r.last.day # -1)
    BY <2>3, <2>5, <2>6, LoadLastDayHolds
  <2>8. LoadLastYear(m) = LoadLastDay(n, i)
    BY <1>2 DEF LoadLastYear, WithYear, n, node, at, i
  <2> QED  BY <2>6, <2>7, <2>8
<1> QED  BY <1>1, <1>2

\* The channel's node is there; no other place was given out.
LEMMA GetChannelNodeHolds ==
  ASSUME NEW K, NEW D, D \subseteq Days, NEW m, FileOK(K, D, Flushed),
         m.open => DOMAIN K \subseteq 1 .. Len(Flushed.nodes),
         Holds(K, D, Len(Flushed.nodes), m)
  PROVE  LET n == GetChannelNode(m) IN
         /\ \E L \in Seq(Owner) :
              Extends(K, L) /\ Holds(L, D, Len(Flushed.nodes), n)
              /\ (\A a \in DOMAIN L : a \in DOMAIN K \/ L[a] = Channel)
         /\ n.chan.loaded /\ (n.open <=> m.open) /\ n.prevDay = m.prevDay
         /\ \/ m.chan.loaded /\ n.last = m.last
            \/ n.last = NoFile
            \/ n.last.seek # 0 /\ n.last.day # -1
<1> DEFINE F == Len(Flushed.nodes)
           new == WithChannel(m, NewNode(NewChannelBuffer))
           old == WithChannel(m, LoadedNode(m.root, OnDisk(m.root)))
<1>0. F \in Nat /\ K \in Seq(Owner) /\ MemoryOK(K, D, m) /\ m.root \in Nat
  BY DEF FileOK, Holds, Owners, MemoryOK, Memory
<1>1. CASE m.chan.loaded
  BY <1>0, <1>1, ExtendsSelf DEF GetChannelNode
<1>2. CASE ~m.chan.loaded /\ m.open /\ m.root # 0
  <2>1. Is(K, m.root, Channel) /\ m.last = NoFile
    BY <1>0, <1>2 DEF MemoryOK, LeadsTo
  <2>2. Fits(K, D, Channel, OnDisk(m.root)) /\ OnDisk(m.root) \in ChannelBuffer
    <3>1. m.root \in 1 .. Len(Flushed.nodes)
      BY <1>2, <2>1 DEF Is
    <3> QED  BY <2>1, <3>1, ReadBack, ChannelFits
  <2>3. /\ LoadedNode(m.root, OnDisk(m.root)) \in Node(ChannelBuffer)
        /\ LoadedNode(m.root, OnDisk(m.root)).loaded
        /\ NodeOK(K, D, Channel, LoadedNode(m.root, OnDisk(m.root)))
    BY <1>0, <2>1, <2>2, LoadedNodeIs
  <2>4. /\ Holds(K, D, F, old) /\ (old.open <=> m.open)
        /\ old.chan = LoadedNode(m.root, OnDisk(m.root))
        /\ old.last = m.last /\ old.prevDay = m.prevDay
    BY <1>2, <2>3, SetChannel
  <2>5. GetChannelNode(m) = LoadLastYear(old)
    BY <1>2 DEF GetChannelNode, WithChannel
  <2>6. old.chan.loaded /\ old.last = NoFile /\ old.open
    BY <1>2, <2>1, <2>3, <2>4
  <2> HIDE DEF old
  <2>7. LET n == LoadLastYear(old) IN
        /\ Holds(K, D, F, n) /\ (n.open <=> old.open) /\ n.chan = old.chan
        /\ n.prevDay = old.prevDay
        /\ n.last = NoFile \/ (n.last.seek # 0 /\ n.last.day # -1)
    BY <1>2, <2>4, <2>6, LoadLastYearHolds
  <2> QED  BY <1>0, <1>2, <2>4, <2>5, <2>6, <2>7, ExtendsSelf
<1>3. CASE ~m.chan.loaded /\ ~(m.open /\ m.root # 0)
  <2>1. /\ NewNode(NewChannelBuffer) \in Node(ChannelBuffer) /\ NewNode(NewChannelBuffer).loaded
        /\ NodeOK(K, D, Channel, NewNode(NewChannelBuffer))
    BY NewBuffers, NewNodeIs
  <2>2. /\ Holds(K, D, F, new) /\ (new.open <=> m.open) /\ new.chan = NewNode(NewChannelBuffer)
        /\ new.last = m.last /\ new.prevDay = m.prevDay
    BY <1>3, <2>1, SetChannel
  <2>3. GetChannelNode(m) = UpdateRoot(UpdateChannel(new))
    BY <1>3 DEF GetChannelNode, WithChannel
  <2>4. new.chan.loaded /\ new.last = NoFile
    BY <1>0, <1>3, <2>1, <2>2 DEF MemoryOK
  <2> HIDE DEF new
  <2>5. /\ \E L \in Seq(Owner) : Extends(K, L) /\ Holds(L, D, F, UpdateChannel(new))
                                  /\ (\A a \in DOMAIN L : a \in DOMAIN K \/ L[a] = Channel)
        /\ Keeps(new, UpdateChannel(new))
    BY <1>0, <2>2, UpdateChannelHolds
  <2>6. PICK L \in Seq(Owner) : Extends(K, L) /\ Holds(L, D, F, UpdateChannel(new))
                                  /\ (\A a \in DOMAIN L : a \in DOMAIN K \/ L[a] = Channel)
    BY <2>5
  <2>7. Holds(L, D, F, GetChannelNode(m)) /\ Keeps(UpdateChannel(new), GetChannelNode(m))
    BY <1>0, <2>3, <2>6, UpdateRootHolds
  <2>8. /\ GetChannelNode(m).chan.loaded /\ (GetChannelNode(m).open <=> m.open)
        /\ GetChannelNode(m).prevDay = m.prevDay /\ GetChannelNode(m).last = NoFile
    BY <2>2, <2>4, <2>5, <2>7 DEF Keeps
  <2> QED  BY <2>6, <2>7, <2>8
<1> QED  BY <1>1, <1>2, <1>3

-----------------------------------------------------------------------------
(* The nodes that a file needs.                                            *)

\* The channel has a first year: that of its first file.
LEMMA SetBaseHolds ==
  ASSUME NEW K, NEW D, NEW F, NEW m, Holds(K, D, F, m), m.chan.loaded, NEW t \in Nat, Day(t) \in D
  PROVE  LET n == SetBase(m, t) IN
         /\ Holds(K, D, F, n) /\ n.chan.loaded /\ n.chan.buf.base # 0
         /\ (n.open <=> m.open) /\ n.last = m.last /\ n.prevDay = m.prevDay
         /\ n.chan.buf.base = IF m.chan.buf.base = 0 THEN Year(t) ELSE m.chan.buf.base
<1> DEFINE b == [m.chan.buf EXCEPT !.base = Year(t)]
           c == [m.chan EXCEPT !.buf = b, !.dirty = TRUE]
           n == [m EXCEPT !.chan = c]
<1>1. m \in Memory /\ MemoryOK(K, D, m) /\ m.chan \in Node(ChannelBuffer)
  BY MemoryParts DEF Holds, MemoryOK
<1>2. CASE m.chan.buf.base # 0
  BY <1>2 DEF SetBase
<1>3. CASE m.chan.buf.base = 0
  <2>1. m.chan.buf \in ChannelBuffer /\ \A i \in YearIndex : m.chan.buf.table[i] = 0
    BY <1>1, <1>3, ChannelFits DEF MemoryOK, NodeOK
  <2>2. Year(t) \in Nat \ {0} /\ Year(t) \in {YearOfDay(d) : d \in D}
    BY DayFacts
  <2>3. b \in ChannelBuffer /\ b.base = Year(t) /\ b.table = m.chan.buf.table
    BY <2>1, <2>2 DEF ChannelBuffer
  <2>4. Fits(K, D, Channel, b)
    BY <2>1, <2>2, <2>3, ChannelFits, ZenonT(30) DEF LeadsTo
  <2>5. SetBase(m, t) = n
    <3>1. m = [m EXCEPT !.chan = m.chan] /\ m.chan = [m.chan EXCEPT !.buf = m.chan.buf]
      BY <1>1 DEF Memory, Node
    <3> QED  BY <1>1, <1>3 DEF SetBase, Memory, Node
  <2> HIDE DEF b
  <2>6. /\ c \in Node(ChannelBuffer) /\ c.buf = b /\ c.seek = m.chan.seek
        /\ c.loaded = m.chan.loaded
    BY <1>1, <2>3 DEF Node
  <2> HIDE DEF c
  <2>7. /\ n \in Memory /\ n.open = m.open /\ n.root = m.root /\ n.chan = c /\ n.years = m.years
        /\ n.days = m.days /\ n.last = m.last /\ n.prevDay = m.prevDay /\ n.eof = m.eof /\ n.writes = m.writes
    BY <1>1, <2>6 DEF Memory
  <2> HIDE DEF n
  <2>8. NodeOK(K, D, Channel, n.chan) /\ n.chan.loaded
    <3>1. n.chan.loaded
      BY <2>6, <2>7
    <3>2. LeadsTo(K, n.chan.seek, Channel) /\ Fits(K, D, Channel, n.chan.buf)
      BY <1>1, <2>4, <2>6, <2>7 DEF MemoryOK, NodeOK
    <3> QED  BY <3>1, <3>2 DEF NodeOK
  <2>9. \A i \in YearIndex : ~n.years[i].loaded /\ ~n.years[i].dirty
    BY <1>1, <1>3, <2>7 DEF MemoryOK, NodeOK
  <2>10. \A d \in Days : ~n.days[d].loaded /\ ~n.days[d].dirty
    BY <1>1, <1>3, <2>7 DEF MemoryOK, NodeOK
  <2>11. MemoryOK(K, D, n)
    <3>1. n.last.day # -1 => n.last.day \in D /\ n.days[n.last.day].loaded
      BY <1>1, <2>7 DEF MemoryOK
    <3>2. LeadsTo(K, n.root, Channel) /\ (n.open => n.eof = Len(K))
      BY <1>1, <2>7 DEF MemoryOK
    <3> QED  BY <2>7, <2>8, <2>9, <2>10, <3>1, <3>2 DEF MemoryOK, NodeOK
  <2>12. IF n.open THEN QueueOK(K, D, F, n.writes) ELSE n.writes = <<>>
    BY <2>7 DEF Holds
  <2>13. Holds(K, D, F, n)
    BY <2>11, <2>12 DEF Holds
  <2>14. n.chan.buf.base # 0 /\ n.chan.buf.base = Year(t)
    BY <2>2, <2>3, <2>6, <2>7
  <2> QED  BY <1>3, <2>5, <2>7, <2>8, <2>13, <2>14
<1> QED  BY <1>2, <1>3

\* What the nodes that a file needs leave alone.
Grows(m, n) ==
  /\ n.open <=> m.open
  /\ n.last = m.last /\ n.prevDay = m.prevDay
  /\ n.chan.loaded /\ n.chan.buf.base = m.chan.buf.base
  /\ \A d \in Days : m.days[d].loaded => n.days[d].loaded

LEMMA GetYearNodeHolds ==
  ASSUME NEW K, NEW D, NEW m, FileOK(K, D, Flushed),
         m.open => OnlyChannelNew(K, Len(Flushed.nodes)),
         Holds(K, D, Len(Flushed.nodes), m), m.chan.loaded, m.chan.buf.base # 0, NEW i \in YearIndex
  PROVE  LET n == GetYearNode(m, i) IN
         Holds(K, D, Len(Flushed.nodes), n) /\ n.years[i].loaded /\ Grows(m, n)
<1> DEFINE F == Len(Flushed.nodes)
           at == m.chan.buf.table[i]
           y == m.chan.buf.base + i
<1>1. MemoryOK(K, D, m) /\ m.chan.buf \in ChannelBuffer /\ Fits(K, D, Channel, m.chan.buf)
  BY ChannelFits DEF Holds, MemoryOK, NodeOK
<1>2. CASE m.years[i].loaded
  BY <1>2 DEF GetYearNode, Grows
<1>3. CASE ~m.years[i].loaded /\ m.open /\ at # 0
  <2> DEFINE node == LoadedNode(at, OnDisk(at))
  <2>1. Is(K, at, YearNo(y))
    BY <1>1, <1>3, ChannelFits DEF LeadsTo
  <2>2. at \in 1 .. F
    BY <1>3, <2>1 DEF OnlyChannelNew, Is, YearNo, Channel
  <2> HIDE DEF at, y
  <2>3. Fits(K, D, YearNo(y), OnDisk(at)) /\ OnDisk(at) \in YearBuffer /\ at \in Nat
    BY <2>1, <2>2, ReadBack, YearFits
  <2>4. node \in Node(YearBuffer) /\ node.loaded /\ NodeOK(K, D, YearNo(y), node)
    BY <2>1, <2>3, LoadedNodeIs
  <2> HIDE DEF node
  <2>5. LET n == WithYear(m, i, node) IN
        /\ Holds(K, D, F, n) /\ n.years[i] = node /\ (n.open <=> m.open) /\ n.chan = m.chan
        /\ n.days = m.days /\ n.last = m.last /\ n.prevDay = m.prevDay
    BY <2>4, SetYear DEF y
  <2>6. GetYearNode(m, i) = WithYear(m, i, node)
    BY <1>3 DEF GetYearNode, WithYear, node, at
  <2> QED  BY <2>4, <2>5, <2>6 DEF Grows
<1>4. CASE ~m.years[i].loaded /\ ~(m.open /\ at # 0)
  <2> DEFINE node == NewNode(NewYearBuffer)
  <2>4. node \in Node(YearBuffer) /\ node.loaded /\ NodeOK(K, D, YearNo(y), node)
    BY NewBuffers, NewNodeIs
  <2> HIDE DEF node
  <2>5. LET n == WithYear(m, i, node) IN
        /\ Holds(K, D, F, n) /\ n.years[i] = node /\ (n.open <=> m.open) /\ n.chan = m.chan
        /\ n.days = m.days /\ n.last = m.last /\ n.prevDay = m.prevDay
    BY <2>4, SetYear
  <2>6. GetYearNode(m, i) = WithYear(m, i, node)
    BY <1>4 DEF GetYearNode, WithYear, node
  <2> QED  BY <2>4, <2>5, <2>6 DEF Grows
<1> QED  BY <1>2, <1>3, <1>4

LEMMA GetDateNodeHolds ==
  ASSUME NEW K, NEW D, NEW m, FileOK(K, D, Flushed),
         m.open => OnlyChannelNew(K, Len(Flushed.nodes)),
         Holds(K, D, Len(Flushed.nodes), m), m.chan.loaded, m.chan.buf.base # 0,
         NEW d \in Days, d \in D, YearAt(m, d) \in YearIndex, m.years[YearAt(m, d)].loaded
  PROVE  LET n == GetDateNode(m, d) IN
         /\ \E L \in Seq(Owner) : Extends(K, L) /\ Holds(L, D, Len(Flushed.nodes), n)
         /\ n.days[d].loaded /\ Grows(m, n)
<1> DEFINE F == Len(Flushed.nodes)
           i == YearAt(m, d)
           at == m.years[i].buf.table[d % YearDays]
           y == m.chan.buf.base + i
<1>1. /\ MemoryOK(K, D, m) /\ m.chan.buf \in ChannelBuffer /\ K \in Seq(Owner) /\ F \in Nat
      /\ m.years[i].buf \in YearBuffer /\ Fits(K, D, YearNo(y), m.years[i].buf)
  BY ChannelFits, YearFits DEF Holds, MemoryOK, NodeOK, Owners, FileOK
<1>2. /\ y = YearOfDay(d) /\ d % YearDays \in DayIndex /\ d = (y - 1) * YearDays + (d % YearDays)
  <2>1. d \in Nat
    BY DaysAreNumbers
  <2>2. YearOfDay(d) \in Nat /\ m.chan.buf.base \in Nat
    BY <1>1, <2>1, DayInYear DEF ChannelBuffer
  <2>3. y = YearOfDay(d)
    BY <2>2 DEF YearAt
  <2> QED  BY <2>1, <2>3, DayInYear
<1>3. CASE m.days[d].loaded
  BY <1>1, <1>3, ExtendsSelf DEF GetDateNode, Grows
<1>4. CASE ~m.days[d].loaded /\ m.open /\ at # 0
  <2> DEFINE node == LoadedNode(at, OnDisk(at))
  <2>1. Is(K, at, DayNo(d))
    <3>1. LeadsTo(K, at, DayNo((y - 1) * YearDays + (d % YearDays)))
      BY <1>1, <1>2, YearFits
    <3> QED  BY <1>2, <1>4, <3>1 DEF LeadsTo
  <2>2. at \in 1 .. F
    BY <1>4, <2>1, DayInFile, Zenon
  <2> HIDE DEF at, y
  <2>3. Fits(K, D, DayNo(d), OnDisk(at)) /\ OnDisk(at) \in DayBuffer /\ at \in Nat
    BY <2>1, <2>2, ReadBack, DayFits
  <2>4. node \in Node(DayBuffer) /\ node.loaded /\ NodeOK(K, D, DayNo(d), node)
    BY <2>1, <2>3, LoadedNodeIs
  <2> HIDE DEF node
  <2>5. LET n == WithDay(m, d, node) IN
         /\ Holds(K, D, F, n) /\ n.days[d] = node /\ (n.open <=> m.open) /\ n.chan = m.chan
         /\ (\A k \in Days \ {d} : n.days[k] = m.days[k])
         /\ n.last = m.last /\ n.prevDay = m.prevDay
    BY <2>4, SetDay
  <2>6. GetDateNode(m, d) = WithDay(m, d, node)
    BY <1>4 DEF GetDateNode, WithDay, node, at
  <2>7. Grows(m, WithDay(m, d, node))
    BY <2>4, <2>5 DEF Grows
  <2> QED  BY <1>1, <2>4, <2>5, <2>6, <2>7, ExtendsSelf
<1>5. CASE ~m.days[d].loaded /\ ~(m.open /\ at # 0)
  <2> DEFINE node == NewNode(NewDayBuffer)
             z == WithDay(m, d, node)
  <2>1. node \in Node(DayBuffer) /\ node.loaded /\ NodeOK(K, D, DayNo(d), node)
    BY NewBuffers, NewNodeIs
  <2>2. GetDateNode(m, d) = UpdateDay(z, d)
    BY <1>5 DEF GetDateNode, WithDay
  <2> HIDE DEF node
  <2>3. /\ Holds(K, D, F, z) /\ z.days[d] = node /\ (z.open <=> m.open) /\ z.chan = m.chan
        /\ (\A k \in Days \ {d} : z.days[k] = m.days[k])
        /\ z.last = m.last /\ z.prevDay = m.prevDay
    BY <2>1, SetDay
  <2> HIDE DEF z
  <2>4. /\ \E L \in Seq(Owner) : Extends(K, L) /\ Holds(L, D, F, UpdateDay(z, d))
        /\ Keeps(z, UpdateDay(z, d))
    BY <1>1, <2>3, UpdateDayHolds
  <2>5. Grows(m, UpdateDay(z, d)) /\ UpdateDay(z, d).days[d].loaded
    BY <2>1, <2>3, <2>4 DEF Grows, Keeps
  <2> QED  BY <2>2, <2>4, <2>5
<1> QED  BY <1>3, <1>4, <1>5

LEMMA GrowsOn ==
  ASSUME NEW m, NEW n, NEW r, Grows(m, n), Grows(n, r)
  PROVE  Grows(m, r)
BY DEF Grows

LEMMA ClipFacts ==
  ASSUME NEW c \in Clips
  PROVE  /\ c.start \in Nat \ {0} /\ c.end \in Nat /\ Day(c.start) \in Days /\ Day(c.start) \in Nat
         /\ Year(c.start) = YearOfDay(Day(c.start)) /\ Year(c.start) \in Nat \ {0}
BY FileIndexAssumption, DayFacts DEF Days

LEMMA WithNodesHolds ==
  ASSUME NEW K, NEW D, NEW m, FileOK(K, D, Flushed),
         m.open => OnlyChannelNew(K, Len(Flushed.nodes)),
         Holds(K, D, Len(Flushed.nodes), m), m.chan.loaded, m.chan.buf.base # 0,
         NEW c \in Clips, Day(c.start) \in D, HasYear(m, c.start)
  PROVE  LET n == WithNodes(m, c) IN
         /\ \E L \in Seq(Owner) : Extends(K, L) /\ Holds(L, D, Len(Flushed.nodes), n)
         /\ n.days[Day(c.start)].loaded /\ Grows(m, n)
<1> DEFINE F == Len(Flushed.nodes)
           d == Day(c.start)
           i == Year(c.start) - m.chan.buf.base
           n == GetYearNode(m, i)
           r == GetDateNode(n, d)
<1>1. d \in Days /\ i \in YearIndex /\ i = YearAt(m, d)
  BY ClipFacts DEF HasYear, YearAt
<1> HIDE DEF i, d
<1>2. Holds(K, D, F, n) /\ n.years[i].loaded /\ Grows(m, n)
  BY <1>1, GetYearNodeHolds
<1>3. WithNodes(m, c) = r
  BY DEF WithNodes, r, n, i, d
<1> HIDE DEF n
<1>4. YearAt(n, d) = i /\ n.chan.loaded /\ n.chan.buf.base # 0 /\ (n.open => m.open)
  BY <1>1, <1>2 DEF Grows, YearAt
<1>5. /\ \E L \in Seq(Owner) : Extends(K, L) /\ Holds(L, D, F, r)
      /\ r.days[d].loaded /\ Grows(n, r)
  <2>1. d \in D
    BY DEF d
  <2>2. YearAt(n, d) \in YearIndex /\ n.years[YearAt(n, d)].loaded
    BY <1>1, <1>2, <1>4
  <2>3. n.open => OnlyChannelNew(K, F)
    BY <1>4
  <2> QED  BY <1>1, <1>2, <1>4, <2>1, <2>2, <2>3, GetDateNodeHolds
<1> HIDE DEF r
<1>6. Grows(m, r)
  BY <1>2, <1>5, GrowsOn
<1> QED  BY <1>3, <1>5, <1>6 DEF d

LEMMA PlaceIsEntry ==
  ASSUME NEW m \in Memory, NEW d \in Days, NEW f, f.start \in Nat, f.seek \in EntryNo
  PROVE  PlaceOf(m, d, f) \in EntryNo
<1>1. m.days[d] \in Node(DayBuffer)
  BY MemoryParts
<1>2. m.days[d].seek \in Nat /\ Slot(f.start) \in SlotIndex
  BY <1>1, DayFacts DEF Node
<1>3. Entry(m.days[d].seek, Slot(f.start)) \in EntryNo
  BY <1>2 DEF EntryNo
<1> QED  BY <1>3 DEF PlaceOf

\* A file is put into its slot.
LEMMA SetFileHolds ==
  ASSUME NEW K, NEW D, D \subseteq Days, NEW F, NEW m, Holds(K, D, F, m), NEW d \in Days, m.days[d].loaded,
         NEW f, f.start \in Nat, f.end \in Nat, f.seek \in EntryNo, NEW prev \in Nat, NEW next \in Nat
  PROVE  Holds(K, D, F, SetFile(m, d, f, prev, next)) /\ Grows(m, SetFile(m, d, f, prev, next))
<1> DEFINE n == SetFile(m, d, f, prev, next)
           y == m.days[d]
           i == Slot(f.start)
           place == PlaceOf(m, d, f)
           b == y.buf
           s == [start |-> f.start, end |-> f.end,
                 prev |-> IF prev > 0 THEN prev ELSE b.slot[i].prev,
                 next |-> IF next > 0 THEN next ELSE b.slot[i].next]
           t == [b.slot EXCEPT ![i] = s]
           p == IF place > 0 /\ (b.first = 0 \/ place < b.first) THEN place ELSE b.first
           l == IF place > 0 /\ (b.last = 0 \/ place > b.last) THEN place ELSE b.last
           c == [b EXCEPT !.slot = t, !.first = p, !.last = l]
           z == [y EXCEPT !.dirty = TRUE, !.buf = c]
<1>1. /\ m \in Memory /\ MemoryOK(K, D, m) /\ y \in Node(DayBuffer) /\ NodeOK(K, D, DayNo(d), y)
      /\ d \in D /\ m.chan.loaded /\ YearAt(m, d) \in YearIndex /\ m.years[YearAt(m, d)].loaded
  BY MemoryParts DEF Holds, MemoryOK
<1>2. b \in DayBuffer /\ place \in EntryNo /\ i \in SlotIndex /\ LeadsTo(K, y.seek, DayNo(d))
  BY <1>1, DayFits, PlaceIsEntry, DayFacts DEF NodeOK
<1>3. CASE Day(f.start) # d
  <2>1. n = m
    BY <1>3 DEF SetFile
  <2> HIDE DEF n
  <2>2. Grows(m, n)
    BY <1>1, <2>1 DEF Grows
  <2> QED  BY <2>1, <2>2 DEF n
<1>4. CASE Day(f.start) = d
  <2>1. n = WithDay(m, d, z)
    <3>1. SetSlot(b, place, f, prev, next) = c
      BY <1>2 DEF SetSlot, DayBuffer
    <3>2. n = [m EXCEPT !.days[d] = [y EXCEPT !.dirty = TRUE, !.buf = SetSlot(b, place, f, prev, next)]]
      BY <1>4 DEF SetFile
    <3> QED  BY <3>1, <3>2 DEF WithDay
  <2>2. s \in SlotEntry
    <3>1. b.slot[i] \in SlotEntry
      BY <1>2 DEF DayBuffer
    <3> QED  BY <3>1 DEF SlotEntry
  <2>3. p \in EntryNo /\ l \in EntryNo
    BY <1>2 DEF DayBuffer
  <2> HIDE DEF s, p, l, i
  <2>4. t \in [SlotIndex -> SlotEntry]
    BY <1>2, <2>2 DEF DayBuffer
  <2> HIDE DEF t, b
  <2>5. c \in DayBuffer
    BY <1>2, <2>3, <2>4 DEF DayBuffer
  <2> HIDE DEF c
  <2>6. z \in Node(DayBuffer) /\ z.loaded = y.loaded /\ z.buf = c /\ z.seek = y.seek
    BY <1>1, <2>5 DEF Node
  <2> HIDE DEF z
  <2>7. z.loaded /\ NodeOK(K, D, DayNo(d), z)
    <3>1. z.loaded
      BY <2>6
    <3> QED  BY <1>2, <2>5, <2>6, <3>1, DayFits DEF NodeOK
  <2>8. LET r == WithDay(m, d, z) IN
         /\ Holds(K, D, F, r) /\ r.days[d] = z /\ (r.open <=> m.open) /\ r.chan = m.chan
         /\ (\A k \in Days \ {d} : r.days[k] = m.days[k])
         /\ r.last = m.last /\ r.prevDay = m.prevDay
    BY <1>1, <2>6, <2>7, SetDay
  <2> HIDE DEF n
  <2>9. Grows(m, n)
    BY <1>1, <2>1, <2>7, <2>8 DEF Grows
  <2> QED  BY <2>1, <2>8, <2>9 DEF n
<1> QED  BY <1>3, <1>4

-----------------------------------------------------------------------------
(* The insertion of a file.                                                *)
LEMMA KeepsOn ==
  ASSUME NEW m, NEW n, NEW r, Keeps(m, n), Keeps(n, r)
  PROVE  Keeps(m, r)
BY DEF Keeps

LEMMA KeepsGrows ==
  ASSUME NEW m, NEW n, Keeps(m, n), m.chan.loaded
  PROVE  Grows(m, n)
BY DEF Keeps, Grows

LEMMA LoadedDay ==
  ASSUME NEW K, NEW D, NEW F, NEW m, Holds(K, D, F, m), NEW d \in Days, m.days[d].loaded
  PROVE  d \in D /\ m.chan.loaded /\ YearAt(m, d) \in YearIndex
BY DEF Holds, MemoryOK

\* The channel and the root are saved.
LEMMA SaveChannelHolds ==
  ASSUME NEW K, NEW D, NEW F \in Nat, NEW m, Holds(K, D, F, m)
  PROVE  LET n == UpdateRoot(UpdateChannel(m)) IN
         (\E L \in Seq(Owner) : Extends(K, L) /\ Holds(L, D, F, n)) /\ Keeps(m, n)
<1> DEFINE n == UpdateChannel(m)
           r == UpdateRoot(n)
<1>1. PICK L \in Seq(Owner) : Extends(K, L) /\ Holds(L, D, F, n)
  BY UpdateChannelHolds
<1>2. Keeps(m, n)
  BY UpdateChannelHolds
<1> HIDE DEF n
<1>3. Holds(L, D, F, r) /\ Keeps(n, r)
  BY <1>1, UpdateRootHolds
<1> HIDE DEF r
<1>4. Keeps(m, r)
  BY <1>2, <1>3, KeepsOn
<1> QED  BY <1>1, <1>3, <1>4 DEF r, n

LEMMA SaveTreeHolds ==
  ASSUME NEW K, NEW D, NEW F \in Nat, NEW m, Holds(K, D, F, m), NEW d \in Days, m.days[d].loaded
  PROVE  (\E L \in Seq(Owner) : Extends(K, L) /\ Holds(L, D, F, SaveTree(m, d))) /\ Keeps(m, SaveTree(m, d))
<1> DEFINE n == UpdateDay(m, d)
           r == UpdateYear(n, YearAt(m, d))
           s == UpdateRoot(UpdateChannel(r))
<1>0. K \in Seq(Owner) /\ YearAt(m, d) \in YearIndex
  BY LoadedDay DEF Holds, Owners
<1>1. PICK L \in Seq(Owner) : Extends(K, L) /\ Holds(L, D, F, n)
  BY UpdateDayHolds
<1>2. Keeps(m, n)
  BY UpdateDayHolds
<1> HIDE DEF n
<1>3. PICK M \in Seq(Owner) : Extends(L, M) /\ Holds(M, D, F, r)
  BY <1>0, <1>1, UpdateYearHolds
<1>4. Keeps(n, r)
  BY <1>0, <1>1, UpdateYearHolds
<1> HIDE DEF r
<1>5. PICK N \in Seq(Owner) : Extends(M, N) /\ Holds(N, D, F, s)
  BY <1>3, SaveChannelHolds
<1>6. Keeps(r, s)
  BY <1>3, SaveChannelHolds
<1>7. SaveTree(m, d) = s
  BY DEF SaveTree, s, r, n
<1> HIDE DEF s
<1>8. Keeps(m, s)
  BY <1>2, <1>4, <1>6, KeepsOn
<1>9. Extends(K, N)
  BY <1>0, <1>1, <1>3, <1>5, ExtendsOn
<1> QED  BY <1>5, <1>7, <1>8, <1>9

LEMMA UpdateLastDayHolds ==
  ASSUME NEW K, NEW D, NEW F \in Nat, NEW m, Holds(K, D, F, m), NEW d \in Days,
         NEW last, last.day \in Days, m.days[last.day].loaded
  PROVE  LET n == UpdateLastDay(m, last, d) IN
         (\E L \in Seq(Owner) : Extends(K, L) /\ Holds(L, D, F, n)) /\ Keeps(m, n)
<1> DEFINE n == UpdateDay(m, last.day)
           r == UpdateYear(n, YearAt(m, last.day))
<1>0. K \in Seq(Owner) /\ YearAt(m, last.day) \in YearIndex
  BY LoadedDay DEF Holds, Owners
<1>1. PICK L \in Seq(Owner) : Extends(K, L) /\ Holds(L, D, F, n)
  BY UpdateDayHolds
<1>2. Keeps(m, n)
  BY UpdateDayHolds
<1>3. CASE last.day = d
  BY <1>0, <1>3, ExtendsSelf DEF UpdateLastDay, Keeps
<1>4. CASE last.day # d /\ YearAt(m, last.day) = YearAt(m, d)
  BY <1>1, <1>2, <1>4 DEF UpdateLastDay
<1>5. CASE last.day # d /\ YearAt(m, last.day) # YearAt(m, d)
  <2>1. UpdateLastDay(m, last, d) = r
    BY <1>5 DEF UpdateLastDay
  <2> HIDE DEF n
  <2>2. PICK M \in Seq(Owner) : Extends(L, M) /\ Holds(M, D, F, r)
    BY <1>0, <1>1, UpdateYearHolds
  <2>3. Keeps(n, r)
    BY <1>0, <1>1, UpdateYearHolds
  <2> HIDE DEF r
  <2>4. Keeps(m, r) /\ Extends(K, M)
    BY <1>0, <1>1, <1>2, <2>2, <2>3, KeepsOn, ExtendsOn
  <2> QED  BY <2>1, <2>2, <2>4
<1> QED  BY <1>3, <1>4, <1>5

\* The first file: it is the last one, with its day, or with none.
LEMMA InsertFirstHolds ==
  ASSUME NEW K, NEW D, D \subseteq Days, NEW m, FileOK(K, D, Flushed),
         m.open => OnlyChannelNew(K, Len(Flushed.nodes)),
         Holds(K, D, Len(Flushed.nodes), m), m.chan.loaded, NEW c \in Clips, Day(c.start) \in D
  PROVE  LET n == InsertFirst(m, c) IN
         /\ \E L \in Seq(Owner) : Extends(K, L) /\ Holds(L, D, Len(Flushed.nodes), n)
         /\ (n.open <=> m.open) /\ n.chan.loaded /\ n.prevDay = m.prevDay
         /\ n.last.start = c.start
         /\ n.last.day = IF HasYear(SetBase(m, c.start), c.start) THEN Day(c.start) ELSE -1
         /\ n.chan.buf.base = SetBase(m, c.start).chan.buf.base
<1> DEFINE F == Len(Flushed.nodes)
           d == Day(c.start)
           b == SetBase(m, c.start)
           n == WithNodes(b, c)
           g == NewFile(c)
           f == [g EXCEPT !.day = d, !.seek = PlaceOf(n, d, g)]
           s == SetFile(n, d, f, 0, 0)
           r == WithLast(s, f, s.prevDay)
<1>0. F \in Nat /\ K \in Seq(Owner) /\ c.start \in Nat /\ c.end \in Nat /\ d \in Days
  BY ClipFacts DEF FileOK, Holds, Owners
<1>1. /\ Holds(K, D, F, b) /\ b.chan.loaded /\ b.chan.buf.base # 0
      /\ (b.open <=> m.open) /\ b.last = m.last /\ b.prevDay = m.prevDay
  BY <1>0, SetBaseHolds
<1>2. /\ g.start = c.start /\ g.end = c.end /\ g.seek = 0 /\ g.day = -1 /\ g \in File
  BY <1>0 DEF NewFile, File, EntryNo
<1>3. CASE HasYear(b, c.start)
  <2>1. InsertFirst(m, c) = SaveTree([s EXCEPT !.last = f], d)
    BY <1>3 DEF InsertFirst
  <2>2. b.open => OnlyChannelNew(K, F)
    BY <1>1
  <2> HIDE DEF b
  <2>3. PICK L \in Seq(Owner) : Extends(K, L) /\ Holds(L, D, F, n)
    BY <1>1, <1>3, <2>2, WithNodesHolds
  <2>4. n.days[d].loaded /\ Grows(b, n)
    BY <1>1, <1>3, <2>2, WithNodesHolds
  <2>5. n \in Memory
    BY <2>3 DEF Holds, MemoryOK
  <2> HIDE DEF n, g
  <2>6. f.start = c.start /\ f.end = c.end /\ f.day = d /\ f \in File
    <3>1. PlaceOf(n, d, g) \in EntryNo
      BY <1>0, <1>2, <2>5, PlaceIsEntry DEF EntryNo
    <3> QED  BY <1>0, <1>2, <3>1 DEF File
  <2> HIDE DEF f, d
  <2>7. Holds(L, D, F, s) /\ Grows(n, s)
    BY <1>0, <2>3, <2>4, <2>6, SetFileHolds DEF File
  <2> HIDE DEF s
  <2>8. [s EXCEPT !.last = f] = r /\ s.chan.loaded /\ s.days[d].loaded /\ s.prevDay \in Days \cup {-1}
    <3>1. s \in Memory
      BY <2>7 DEF Holds, MemoryOK
    <3>2. [s EXCEPT !.last = f] = r
      BY <3>1 DEF WithLast, Memory
    <3>3. s.prevDay \in Days \cup {-1}
      BY <3>1 DEF Memory
    <3>4. s.chan.loaded /\ s.days[d].loaded
      BY <1>0, <2>4, <2>7 DEF Grows
    <3> QED  BY <3>2, <3>3, <3>4
  <2>9. /\ Holds(L, D, F, r) /\ (r.open <=> s.open) /\ r.chan = s.chan /\ r.days = s.days
        /\ r.last = f /\ r.prevDay = s.prevDay
    <3>1. f.day \in D /\ s.days[f.day].loaded
      BY <2>6, <2>8 DEF d
    <3> QED  BY <2>6, <2>7, <2>8, <3>1, SetLast
  <2> HIDE DEF r
  <2>10. r.days[d].loaded
    BY <2>8, <2>9
  <2>11. PICK M \in Seq(Owner) : Extends(L, M) /\ Holds(M, D, F, SaveTree(r, d))
    BY <1>0, <2>9, <2>10, SaveTreeHolds
  <2>12. Keeps(r, SaveTree(r, d))
    BY <1>0, <2>9, <2>10, SaveTreeHolds
  <2>13. Extends(K, M) /\ InsertFirst(m, c) = SaveTree(r, d)
    BY <1>0, <2>1, <2>3, <2>8, <2>11, ExtendsOn
  <2>14. LET e == SaveTree(r, d) IN
         /\ (e.open <=> m.open) /\ e.chan.loaded /\ e.prevDay = m.prevDay
         /\ e.last = f /\ e.chan.buf.base = b.chan.buf.base
    <3>1. /\ (s.open <=> m.open) /\ s.prevDay = m.prevDay /\ s.chan.buf.base = b.chan.buf.base
      BY <1>1, <2>4, <2>7 DEF Grows
    <3>2. /\ (r.open <=> m.open) /\ r.prevDay = m.prevDay /\ r.chan.buf.base = b.chan.buf.base /\ r.chan.loaded
      BY <2>8, <2>9, <3>1
    <3> QED  BY <2>9, <2>12, <3>2 DEF Keeps
  <2> QED  BY <1>3, <2>6, <2>11, <2>13, <2>14 DEF b, d
<1>4. CASE ~HasYear(b, c.start)
  <2> DEFINE h == WithLast(b, g, b.prevDay)
             e == UpdateRoot(UpdateChannel(h))
  <2>1. b \in Memory
    BY <1>1 DEF Holds, MemoryOK
  <2> HIDE DEF b
  <2>2. [b EXCEPT !.last = g] = h /\ b.prevDay \in Days \cup {-1}
    BY <2>1 DEF WithLast, Memory
  <2>3. /\ Holds(K, D, F, h) /\ (h.open <=> b.open) /\ h.chan = b.chan
        /\ h.last = g /\ h.prevDay = b.prevDay
    BY <1>1, <1>2, <2>2, SetLast
  <2>4. InsertFirst(m, c) = e
    BY <1>4, <2>2 DEF InsertFirst, b
  <2> HIDE DEF h, g
  <2>5. PICK L \in Seq(Owner) : Extends(K, L) /\ Holds(L, D, F, e)
    BY <1>0, <2>3, SaveChannelHolds
  <2>6. Keeps(h, e)
    BY <1>0, <2>3, SaveChannelHolds
  <2> HIDE DEF e
  <2>7. /\ (e.open <=> m.open) /\ e.chan.loaded /\ e.prevDay = m.prevDay
        /\ e.last = g /\ e.chan.buf.base = b.chan.buf.base
    <3>1. h.chan.loaded /\ h.chan.buf.base = b.chan.buf.base /\ (h.open <=> m.open) /\ h.prevDay = m.prevDay
      BY <1>1, <2>3
    <3> QED  BY <2>3, <2>6, <3>1 DEF Keeps
  <2> QED  BY <1>2, <1>4, <2>4, <2>5, <2>7 DEF b
<1> QED  BY <1>3, <1>4

\* A later file: it is the last one, with its day, or that of the file before.
LEMMA InsertAfterHolds ==
  ASSUME NEW K, NEW D, D \subseteq Days, NEW m, FileOK(K, D, Flushed),
         m.open => OnlyChannelNew(K, Len(Flushed.nodes)),
         Holds(K, D, Len(Flushed.nodes), m), NEW c \in Clips, Day(c.start) \in D, m.last.day # -1
  PROVE  LET n == InsertAfter(m, c) IN
         /\ \E L \in Seq(Owner) : Extends(K, L) /\ Holds(L, D, Len(Flushed.nodes), n)
         /\ (n.open <=> m.open) /\ n.chan.loaded /\ n.prevDay = m.last.day
         /\ n.last.start = c.start
         /\ n.last.day = IF HasYear(m, c.start) THEN Day(c.start) ELSE m.last.day
         /\ n.chan.buf.base = m.chan.buf.base
<1> DEFINE F == Len(Flushed.nodes)
           has == HasYear(m, c.start)
           last == m.last
           n == IF has THEN WithNodes(m, c) ELSE m
           d == IF has THEN Day(c.start) ELSE last.day
           g == NewFile(c)
           seek == IF Day(c.start) = d THEN PlaceOf(n, d, g) ELSE 0
           f == [g EXCEPT !.day = d, !.seek = seek]
           placed == SetFile(n, d, f, last.seek, 0)
           linked == SetFile(placed, last.day, last, 0, f.seek)
           r == WithLast(linked, f, last.day)
           u == UpdateLastDay(r, last, d)
           e == SaveTree(u, d)
<1>1. /\ F \in Nat /\ K \in Seq(Owner) /\ c.start \in Nat /\ c.end \in Nat /\ Day(c.start) \in Days
      /\ m \in Memory /\ MemoryOK(K, D, m)
  BY ClipFacts DEF FileOK, Holds, Owners, MemoryOK
<1>2. /\ last \in File /\ last.day \in Days /\ last.day \in D /\ m.days[last.day].loaded
      /\ m.chan.loaded /\ m.chan.buf.base # 0
  <2>1. last \in File /\ last.day \in D /\ m.days[last.day].loaded
    BY <1>1 DEF Memory, MemoryOK
  <2>2. last.day \in Days
    BY <2>1
  <2>3. m.chan.loaded /\ YearAt(m, last.day) \in YearIndex /\ m.years[YearAt(m, last.day)].loaded
    BY <1>1, <2>1, <2>2 DEF MemoryOK
  <2> QED  BY <1>1, <2>1, <2>2, <2>3 DEF MemoryOK
<1>3. /\ g.start = c.start /\ g.end = c.end /\ g.seek = 0 /\ g.day = -1 /\ g \in File
  BY <1>1 DEF NewFile, File, EntryNo
<1>4. InsertAfter(m, c) = SaveTree(UpdateLastDay([linked EXCEPT !.last = f, !.prevDay = last.day], last, d), d)
  BY DEF InsertAfter
<1>5. d \in Days /\ d \in D
  BY <1>1, <1>2
<1>6. /\ \E L \in Seq(Owner) : Extends(K, L) /\ Holds(L, D, F, n)
      /\ n.days[d].loaded /\ Grows(m, n)
  <2>1. CASE has
    BY <1>2, <2>1, WithNodesHolds
  <2>2. CASE ~has
    <3>1. Grows(m, m)
      BY <1>2 DEF Grows
    <3> QED  BY <1>1, <1>2, <2>2, <3>1, ExtendsSelf
  <2> QED  BY <2>1, <2>2
<1>7. PICK L \in Seq(Owner) : Extends(K, L) /\ Holds(L, D, F, n)
  BY <1>6
<1>8. n \in Memory
  BY <1>7 DEF Holds, MemoryOK
<1>9. n.days[last.day].loaded
  BY <1>2, <1>6 DEF Grows
<1> HIDE DEF n, g
<1>10. seek \in EntryNo
  BY <1>1, <1>3, <1>5, <1>8, PlaceIsEntry DEF EntryNo
<1> HIDE DEF seek
<1>11. /\ f.start = c.start /\ f.end = c.end /\ f.day = d /\ f.seek = seek /\ f \in File
  BY <1>3, <1>5, <1>10 DEF File
<1>12. f.seek \in EntryNo /\ f.seek \in Nat /\ last.seek \in EntryNo /\ last.seek \in Nat
       /\ last.start \in Nat /\ last.end \in Nat
  <2>1. last.seek \in EntryNo /\ last.start \in Nat /\ last.end \in Nat
    BY <1>2 DEF File
  <2> QED  BY <1>10, <1>11, <2>1, EntryNoFacts
<1> HIDE DEF f, d, has
<1>13. Holds(L, D, F, placed) /\ Grows(n, placed)
  BY <1>1, <1>5, <1>6, <1>7, <1>11, <1>12, SetFileHolds
<1>14. placed.days[d].loaded /\ placed.days[last.day].loaded
  BY <1>2, <1>5, <1>6, <1>9, <1>13 DEF Grows
<1> HIDE DEF placed
<1>15. Holds(L, D, F, linked) /\ Grows(placed, linked)
  BY <1>2, <1>12, <1>13, <1>14, SetFileHolds
<1>16. linked.days[d].loaded /\ linked.days[last.day].loaded /\ linked.chan.loaded
  BY <1>2, <1>5, <1>14, <1>15 DEF Grows
<1>17. Grows(m, linked)
  BY <1>6, <1>13, <1>15, GrowsOn
<1> HIDE DEF linked
<1>18. [linked EXCEPT !.last = f, !.prevDay = last.day] = r
  BY DEF WithLast
<1>19. /\ Holds(L, D, F, r) /\ (r.open <=> linked.open) /\ r.chan = linked.chan /\ r.days = linked.days
       /\ r.last = f /\ r.prevDay = last.day
  <2>1. f.day \in D /\ linked.days[f.day].loaded
    BY <1>5, <1>11, <1>16
  <2> QED  BY <1>2, <1>11, <1>15, <1>16, <2>1, SetLast
<1>20. r.days[d].loaded /\ r.days[last.day].loaded
  BY <1>16, <1>19
<1> HIDE DEF r
<1>21. PICK M \in Seq(Owner) : Extends(L, M) /\ Holds(M, D, F, u)
  BY <1>1, <1>2, <1>5, <1>19, <1>20, UpdateLastDayHolds
<1>22. Keeps(r, u)
  BY <1>1, <1>2, <1>5, <1>19, <1>20, UpdateLastDayHolds
<1>23. u.days[d].loaded
  BY <1>5, <1>20, <1>22 DEF Keeps
<1> HIDE DEF u
<1>24. PICK N \in Seq(Owner) : Extends(M, N) /\ Holds(N, D, F, e)
  BY <1>1, <1>5, <1>21, <1>23, SaveTreeHolds
<1>25. Keeps(u, e)
  BY <1>1, <1>5, <1>21, <1>23, SaveTreeHolds
<1>26. InsertAfter(m, c) = e
  BY <1>4, <1>18 DEF u
<1> HIDE DEF e
<1>27. Keeps(r, e)
  BY <1>22, <1>25, KeepsOn
<1>28. Extends(K, N)
  BY <1>1, <1>7, <1>21, <1>24, ExtendsOn
<1>29. (e.open <=> m.open) /\ e.chan.loaded /\ e.prevDay = last.day /\ e.last = f
       /\ e.chan.buf.base = m.chan.buf.base
  <2>1. (r.open <=> m.open) /\ r.chan.loaded /\ r.chan.buf.base = m.chan.buf.base
    BY <1>16, <1>17, <1>19 DEF Grows
  <2> QED  BY <1>19, <1>27, <2>1 DEF Keeps
<1> QED  BY <1>11, <1>24, <1>26, <1>28, <1>29 DEF d, has

-----------------------------------------------------------------------------
(* The writes reach the file one after the other.                          *)
LEMMA PutFacts ==
  ASSUME NEW K \in Seq(Owner), NEW D, NEW d, FileOK(K, D, d), NEW w \in Write, WriteOK(K, D, w),
         Needs(K, w) \subseteq 1 .. Len(d.nodes)
  PROVE  /\ FileOK(K, D, Put(d, w))
         /\ 1 .. Len(Put(d, w).nodes) = (1 .. Len(d.nodes)) \cup ({w.at} \ {0})
<1> DEFINE F == Len(d.nodes)
           n == Put(d, w)
           N == ChannelBuffer \cup YearBuffer \cup DayBuffer
<1>1. /\ d.nodes \in Seq(N) /\ F \in Nat /\ F <= Len(K) /\ DOMAIN d.nodes = 1 .. F
      /\ DOMAIN K = 1 .. Len(K) /\ Len(K) \in Nat /\ d = [root |-> d.root, nodes |-> d.nodes]
      /\ w.at \in Nat /\ LeadsTo(K, d.root, Channel) /\ d.root \in 0 .. F
  <2> HIDE DEF N
  <2>1. d.nodes \in Seq(N)
    BY DEF FileOK, N
  <2> QED  BY <2>1 DEF FileOK, Write
<1>2. \A a \in 1 .. F : Fits(K, D, K[a], d.nodes[a]) /\ Refs(K[a], d.nodes[a]) \subseteq 1 .. F
  BY <1>1 DEF FileOK
<1>3. CASE w.at = 0
  <2>1. n.root = w.buf /\ n.nodes = d.nodes /\ n = [root |-> n.root, nodes |-> n.nodes]
    <3>1. n = [d EXCEPT !.root = w.buf]
      BY <1>3 DEF Put
    <3> HIDE DEF n
    <3> QED  BY <1>1, <3>1
  <2> HIDE DEF n
  <2>2. LeadsTo(K, w.buf, Channel) /\ w.buf \in 0 .. F
    <3>1. LeadsTo(K, w.buf, Channel) /\ {w.buf} \ {0} \subseteq 1 .. F
      BY <1>3 DEF WriteOK, Needs
    <3>2. w.buf = 0 \/ w.buf \in 1 .. F
      BY <3>1
    <3> QED  BY <1>1, <3>1, <3>2
  <2> QED  BY <1>1, <1>2, <1>3, <2>1, <2>2 DEF FileOK, n
<1>4. CASE w.at # 0
  <2>1. /\ w.at \in DOMAIN K /\ Fits(K, D, K[w.at], w.buf) /\ Refs(K[w.at], w.buf) \subseteq 1 .. F
        /\ 1 .. w.at - 1 \subseteq 1 .. F
    BY <1>4 DEF WriteOK, Needs
  <2>2. w.buf \in N
    BY <2>1 DEF Fits
  <2>3. w.at <= F + 1
    <3>1. w.at - 1 = 0 \/ w.at - 1 \in 1 .. w.at - 1
      BY <1>1, <1>4
    <3> QED  BY <1>1, <2>1, <3>1
  <2>4. CASE w.at \in 1 .. F
    <3>1. n = [d EXCEPT !.nodes[w.at] = w.buf]
      BY <1>1, <1>4, <2>4 DEF Put
    <3> DEFINE s == [d.nodes EXCEPT ![w.at] = w.buf]
    <3>2. s \in Seq(N) /\ Len(s) = F /\ DOMAIN s = 1 .. F /\ s[w.at] = w.buf
          /\ \A a \in 1 .. F : a # w.at => s[a] = d.nodes[a]
      <4> HIDE DEF N
      <4> QED  BY <1>1, <2>2, <2>4
    <3> HIDE DEF s
    <3>3. n.root = d.root /\ n.nodes = s /\ n = [root |-> n.root, nodes |-> n.nodes]
      <4>1. n = [root |-> d.root, nodes |-> s]
        BY <1>1, <3>1 DEF s
      <4> HIDE DEF n
      <4> QED  BY <4>1
    <3> HIDE DEF n
    <3>4. \A a \in 1 .. F : Fits(K, D, K[a], s[a]) /\ Refs(K[a], s[a]) \subseteq 1 .. F
      BY <1>2, <2>1, <3>2
    <3>5. 1 .. F = (1 .. F) \cup ({w.at} \ {0})
      BY <2>4
    <3> QED  BY <1>1, <3>2, <3>3, <3>4, <3>5 DEF FileOK, n
  <2>5. CASE w.at = F + 1
    <3>1. n = [d EXCEPT !.nodes = Append(d.nodes, w.buf)]
      BY <1>1, <1>4, <2>5 DEF Put
    <3> DEFINE s == Append(d.nodes, w.buf)
    <3>2. s \in Seq(N) /\ Len(s) = F + 1 /\ DOMAIN s = 1 .. F + 1 /\ s[w.at] = w.buf
          /\ \A a \in 1 .. F : s[a] = d.nodes[a]
      <4> HIDE DEF N
      <4> QED  BY <1>1, <2>2, <2>5
    <3> HIDE DEF s
    <3>3. n.root = d.root /\ n.nodes = s /\ n = [root |-> n.root, nodes |-> n.nodes]
      <4>1. n = [root |-> d.root, nodes |-> s]
        BY <1>1, <3>1 DEF s
      <4> HIDE DEF n
      <4> QED  BY <4>1
    <3> HIDE DEF n
    <3>4. \A a \in 1 .. F + 1 : Fits(K, D, K[a], s[a]) /\ Refs(K[a], s[a]) \subseteq 1 .. F + 1
      <4>0. 1 .. F \subseteq 1 .. F + 1
        BY <1>1
      <4> SUFFICES ASSUME NEW a \in 1 .. F + 1
                   PROVE  Fits(K, D, K[a], s[a]) /\ Refs(K[a], s[a]) \subseteq 1 .. F
        BY <4>0
      <4>1. CASE a = F + 1
        BY <2>1, <2>5, <3>2, <4>1
      <4>2. CASE a # F + 1
        <5>1. a \in 1 .. F
          BY <1>1, <4>2
        <5> QED  BY <1>2, <3>2, <5>1
      <4> QED  BY <4>1, <4>2
    <3>5. 1 .. F + 1 = (1 .. F) \cup ({w.at} \ {0})
      BY <1>1, <2>5
    <3>6. F + 1 <= Len(K) /\ d.root \in 0 .. F + 1
      BY <1>1, <2>1, <2>5
    <3> QED  BY <1>1, <3>2, <3>3, <3>4, <3>5, <3>6 DEF FileOK, n
  <2> QED  BY <1>1, <1>4, <2>3, <2>4, <2>5
<1> QED  BY <1>3, <1>4

\* The other writes, after the first one.
LEMMA QueueTail ==
  ASSUME NEW K \in Seq(Owner), NEW D, NEW F \in Nat, NEW Q \in Seq(Write), Q # <<>>, QueueOK(K, D, F, Q),
         NEW G \in Nat, 1 .. G = (1 .. F) \cup ({Head(Q).at} \ {0})
  PROVE  QueueOK(K, D, G, Tail(Q)) /\ Tail(Q) \in Seq(Write)
<1> DEFINE R == Tail(Q)
<1>1. /\ R \in Seq(Write) /\ Len(R) \in Nat /\ Len(Q) = Len(R) + 1 /\ DOMAIN R = 1 .. Len(R)
      /\ DOMAIN Q = 1 .. Len(R) + 1
      /\ (\A k \in 1 .. Len(R) : R[k] = Q[k + 1]) /\ Head(Q) = Q[1]
  OBVIOUS
<1> HIDE DEF R
<1>2. ASSUME NEW n \in 1 .. Len(R) + 1, NEW x, x \in ThereAt(F, Q, n + 1), x # 0
      PROVE  x \in ThereAt(G, R, n)
  <2>1. CASE x \in 1 .. F
    BY <2>1 DEF ThereAt
  <2>2. CASE \E k \in 1 .. (n + 1) - 1 : x = Q[k].at
    <3>1. PICK k \in 1 .. (n + 1) - 1 : x = Q[k].at
      BY <2>2
    <3>2. CASE k = 1
      BY <1>1, <1>2, <3>1, <3>2 DEF ThereAt
    <3>3. CASE k # 1
      <4>1. k - 1 \in 1 .. n - 1 /\ k - 1 \in 1 .. Len(R) /\ (k - 1) + 1 = k
        BY <1>1, <3>1, <3>3
      <4>2. x = R[k - 1].at
        BY <1>1, <3>1, <4>1
      <4> QED  BY <4>1, <4>2 DEF ThereAt
    <3> QED  BY <3>2, <3>3
  <2> QED  BY <1>2, <2>1, <2>2 DEF ThereAt
<1>3. ASSUME NEW w, WriteOK(K, D, w) PROVE 0 \notin Needs(K, w)
  <2>1. CASE w.at = 0
    BY <2>1 DEF Needs
  <2>2. CASE w.at # 0
    <3>1. 0 \notin 1 .. w.at - 1
      OBVIOUS
    <3>2. 0 \notin Refs(K[w.at], w.buf)
      BY DEF Refs
    <3> QED  BY <2>2, <3>1, <3>2 DEF Needs
  <2> QED  BY <2>1, <2>2
<1>4. ASSUME NEW n \in DOMAIN R PROVE WriteOK(K, D, R[n]) /\ Needs(K, R[n]) \subseteq ThereAt(G, R, n)
  <2>1. n + 1 \in DOMAIN Q /\ R[n] = Q[n + 1] /\ n \in 1 .. Len(R) + 1
    BY <1>1
  <2>2. WriteOK(K, D, R[n]) /\ Needs(K, R[n]) \subseteq ThereAt(F, Q, n + 1)
    BY <2>1 DEF QueueOK
  <2> QED  BY <1>2, <1>3, <2>1, <2>2
<1>5. DOMAIN K \subseteq ThereAt(G, R, Len(R) + 1)
  <2>1. DOMAIN K \subseteq ThereAt(F, Q, (Len(R) + 1) + 1) /\ Len(R) + 1 \in 1 .. Len(R) + 1
    BY <1>1 DEF QueueOK
  <2>2. 0 \notin DOMAIN K
    OBVIOUS
  <2> QED  BY <1>2, <2>1, <2>2
<1> QED  BY <1>1, <1>4, <1>5 DEF QueueOK, R

-----------------------------------------------------------------------------
(* A new process reads the file: the places that were given out are those  *)
(* of the nodes in the file.                                               *)
FirstOf(K, n) == [a \in 1 .. n |-> K[a]]

LEMMA ShorterFits ==
  ASSUME NEW K \in Seq(Owner), NEW D, NEW n \in Nat, n <= Len(K), NEW o, NEW b, Fits(K, D, o, b),
         Refs(o, b) \subseteq 1 .. n
  PROVE  Fits(FirstOf(K, n), D, o, b)
<1> DEFINE L == FirstOf(K, n)
<1>1. ASSUME NEW a, NEW q, LeadsTo(K, a, q), a = 0 \/ a \in 1 .. n PROVE LeadsTo(L, a, q)
  BY <1>1 DEF LeadsTo, Is, FirstOf
<1> HIDE DEF L
<1>2. CASE /\ o = Channel /\ b \in ChannelBuffer
           /\ b.base = 0 \/ b.base \in {YearOfDay(d) : d \in D}
           /\ \A i \in YearIndex : IF b.base = 0 THEN b.table[i] = 0
                                   ELSE LeadsTo(K, b.table[i], YearNo(b.base + i))
  <2>1. \A i \in YearIndex : b.table[i] = 0 \/ b.table[i] \in 1 .. n
    BY <1>2 DEF Refs, Channel
  <2> QED  BY <1>1, <1>2, <2>1 DEF Fits, L
<1>3. CASE /\ o[1] = "year" /\ b \in YearBuffer
           /\ \A j \in DayIndex : LeadsTo(K, b.table[j], DayNo((o[2] - 1) * YearDays + j))
  <2>1. \A j \in DayIndex : b.table[j] = 0 \/ b.table[j] \in 1 .. n
    BY <1>3 DEF Refs
  <2> QED  BY <1>1, <1>3, <2>1 DEF Fits, L
<1>4. CASE o[1] = "day" /\ b \in DayBuffer
  BY <1>4 DEF Fits
<1> QED  BY <1>2, <1>3, <1>4 DEF Fits

LEMMA NewMemoryIs ==
  ASSUME NEW K, NEW D, Owners(K, D), NEW d, FileOK(K, D, d)
  PROVE  \E L : /\ FileOK(L, D, d) /\ Holds(L, D, Len(d.nodes), NewMemory(d))
                 /\ L = FirstOf(K, Len(d.nodes))
<1> DEFINE F == Len(d.nodes)
           L == FirstOf(K, F)
           m == NewMemory(d)
<1>1. F \in Nat /\ F <= Len(K) /\ K \in Seq(Owner) /\ Len(K) \in Nat /\ DOMAIN K = 1 .. Len(K)
      /\ DOMAIN d.nodes = 1 .. F
  <2> DEFINE N == ChannelBuffer \cup YearBuffer \cup DayBuffer
  <2> HIDE DEF N
  <2>1. d.nodes \in Seq(N)
    BY DEF FileOK, N
  <2> QED  BY <2>1 DEF Owners, FileOK
<1>2. L \in Seq(Owner) /\ Len(L) = F /\ DOMAIN L = 1 .. F /\ \A a \in 1 .. F : L[a] = K[a]
  <2>1. \A a \in 1 .. F : K[a] \in Owner
    BY <1>1
  <2> QED  BY <1>1, <2>1 DEF FirstOf
<1>3. Owners(L, D)
  BY <1>1, <1>2 DEF Owners
<1>4. FileOK(L, D, d)
  <2>1. LeadsTo(L, d.root, Channel)
    BY <1>1, <1>2 DEF FileOK, LeadsTo, Is
  <2>2. \A a \in 1 .. F : Fits(L, D, L[a], d.nodes[a]) /\ Refs(L[a], d.nodes[a]) \subseteq 1 .. F
    BY <1>1, <1>2, ShorterFits DEF FileOK
  <2> HIDE DEF L
  <2> QED  BY <1>1, <1>2, <2>1, <2>2 DEF FileOK
<1> HIDE DEF L
<1>5. /\ m.open = TRUE /\ m.root = d.root /\ m.chan = NoNode
      /\ (\A i \in YearIndex : m.years[i] = NoNode) /\ (\A x \in Days : m.days[x] = NoNode)
      /\ m.last = NoFile /\ m.prevDay = -1 /\ m.eof = F /\ m.writes = <<>>
  BY DEF NewMemory
<1>6. m \in Memory
  <2>1. NoNode \in Node(ChannelBuffer) /\ NoNode \in Node(YearBuffer) /\ NoNode \in Node(DayBuffer)
    BY DEF NoNode, Node
  <2>2. NoFile \in File
    BY DEF NoFile, File, EntryNo
  <2>3. d.root \in Nat
    BY <1>1 DEF FileOK
  <2>4. <<>> \in Seq(Write)
    OBVIOUS
  <2> QED  BY <1>1, <2>1, <2>2, <2>3, <2>4 DEF NewMemory, Memory
<1>7. ~NoNode.loaded /\ ~NoNode.dirty /\ NoFile.day = -1
  BY DEF NoNode, NoFile
<1> HIDE DEF m
<1>8. MemoryOK(L, D, m)
  <2>1. LeadsTo(L, m.root, Channel)
    BY <1>4, <1>5 DEF FileOK
  <2> QED  BY <1>2, <1>5, <1>6, <1>7, <2>1 DEF MemoryOK, NodeOK
<1>9. QueueOK(L, D, F, m.writes)
  BY <1>1, <1>2, <1>5 DEF QueueOK, ThereAt
<1>10. Holds(L, D, F, m)
  BY <1>3, <1>5, <1>8, <1>9 DEF Holds
<1> QED  BY <1>4, <1>10 DEF m, L

LEMMA NewMemoryHolds ==
  ASSUME NEW K, NEW D, Owners(K, D), NEW d, FileOK(K, D, d)
  PROVE  \E L : FileOK(L, D, d) /\ Holds(L, D, Len(d.nodes), NewMemory(d))
BY NewMemoryIs

-----------------------------------------------------------------------------
(* The invariant.                                                          *)
AddedDays == {Day(c.start) : c \in AddedFiles}

IndexInv ==
  /\ added \in Seq(Clips)
  /\ pending = <<>> \/ pending = <<pending[1]>>
  /\ \E K : /\ FileOK(K, AddedDays, disk) /\ FileOK(K, AddedDays, Flushed)
            /\ Holds(K, AddedDays, Len(Flushed.nodes), mem)

LEMMA AddedFacts ==
  ASSUME added \in Seq(Clips)
  PROVE  AddedFiles \subseteq Clips /\ AddedDays \subseteq Days
BY DEF AddedFiles, AddedDays, Days

LEMMA InitIndex == Init => IndexInv
<1> SUFFICES ASSUME Init PROVE IndexInv
  OBVIOUS
<1> DEFINE D == AddedDays
<1>1. disk = [root |-> 0, nodes |-> <<>>] /\ pending = <<>> /\ mem = NewMemory(disk) /\ added = <<>>
      /\ Flushed = disk
  BY DEF Init, Flushed
<1>2. Owners(<<>>, D)
  BY DEF Owners
<1>3. FileOK(<<>>, D, disk)
  <2>1. disk.root = 0 /\ disk.nodes = <<>> /\ disk = [root |-> disk.root, nodes |-> disk.nodes]
    BY <1>1
  <2> QED  BY <2>1 DEF FileOK, LeadsTo
<1>4. \E K : FileOK(K, D, disk) /\ Holds(K, D, Len(disk.nodes), NewMemory(disk))
  BY <1>2, <1>3, NewMemoryHolds
<1> QED  BY <1>1, <1>4 DEF IndexInv

\* The writes of a memory whose handler is done lead only to what is in the file.
LEMMA NothingToWrite ==
  ASSUME NEW K, NEW D, NEW F \in Nat, NEW m, Holds(K, D, F, m), m.writes = <<>>
  PROVE  m.open => DOMAIN K \subseteq 1 .. F
BY DEF Holds, QueueOK, ThereAt

\* What InsertIndex does to the memory m, whose channel is there.
Inserted(m, c) == IF m.last = NoFile THEN InsertFirst(m, c)
                  ELSE IF m.last.day = -1 THEN m
                  ELSE InsertAfter(m, c)

\* The file comes to the index as it should.
LEMMA InsertedHolds ==
  ASSUME NEW K, NEW D, D \subseteq Days, NEW m, FileOK(K, D, Flushed), m.writes = <<>>,
         Holds(K, D, Len(Flushed.nodes), m), NEW c \in Clips, Day(c.start) \in D
  PROVE  \E L \in Seq(Owner) : Extends(K, L) /\ Holds(L, D, Len(Flushed.nodes), Inserted(GetChannelNode(m), c))
<1> DEFINE F == Len(Flushed.nodes)
           n == GetChannelNode(m)
<1>1. F \in Nat /\ K \in Seq(Owner)
  <2> DEFINE N == ChannelBuffer \cup YearBuffer \cup DayBuffer
  <2> HIDE DEF N
  <2>1. Flushed.nodes \in Seq(N)
    BY DEF FileOK, N
  <2> QED  BY <2>1 DEF Holds, Owners
<1>2. m.open => DOMAIN K \subseteq 1 .. F
  BY <1>1, NothingToWrite
<1>3. PICK L \in Seq(Owner) : Extends(K, L) /\ Holds(L, D, F, n)
                              /\ (\A a \in DOMAIN L : a \in DOMAIN K \/ L[a] = Channel)
  BY <1>2, GetChannelNodeHolds
<1>4. n.chan.loaded /\ (n.open <=> m.open)
  BY <1>2, GetChannelNodeHolds
<1> HIDE DEF n
<1>5. n.open => OnlyChannelNew(L, F)
  BY <1>2, <1>3, <1>4 DEF OnlyChannelNew
<1>6. FileOK(L, D, Flushed)
  BY <1>1, <1>3, FileOn
<1>7. CASE n.last = NoFile
  <2>1. PICK M \in Seq(Owner) : Extends(L, M) /\ Holds(M, D, F, InsertFirst(n, c))
    BY <1>3, <1>4, <1>5, <1>6, InsertFirstHolds
  <2>2. Extends(K, M)
    BY <1>1, <1>3, <2>1, ExtendsOn
  <2> QED  BY <1>7, <2>1, <2>2 DEF Inserted, n
<1>8. CASE n.last # NoFile /\ n.last.day = -1
  BY <1>3, <1>8 DEF Inserted, n
<1>9. CASE n.last # NoFile /\ n.last.day # -1
  <2>1. PICK M \in Seq(Owner) : Extends(L, M) /\ Holds(M, D, F, InsertAfter(n, c))
    BY <1>3, <1>5, <1>6, <1>9, InsertAfterHolds
  <2>2. Extends(K, M)
    BY <1>1, <1>3, <2>1, ExtendsOn
  <2> QED  BY <1>9, <2>1, <2>2 DEF Inserted, n
<1> QED  BY <1>7, <1>8, <1>9

LEMMA AddedMore ==
  ASSUME added \in Seq(Clips), NEW c \in Clips, added' = Append(added, c)
  PROVE  /\ added' \in Seq(Clips) /\ AddedFiles' = AddedFiles \cup {c}
         /\ AddedDays' = AddedDays \cup {Day(c.start)}
<1>1. /\ added' \in Seq(Clips) /\ Len(added) \in Nat /\ DOMAIN added = 1 .. Len(added)
      /\ DOMAIN added' = (1 .. Len(added)) \cup {Len(added) + 1}
      /\ added'[Len(added) + 1] = c /\ \A n \in 1 .. Len(added) : added'[n] = added[n]
  OBVIOUS
<1>2. AddedFiles' = AddedFiles \cup {c}
  BY <1>1 DEF AddedFiles
<1> QED  BY <1>1, <1>2 DEF AddedDays

LEMMA InsertIndexKeeps ==
  ASSUME IndexInv, NEW c \in Clips, InsertIndex(c)
  PROVE  IndexInv'
<1> DEFINE D == AddedDays
           E == AddedDays \cup {Day(c.start)}
<1>1. /\ mem' = Inserted(GetChannelNode(mem), c) /\ mem.writes = <<>>
      /\ disk' = disk /\ pending' = pending /\ added' = Append(added, c)
  BY DEF InsertIndex, Inserted
<1>2. added' \in Seq(Clips) /\ AddedDays' = E /\ Flushed' = Flushed
  BY <1>1, AddedMore DEF IndexInv, Flushed
<1>3. E \subseteq Days /\ D \subseteq E /\ Day(c.start) \in E
  BY AddedFacts, ClipFacts DEF IndexInv
<1>4. PICK K : FileOK(K, D, disk) /\ FileOK(K, D, Flushed) /\ Holds(K, D, Len(Flushed.nodes), mem)
  BY DEF IndexInv
<1>5. K \in Seq(Owner) /\ Extends(K, K)
  BY <1>4, ExtendsSelf DEF Holds, Owners
<1> HIDE DEF D, E
<1>6. FileOK(K, E, disk) /\ FileOK(K, E, Flushed) /\ Holds(K, E, Len(Flushed.nodes), mem)
  BY <1>3, <1>4, <1>5, FileOn, MoreDays
<1>7. PICK L \in Seq(Owner) : Extends(K, L) /\ Holds(L, E, Len(Flushed.nodes), Inserted(GetChannelNode(mem), c))
  BY <1>1, <1>3, <1>6, InsertedHolds
<1>8. FileOK(L, E, disk) /\ FileOK(L, E, Flushed)
  BY <1>5, <1>6, <1>7, FileOn
<1>9. /\ FileOK(L, AddedDays', disk') /\ FileOK(L, AddedDays', Flushed')
      /\ Holds(L, AddedDays', Len(Flushed'.nodes), mem')
  BY <1>1, <1>2, <1>7, <1>8
<1>10. pending' = <<>> \/ pending' = <<pending'[1]>>
  BY <1>1 DEF IndexInv
<1> QED  BY <1>2, <1>9, <1>10 DEF IndexInv

\* The memory with fewer writes to come.
LEMMA SetWrites ==
  ASSUME NEW K, NEW D, NEW m, MemoryOK(K, D, m), NEW q \in Seq(Write)
  PROVE  LET n == [m EXCEPT !.writes = q] IN
         MemoryOK(K, D, n) /\ n.open = m.open /\ n.writes = q
<1> DEFINE n == [m EXCEPT !.writes = q]
<1>1. /\ n \in Memory /\ n.open = m.open /\ n.root = m.root /\ n.chan = m.chan /\ n.years = m.years
      /\ n.days = m.days /\ n.last = m.last /\ n.prevDay = m.prevDay /\ n.eof = m.eof /\ n.writes = q
  BY DEF MemoryOK, Memory
<1> HIDE DEF n
<1>2. \A d \in Days : YearAt(n, d) = YearAt(m, d)
  BY <1>1 DEF YearAt
<1> QED  BY <1>1, <1>2 DEF MemoryOK, n

LEMMA WriteNodeKeeps ==
  ASSUME IndexInv, WriteNode
  PROVE  IndexInv'
<1> DEFINE D == AddedDays
           w == Head(mem.writes)
           q == Tail(mem.writes)
           F == Len(Flushed.nodes)
           G == Len(Put(Flushed, w).nodes)
<1>1. PICK K : FileOK(K, D, disk) /\ FileOK(K, D, Flushed) /\ Holds(K, D, F, mem)
  BY DEF IndexInv
<1>2. mem.writes # <<>> /\ mem' = [mem EXCEPT !.writes = q] /\ added' = added /\ AddedDays' = D
  BY DEF WriteNode, AddedDays, AddedFiles
<1>3. K \in Seq(Owner) /\ MemoryOK(K, D, mem) /\ mem.writes \in Seq(Write) /\ QueueOK(K, D, F, mem.writes)
      /\ mem.open /\ Owners(K, D)
  BY <1>1, <1>2, MemoryParts DEF Holds, Owners, MemoryOK
<1>4. F \in Nat /\ w \in Write /\ mem.writes[1] = w /\ 1 \in DOMAIN mem.writes
  <2> DEFINE N == ChannelBuffer \cup YearBuffer \cup DayBuffer
  <2> HIDE DEF N
  <2>1. Flushed.nodes \in Seq(N)
    BY <1>1 DEF FileOK, N
  <2> QED  BY <1>2, <1>3, <2>1
<1>5. WriteOK(K, D, w) /\ Needs(K, w) \subseteq 1 .. F
  BY <1>3, <1>4 DEF QueueOK, ThereAt
<1>6. FileOK(K, D, Put(Flushed, w)) /\ 1 .. G = (1 .. F) \cup ({w.at} \ {0})
  BY <1>1, <1>3, <1>4, <1>5, PutFacts
<1>7. G \in Nat
  <2> DEFINE N == ChannelBuffer \cup YearBuffer \cup DayBuffer
  <2> HIDE DEF N
  <2>1. Put(Flushed, w).nodes \in Seq(N)
    BY <1>6 DEF FileOK, N
  <2> QED  BY <2>1
<1>8. QueueOK(K, D, G, q) /\ q \in Seq(Write)
  BY <1>2, <1>3, <1>4, <1>6, <1>7, QueueTail
<1>9. Flushed' = Put(Flushed, w)
  <2>1. CASE IsLarge(w)
    BY <2>1 DEF WriteNode, Flushed
  <2>2. CASE ~IsLarge(w)
    <3>1. disk' = Flushed /\ pending' = <<w>>
      BY <2>2 DEF WriteNode
    <3>2. pending' # <<>> /\ pending'[1] = w
      BY <3>1
    <3> QED  BY <3>1, <3>2 DEF Flushed
  <2> QED  BY <2>1, <2>2
<1>10. FileOK(K, D, disk') /\ (pending' = <<>> \/ pending' = <<pending'[1]>>)
  <2>1. CASE IsLarge(w)
    BY <1>6, <2>1 DEF WriteNode
  <2>2. CASE ~IsLarge(w)
    <3>1. disk' = Flushed /\ pending' = <<w>>
      BY <2>2 DEF WriteNode
    <3> QED  BY <1>1, <3>1
  <2> QED  BY <2>1, <2>2
<1> HIDE DEF q, w
<1>11. Holds(K, D, G, mem')
  BY <1>2, <1>3, <1>8, SetWrites DEF Holds
<1>12. added' \in Seq(Clips)
  BY <1>2 DEF IndexInv
<1>13. /\ FileOK(K, AddedDays', disk') /\ FileOK(K, AddedDays', Flushed')
       /\ Holds(K, AddedDays', Len(Flushed'.nodes), mem')
  BY <1>2, <1>6, <1>9, <1>10, <1>11
<1> QED  BY <1>10, <1>12, <1>13 DEF IndexInv

\* The memory when the stream is closed.
LEMMA CloseFile ==
  ASSUME NEW K, NEW D, NEW m, MemoryOK(K, D, m)
  PROVE  LET n == [m EXCEPT !.writes = <<>>, !.open = FALSE] IN
         MemoryOK(K, D, n) /\ ~n.open /\ n.writes = <<>>
<1> DEFINE n == [m EXCEPT !.writes = <<>>, !.open = FALSE]
<1>1. m \in Memory
  BY DEF MemoryOK
<1>2. <<>> \in Seq(Write)
  OBVIOUS
<1>3. n \in Memory
  BY <1>1, <1>2 DEF Memory
<1>4. /\ n.root = m.root /\ n.chan = m.chan /\ n.years = m.years
      /\ n.days = m.days /\ n.last = m.last /\ n.prevDay = m.prevDay /\ n.eof = m.eof /\ n.writes = <<>>
  BY <1>1 DEF Memory
<1>5. ~n.open
  BY <1>1 DEF Memory
<1> HIDE DEF n
<1>6. \A d \in Days : YearAt(n, d) = YearAt(m, d)
  BY <1>4 DEF YearAt
<1> QED  BY <1>3, <1>4, <1>5, <1>6 DEF MemoryOK, n

LEMMA WriteFailsKeeps ==
  ASSUME IndexInv, WriteFails
  PROVE  IndexInv'
<1> DEFINE D == AddedDays
           closed == [mem EXCEPT !.writes = <<>>, !.open = FALSE]
<1>1. PICK K : FileOK(K, D, disk) /\ FileOK(K, D, Flushed) /\ Holds(K, D, Len(Flushed.nodes), mem)
  BY DEF IndexInv
<1>2. /\ disk' \in {disk, Flushed} /\ pending' = <<>> /\ mem' = closed /\ Flushed' = disk'
      /\ added' = added /\ AddedDays' = D
  BY DEF WriteFails, AddedDays, AddedFiles, Flushed
<1>3. MemoryOK(K, D, closed) /\ ~closed.open /\ closed.writes = <<>>
  <2>1. MemoryOK(K, D, mem)
    BY <1>1 DEF Holds
  <2> QED  BY <2>1, CloseFile
<1>4. Holds(K, D, Len(disk'.nodes), closed)
  BY <1>1, <1>3 DEF Holds
<1> HIDE DEF closed
<1>5. FileOK(K, D, disk')
  BY <1>1, <1>2
<1>6. added' \in Seq(Clips)
  BY <1>2 DEF IndexInv
<1> QED  BY <1>2, <1>4, <1>5, <1>6 DEF IndexInv

LEMMA CrashKeeps ==
  ASSUME IndexInv, Crash
  PROVE  IndexInv'
<1> DEFINE D == AddedDays
<1>1. PICK K : FileOK(K, D, disk) /\ FileOK(K, D, Flushed) /\ Holds(K, D, Len(Flushed.nodes), mem)
  BY DEF IndexInv
<1>2. /\ disk' = disk /\ pending' = <<>> /\ mem' = NewMemory(disk) /\ Flushed' = disk
      /\ added' = added /\ AddedDays' = D
  BY DEF Crash, AddedDays, AddedFiles, Flushed
<1>3. \E L : FileOK(L, D, disk) /\ Holds(L, D, Len(disk.nodes), NewMemory(disk))
  BY <1>1, NewMemoryHolds DEF Holds
<1>4. added' \in Seq(Clips)
  BY <1>2 DEF IndexInv
<1> QED  BY <1>2, <1>3, <1>4 DEF IndexInv

LEMMA ExitKeeps ==
  ASSUME IndexInv, Exit
  PROVE  IndexInv'
<1> DEFINE D == AddedDays
<1>1. PICK K : FileOK(K, D, disk) /\ FileOK(K, D, Flushed) /\ Holds(K, D, Len(Flushed.nodes), mem)
  BY DEF IndexInv
<1>2. /\ disk' = Flushed /\ pending' = <<>> /\ mem' = NewMemory(Flushed) /\ Flushed' = disk'
      /\ added' = added /\ AddedDays' = D
  BY DEF Exit, AddedDays, AddedFiles, Flushed
<1>3. \E L : FileOK(L, D, Flushed) /\ Holds(L, D, Len(Flushed.nodes), NewMemory(Flushed))
  BY <1>1, NewMemoryHolds DEF Holds
<1>4. added' \in Seq(Clips)
  BY <1>2 DEF IndexInv
<1> QED  BY <1>2, <1>3, <1>4 DEF IndexInv

LEMMA IdleKeeps ==
  ASSUME IndexInv, Restart \/ UNCHANGED vars
  PROVE  IndexInv'
<1>1. disk' = disk /\ pending' = pending /\ mem' = mem /\ added' = added
  BY DEF Restart, vars
<1>2. Flushed' = Flushed /\ AddedDays' = AddedDays
  BY <1>1 DEF Flushed, AddedDays, AddedFiles
<1> QED  BY <1>1, <1>2 DEF IndexInv

LEMMA NextIndex == IndexInv /\ [Next]_vars => IndexInv'
<1> SUFFICES ASSUME IndexInv, [Next]_vars PROVE IndexInv'
  OBVIOUS
<1>1. CASE \E c \in Clips : InsertIndex(c)
  BY <1>1, InsertIndexKeeps
<1>2. CASE WriteNode
  BY <1>2, WriteNodeKeeps
<1>3. CASE WriteFails
  BY <1>3, WriteFailsKeeps
<1>4. CASE Crash
  BY <1>4, CrashKeeps
<1>5. CASE Exit
  BY <1>5, ExitKeeps
<1>6. CASE Restart \/ UNCHANGED vars
  BY <1>6, IdleKeeps
<1> QED  BY <1>1, <1>2, <1>3, <1>4, <1>5, <1>6 DEF Next

LEMMA TreeNodes ==
  ASSUME NEW K, NEW D, NEW d, FileOK(K, D, d)
  PROVE  /\ d.root # 0 => IsNode(d, d.root, "channel")
         /\ \A a \in YearsOf(d) : IsNode(d, a, "year")
         /\ \A a \in DaysOf(d) : IsNode(d, a, "day")
         /\ DOMAIN d.nodes = 1 .. Len(d.nodes)
<1> DEFINE F == Len(d.nodes)
<1>1. FileOK(K, D, d)
  OBVIOUS
<1>2. DOMAIN d.nodes = 1 .. F
  <2> DEFINE N == ChannelBuffer \cup YearBuffer \cup DayBuffer
  <2> HIDE DEF N
  <2>1. d.nodes \in Seq(N)
    BY <1>1 DEF FileOK, N
  <2> QED  BY <2>1
<1>3. \A a \in 1 .. F : Fits(K, D, K[a], d.nodes[a]) /\ Refs(K[a], d.nodes[a]) \subseteq 1 .. F
  BY <1>1, <1>2 DEF FileOK
<1>4. d.root # 0 => d.root \in 1 .. F /\ K[d.root] = Channel
  BY <1>1 DEF FileOK, LeadsTo, Is
<1>5. d.root # 0 => IsNode(d, d.root, "channel")
  <2>1. \A b : Fits(K, D, Channel, b) => b.kind = "channel"
    BY ChannelFits DEF ChannelBuffer
  <2> QED  BY <1>2, <1>3, <1>4, <2>1 DEF IsNode
<1>6. ASSUME NEW a \in YearsOf(d)
      PROVE  a \in 1 .. F /\ K[a][1] = "year"
  <2>1. d.root # 0
    BY <1>6 DEF YearsOf
  <2> DEFINE b == d.nodes[d.root]
  <2>2. Fits(K, D, Channel, b) /\ Refs(Channel, b) \subseteq 1 .. F
    BY <1>3, <1>4, <2>1
  <2>3. PICK i \in YearIndex : a = b.table[i] /\ a # 0
    BY <1>6, <2>1 DEF YearsOf
  <2> HIDE DEF b
  <2>4. LeadsTo(K, a, YearNo(b.base + i))
    BY <2>2, <2>3, ChannelFits
  <2>5. a \in Refs(Channel, b)
    BY <2>3 DEF Refs, Channel
  <2> QED  BY <2>2, <2>3, <2>4, <2>5 DEF LeadsTo, Is, YearNo
<1>7. \A o, b : o[1] = "year" /\ Fits(K, D, o, b) =>
        b.kind = "year" /\ \A j \in DayIndex : LeadsTo(K, b.table[j], DayNo((o[2] - 1) * YearDays + j))
  BY DEF Fits, Channel, YearBuffer
<1>8. \A a \in YearsOf(d) : IsNode(d, a, "year")
  BY <1>2, <1>3, <1>6, <1>7 DEF IsNode
<1>9. ASSUME NEW a \in DaysOf(d)
      PROVE  IsNode(d, a, "day")
  <2>1. PICK y \in YearsOf(d) : a \in {d.nodes[y].table[i] : i \in DayIndex} \ {0}
    BY <1>9 DEF DaysOf
  <2>2. PICK j \in DayIndex : a = d.nodes[y].table[j] /\ a # 0
    BY <2>1
  <2>3. y \in 1 .. F /\ K[y][1] = "year"
    BY <1>6
  <2>4. LeadsTo(K, a, DayNo((K[y][2] - 1) * YearDays + j))
    BY <1>3, <1>7, <2>2, <2>3
  <2>5. a \in Refs(K[y], d.nodes[y])
    BY <2>2, <2>3 DEF Refs
  <2>6. a \in 1 .. F /\ K[a][1] = "day"
    BY <1>3, <2>2, <2>3, <2>4, <2>5 DEF LeadsTo, Is, DayNo
  <2>7. \A o, b : o[1] = "day" /\ Fits(K, D, o, b) => b.kind = "day"
    BY DEF Fits, Channel, DayBuffer
  <2> QED  BY <1>2, <1>3, <2>6, <2>7 DEF IsNode
<1> QED  BY <1>2, <1>5, <1>8, <1>9

LEMMA TreeLeadsToNodes == IndexInv => TablesLeadToNodes
BY TreeNodes DEF IndexInv, TablesLeadToNodes

(* At whatever moment the recorder stops, with a crash or a write that     *)
(* fails, the tables in the file lead to nodes in the file, of the right   *)
(* kind: a node comes to the file before the table that leads to it.       *)
THEOREM IndexCanBeRead == Spec => []TablesLeadToNodes
<1>1. Spec => []IndexInv
  BY InitIndex, NextIndex, PTL DEF Spec
<1> QED  BY <1>1, TreeLeadsToNodes, PTL

-----------------------------------------------------------------------------
(* The deleted nodes.  Files come in the order of time, so the recorder    *)
(* has deleted only days before the day of the file before the last one.   *)
NewYear == \E i, j \in DOMAIN added : i < j /\ Year(added[i].start) < Year(added[j].start)

HeapInv ==
  /\ \A i, j \in DOMAIN added : i < j => added[i].start <= added[j].start
  /\ heap.days \subseteq Days
  /\ mem.prevDay = -1 => heap.days = {}
  /\ mem.prevDay # -1 =>
       /\ mem.prevDay \in AddedDays /\ mem.last.day # -1 /\ mem.prevDay <= mem.last.day
       /\ \A h \in heap.days : h < mem.prevDay
  /\ mem.last # NoFile => mem.last.seek # 0 \/ mem.last.start # 0
  /\ mem.last # NoFile /\ mem.last.day = -1 => NewYear
  /\ HeapFailsOnlyAfterNewYear

LEMMA DayGrows ==
  ASSUME NEW s \in Nat, NEW t \in Nat, s <= t
  PROVE  Day(s) <= Day(t) /\ Year(s) <= Year(t)
<1>1. Day(s) \in Nat /\ Day(t) \in Nat /\ Day(s) <= Day(t)
  BY PositiveSizes, QuotientGrows, DayFacts DEF Day
<1> QED  BY <1>1, YearsGrow, DayFacts

\* Days with files, of different years: a file of a later year came after one of an earlier.
LEMMA YearsDiffer ==
  ASSUME added \in Seq(Clips), \A i, j \in DOMAIN added : i < j => added[i].start <= added[j].start,
         NEW d \in AddedDays, NEW e \in AddedDays, YearOfDay(d) < YearOfDay(e)
  PROVE  NewYear
<1>1. PICK i \in DOMAIN added : d = Day(added[i].start)
  BY DEF AddedDays, AddedFiles
<1>2. PICK j \in DOMAIN added : e = Day(added[j].start)
  BY DEF AddedDays, AddedFiles
<1>3. i \in Nat /\ j \in Nat /\ added[i] \in Clips /\ added[j] \in Clips
  OBVIOUS
<1>4. Year(added[i].start) < Year(added[j].start) /\ added[i].start \in Nat /\ added[j].start \in Nat
  BY <1>1, <1>2, <1>3, ClipFacts
<1>5. i < j
  <2> SUFFICES ASSUME ~(i < j) PROVE FALSE
    OBVIOUS
  <2>1. added[j].start <= added[i].start
    BY <1>3, <1>4
  <2>2. Year(added[j].start) <= Year(added[i].start) /\ Year(added[i].start) \in Nat /\ Year(added[j].start) \in Nat
    BY <1>4, <2>1, DayGrows, DayFacts
  <2> QED  BY <1>4, <2>2
<1> QED  BY <1>4, <1>5 DEF NewYear

\* A file comes after those that were added.
LEMMA ComesAfter ==
  ASSUME added \in Seq(Clips), NEW c \in Clips, InsertIndex(c), NEW d \in AddedDays
  PROVE  d \in Nat /\ d <= Day(c.start) /\ YearOfDay(d) <= Year(c.start)
<1>1. PICK i \in DOMAIN added : d = Day(added[i].start)
  BY DEF AddedDays, AddedFiles
<1>2. added[i] \in Clips /\ added[i] \in AddedFiles
  BY DEF AddedFiles
<1>3. added[i].start \in Nat /\ added[i].end \in Nat /\ added[i].start < added[i].end /\ c.start \in Nat
  BY <1>2, FileIndexAssumption
<1>4. added[i].end <= c.start
  BY <1>2 DEF InsertIndex
<1>5. added[i].start <= c.start
  BY <1>3, <1>4
<1> QED  BY <1>1, <1>3, <1>5, DayGrows, DayFacts

LEMMA SortedMore ==
  ASSUME added \in Seq(Clips), \A i, j \in DOMAIN added : i < j => added[i].start <= added[j].start,
         NEW c \in Clips, InsertIndex(c)
  PROVE  /\ \A i, j \in DOMAIN added' : i < j => added'[i].start <= added'[j].start
         /\ NewYear => NewYear' /\ HeapFailsOnlyAfterNewYear'
<1>1. /\ added' = Append(added, c) /\ Len(added) \in Nat /\ DOMAIN added = 1 .. Len(added)
      /\ Len(added') = Len(added) + 1 /\ DOMAIN added' = 1 .. Len(added) + 1
      /\ added'[Len(added) + 1] = c /\ \A n \in 1 .. Len(added) : added'[n] = added[n]
  BY DEF InsertIndex
<1>2. ASSUME NEW i \in DOMAIN added', NEW j \in DOMAIN added', i < j
      PROVE  added'[i].start <= added'[j].start
  <2>1. CASE j \in DOMAIN added
    BY <1>1, <1>2, <2>1
  <2>2. CASE j \notin DOMAIN added
    <3>1. j = Len(added) + 1 /\ i \in DOMAIN added /\ added'[j] = c /\ added'[i] = added[i]
      BY <1>1, <1>2, <2>2
    <3>2. added[i] \in Clips /\ added[i] \in AddedFiles
      BY <3>1 DEF AddedFiles
    <3>3. added[i].end <= c.start
      BY <3>2 DEF InsertIndex
    <3>4. added[i].start \in Nat /\ added[i].end \in Nat /\ added[i].start < added[i].end /\ c.start \in Nat
      BY <3>2, FileIndexAssumption
    <3> QED  BY <3>1, <3>3, <3>4
  <2> QED  BY <2>1, <2>2
<1>3. ASSUME NewYear
      PROVE  NewYear' /\ HeapFailsOnlyAfterNewYear'
  <2>1. PICK i, j \in DOMAIN added : i < j /\ Year(added[i].start) < Year(added[j].start)
    BY <1>3 DEF NewYear
  <2>2. /\ i \in DOMAIN added' /\ j \in DOMAIN added' /\ j < Len(added')
        /\ added'[i] = added[i] /\ added'[j] = added[j]
    BY <1>1
  <2>3. Year(added'[i].start) < Year(added'[j].start)
    BY <2>1, <2>2
  <2>4. NewYear'
    BY <2>1, <2>2, <2>3 DEF NewYear
  <2>5. HeapFailsOnlyAfterNewYear'
    BY <2>1, <2>2, <2>3 DEF HeapFailsOnlyAfterNewYear
  <2> QED  BY <2>4, <2>5
<1> QED  BY <1>2, <1>3

\* The memory that InsertIndex works on, and what it makes of it.
LEMMA InsertIndexMemory ==
  ASSUME IndexInv, NEW c \in Clips, InsertIndex(c)
  PROVE  LET n == GetChannelNode(mem)
             r == Inserted(n, c)
             b == n.chan.buf.base
         IN /\ mem' = r /\ heap' = HeapAfter(n, c)
            /\ n.chan.loaded /\ n.prevDay = mem.prevDay
            /\ (mem.chan.loaded /\ n.last = mem.last) \/ n.last = NoFile \/ (n.last.seek # 0 /\ n.last.day # -1)
            /\ IF mem.chan.loaded THEN n.last = mem.last ELSE mem.last = NoFile
            /\ SetBase(n, c.start).chan.buf.base = IF b = 0 THEN Year(c.start) ELSE b
            /\ n.last.day # -1 => n.last.day \in AddedDays
            /\ b \in Nat /\ (b = 0 \/ b \in {YearOfDay(d) : d \in AddedDays})
            /\ n.last = NoFile =>
                 /\ r.last.start = c.start /\ r.prevDay = n.prevDay
                 /\ r.last.day = IF HasYear(SetBase(n, c.start), c.start) THEN Day(c.start) ELSE -1
            /\ n.last # NoFile /\ n.last.day = -1 => r = n
            /\ n.last # NoFile /\ n.last.day # -1 =>
                 /\ r.last.start = c.start /\ r.prevDay = n.last.day
                 /\ r.last.day = IF HasYear(n, c.start) THEN Day(c.start) ELSE n.last.day
<1> DEFINE n == GetChannelNode(mem)
           D == AddedDays
           E == D \cup {Day(c.start)}
           F == Len(Flushed.nodes)
<1>1. PICK K : FileOK(K, D, Flushed) /\ Holds(K, D, F, mem)
  BY DEF IndexInv
<1>2. F \in Nat /\ K \in Seq(Owner) /\ D \subseteq Days /\ E \subseteq Days /\ D \subseteq E /\ Day(c.start) \in E
  <2> DEFINE N == ChannelBuffer \cup YearBuffer \cup DayBuffer
  <2> HIDE DEF N
  <2>1. Flushed.nodes \in Seq(N)
    BY <1>1 DEF FileOK, N
  <2> QED  BY <1>1, <2>1, AddedFacts, ClipFacts DEF Holds, Owners, IndexInv
<1>3. mem.open => DOMAIN K \subseteq 1 .. F
  BY <1>1, <1>2, NothingToWrite DEF InsertIndex
<1> HIDE DEF D, E
<1>4. PICK L \in Seq(Owner) : Extends(K, L) /\ Holds(L, D, F, n)
                              /\ (\A a \in DOMAIN L : a \in DOMAIN K \/ L[a] = Channel)
  BY <1>1, <1>2, <1>3, GetChannelNodeHolds
<1>5. /\ n.chan.loaded /\ (n.open <=> mem.open) /\ n.prevDay = mem.prevDay
      /\ (mem.chan.loaded /\ n.last = mem.last) \/ n.last = NoFile \/ (n.last.seek # 0 /\ n.last.day # -1)
  BY <1>1, <1>2, <1>3, GetChannelNodeHolds
<1> HIDE DEF n
<1>6. n.open => OnlyChannelNew(L, F)
  BY <1>3, <1>4, <1>5 DEF OnlyChannelNew
<1>7. FileOK(L, E, Flushed) /\ Holds(L, E, F, n)
  BY <1>1, <1>2, <1>4, FileOn, MoreDays
<1>8. n.last.day # -1 => n.last.day \in D
  BY <1>4 DEF Holds, MemoryOK
<1>9. n.chan.buf.base \in Nat /\ (n.chan.buf.base = 0 \/ n.chan.buf.base \in {YearOfDay(d) : d \in D})
  <2>1. Fits(L, D, Channel, n.chan.buf)
    BY <1>4, <1>5 DEF Holds, MemoryOK, NodeOK
  <2> QED  BY <2>1, ChannelFits DEF ChannelBuffer
<1>10. IF mem.chan.loaded THEN n.last = mem.last ELSE mem.last = NoFile
  <2>1. ~mem.chan.loaded => mem.last = NoFile
    BY <1>1 DEF Holds, MemoryOK
  <2> QED  BY <2>1 DEF n, GetChannelNode
<1>15. SetBase(n, c.start).chan.buf.base = IF n.chan.buf.base = 0 THEN Year(c.start) ELSE n.chan.buf.base
  <2>1. c.start \in Nat /\ Day(c.start) \in E
    BY <1>2, ClipFacts
  <2> QED  BY <1>5, <1>7, <2>1, SetBaseHolds
<1>11. /\ InsertFirst(n, c).last.start = c.start /\ InsertFirst(n, c).prevDay = n.prevDay
       /\ InsertFirst(n, c).last.day = IF HasYear(SetBase(n, c.start), c.start) THEN Day(c.start) ELSE -1
  BY <1>2, <1>5, <1>6, <1>7, InsertFirstHolds
<1>12. n.last.day # -1 =>
         /\ InsertAfter(n, c).last.start = c.start /\ InsertAfter(n, c).prevDay = n.last.day
         /\ InsertAfter(n, c).last.day = IF HasYear(n, c.start) THEN Day(c.start) ELSE n.last.day
  BY <1>2, <1>6, <1>7, InsertAfterHolds
<1>13. mem' = Inserted(n, c) /\ heap' = HeapAfter(n, c)
  BY DEF InsertIndex, Inserted, n
<1>14. /\ n.last = NoFile => Inserted(n, c) = InsertFirst(n, c)
       /\ n.last # NoFile /\ n.last.day = -1 => Inserted(n, c) = n
       /\ n.last # NoFile /\ n.last.day # -1 => Inserted(n, c) = InsertAfter(n, c)
  BY DEF Inserted
<1> QED  BY <1>5, <1>8, <1>9, <1>10, <1>11, <1>12, <1>13, <1>14, <1>15 DEF n, D

\* No file is added beyond the table of years without a file of an earlier year.
LEMMA BeyondTable ==
  ASSUME added \in Seq(Clips), NEW c \in Clips, InsertIndex(c), NEW b \in Nat,
         b = 0 \/ b \in {YearOfDay(d) : d \in AddedDays},
         Year(c.start) - (IF b = 0 THEN Year(c.start) ELSE b) \notin YearIndex
  PROVE  NewYear'
<1>1. Year(c.start) \in Nat /\ 0 \in YearIndex
  BY ClipFacts, PositiveSizes DEF YearIndex
<1>2. b # 0
  BY <1>1
<1>3. PICK d \in AddedDays : b = YearOfDay(d)
  BY <1>2
<1>4. b < Year(c.start)
  <2>1. b <= Year(c.start)
    BY <1>3, ComesAfter
  <2>2. b # Year(c.start)
    BY <1>1, <1>2
  <2> QED  BY <1>1, <2>1, <2>2
<1>5. PICK i \in DOMAIN added : d = Day(added[i].start)
  BY <1>3 DEF AddedDays, AddedFiles
<1>6. added[i] \in Clips /\ Year(added[i].start) = b
  BY <1>3, <1>5, ClipFacts
<1>7. /\ i \in DOMAIN added' /\ Len(added) + 1 \in DOMAIN added' /\ i < Len(added) + 1
      /\ added'[i] = added[i] /\ added'[Len(added) + 1] = c
  BY DEF InsertIndex
<1>8. Year(added'[i].start) < Year(added'[Len(added) + 1].start)
  BY <1>4, <1>6, <1>7
<1> QED  BY <1>7, <1>8 DEF NewYear

LEMMA InsertIndexHeap ==
  ASSUME IndexInv, HeapInv, NEW c \in Clips, InsertIndex(c)
  PROVE  HeapInv'
<1> DEFINE n == GetChannelNode(mem)
           r == Inserted(n, c)
           b == n.chan.buf.base
<1>1. added \in Seq(Clips) /\ ~heap.corrupt
  BY DEF IndexInv, InsertIndex
<1>2. /\ mem' = r /\ heap' = HeapAfter(n, c) /\ n.prevDay = mem.prevDay
      /\ (mem.chan.loaded /\ n.last = mem.last) \/ n.last = NoFile \/ (n.last.seek # 0 /\ n.last.day # -1)
      /\ IF mem.chan.loaded THEN n.last = mem.last ELSE mem.last = NoFile
      /\ SetBase(n, c.start).chan.buf.base = IF b = 0 THEN Year(c.start) ELSE b
      /\ n.last.day # -1 => n.last.day \in AddedDays
      /\ b \in Nat /\ (b = 0 \/ b \in {YearOfDay(d) : d \in AddedDays})
  BY InsertIndexMemory
<1>3. /\ n.last = NoFile =>
           /\ r.last.start = c.start /\ r.prevDay = n.prevDay
           /\ r.last.day = IF HasYear(SetBase(n, c.start), c.start) THEN Day(c.start) ELSE -1
      /\ n.last # NoFile /\ n.last.day = -1 => r = n
      /\ n.last # NoFile /\ n.last.day # -1 =>
           /\ r.last.start = c.start /\ r.prevDay = n.last.day
           /\ r.last.day = IF HasYear(n, c.start) THEN Day(c.start) ELSE n.last.day
  BY InsertIndexMemory
<1>4. c.start # 0 /\ Day(c.start) \in Nat /\ Day(c.start) # -1 /\ NoFile.day = -1 /\ NoFile.seek = 0 /\ NoFile.start = 0
  BY ClipFacts DEF NoFile
<1>5. /\ \A i, j \in DOMAIN added' : i < j => added'[i].start <= added'[j].start
      /\ NewYear => NewYear' /\ HeapFailsOnlyAfterNewYear'
  BY <1>1, SortedMore DEF HeapInv
<1>6. AddedDays' = AddedDays \cup {Day(c.start)} /\ AddedDays \subseteq Days /\ Days \subseteq Nat
  BY <1>1, AddedMore, AddedFacts, DaysAreNumbers DEF InsertIndex
<1> HIDE DEF n, r
<1>7. mem.last = NoFile => mem.prevDay = -1
  BY <1>4 DEF HeapInv
<1>8. CASE n.last = NoFile
  <2>1. mem.prevDay = -1 /\ heap' = heap /\ heap.days = {} /\ mem'.prevDay = -1
    BY <1>2, <1>3, <1>4, <1>7, <1>8 DEF HeapAfter, HeapInv
  <2>2. mem'.last.start # 0
    BY <1>2, <1>3, <1>4, <1>8
  <2>3. mem'.last.day = -1 => NewYear'
    <3> SUFFICES ASSUME mem'.last.day = -1 PROVE NewYear'
      OBVIOUS
    <3>1. ~HasYear(SetBase(n, c.start), c.start)
      BY <1>2, <1>3, <1>4, <1>8
    <3>2. Year(c.start) - (IF b = 0 THEN Year(c.start) ELSE b) \notin YearIndex
      BY <1>2, <3>1 DEF HasYear
    <3> QED  BY <1>1, <1>2, <3>2, BeyondTable
  <2>4. HeapFailsOnlyAfterNewYear'
    BY <1>1, <2>1 DEF HeapFailsOnlyAfterNewYear
  <2> QED  BY <1>5, <2>1, <2>2, <2>3, <2>4 DEF HeapInv
<1>9. CASE n.last # NoFile /\ n.last.day = -1
  <2>1. n.last = mem.last /\ mem'.last = mem.last /\ mem'.prevDay = mem.prevDay /\ mem.prevDay = -1
    BY <1>2, <1>3, <1>7, <1>9 DEF HeapInv
  <2>2. NewYear
    BY <1>9, <2>1 DEF HeapInv
  <2>3. heap'.days = {}
    BY <1>2, <1>9, <2>1 DEF HeapInv, HeapAfter, DeletesDay
  <2>4. mem'.last # NoFile => mem'.last.seek # 0 \/ mem'.last.start # 0
    BY <2>1 DEF HeapInv
  <2> QED  BY <1>5, <2>1, <2>2, <2>3, <2>4 DEF HeapInv
<1>10. CASE n.last # NoFile /\ n.last.day # -1
  <2> DEFINE d == n.last.day
             p == mem.prevDay
  <2>1. n.last.seek # 0 \/ n.last.start # 0
    BY <1>2, <1>10 DEF HeapInv
  <2>2. d \in AddedDays /\ d \in Nat /\ d <= Day(c.start)
    BY <1>1, <1>2, <1>10, ComesAfter
  <2>3. p # -1 => /\ p \in AddedDays /\ p \in Nat /\ p <= d /\ \A h \in heap.days : h \in Nat /\ h < p
    <3> SUFFICES ASSUME p # -1
                 PROVE  p \in AddedDays /\ p \in Nat /\ p <= d /\ \A h \in heap.days : h \in Nat /\ h < p
      OBVIOUS
    <3>1. n.last = mem.last
      BY <1>2, <1>7
    <3> QED  BY <1>6, <3>1 DEF HeapInv
  <2>4. \A h \in heap.days : p # -1 /\ h \in Nat /\ h < p
    BY <2>3 DEF HeapInv
  <2>5. /\ heap'.days = (IF DeletesDay(n) THEN heap.days \cup {p} ELSE heap.days)
        /\ heap'.corrupt = (\/ -1 \in Used(n, c) \/ Used(n, c) \cap heap.days # {}
                            \/ DeletesDay(n) /\ YearChanges(n))
    BY <1>2, <2>1 DEF HeapAfter
  <2>6. mem'.last.start = c.start /\ mem'.prevDay = d /\ mem'.last.day \in {Day(c.start), d}
    BY <1>2, <1>3, <1>10
  <2>7. DeletesDay(n) => p # -1 /\ p # d
    BY <1>2 DEF DeletesDay
  <2>8. \A h \in heap'.days : h < d /\ h \in Days
    <3>1. \A h \in heap.days : h < d /\ h \in Days
      BY <2>2, <2>3, <2>4 DEF HeapInv
    <3>2. DeletesDay(n) => p < d /\ p \in Days
      BY <1>6, <2>2, <2>3, <2>7
    <3> QED  BY <2>5, <3>1, <3>2
  <2>9. \A x \in Used(n, c) : x \in Nat /\ (p # -1 => p <= x)
    <3> SUFFICES ASSUME NEW x \in Used(n, c) PROVE x \in Nat /\ (p # -1 => p <= x)
      OBVIOUS
    <3>1. x = d \/ x = Day(c.start) \/ (DeletesDay(n) /\ x = p)
      BY <1>2 DEF Used
    <3>2. CASE x = d
      BY <2>2, <2>3, <3>2
    <3>3. CASE x = Day(c.start)
      BY <1>4, <2>2, <2>3, <3>3
    <3>4. CASE DeletesDay(n) /\ x = p
      BY <2>3, <2>7, <3>4
    <3> QED  BY <3>1, <3>2, <3>3, <3>4
  <2>10. -1 \notin Used(n, c) /\ Used(n, c) \cap heap.days = {}
    <3>1. -1 \notin Used(n, c)
      BY <2>9
    <3>2. \A x \in Used(n, c) : x \notin heap.days
      <4> SUFFICES ASSUME NEW x \in Used(n, c), x \in heap.days PROVE FALSE
        OBVIOUS
      <4>1. p # -1 /\ x \in Nat /\ x < p /\ p <= x /\ p \in Nat
        BY <2>3, <2>4, <2>9
      <4> QED  BY <4>1
    <3> QED  BY <3>1, <3>2
  <2>11. heap'.corrupt => NewYear
    <3> SUFFICES ASSUME heap'.corrupt PROVE NewYear
      OBVIOUS
    <3>1. DeletesDay(n) /\ YearChanges(n)
      BY <2>5, <2>10
    <3>2. p \in AddedDays /\ p \in Nat /\ p <= d
      BY <2>3, <2>7, <3>1
    <3>3. YearOfDay(p) \in Nat /\ YearOfDay(d) \in Nat /\ YearOfDay(p) <= YearOfDay(d)
      BY <2>2, <3>2, YearsGrow, DayInYear
    <3>4. YearOfDay(p) # YearOfDay(d)
      BY <1>2, <3>1, <3>3 DEF YearChanges, YearAt
    <3>5. YearOfDay(p) < YearOfDay(d)
      BY <3>3, <3>4
    <3>6. \A i, j \in DOMAIN added : i < j => added[i].start <= added[j].start
      BY DEF HeapInv
    <3> QED  BY <1>1, <2>2, <3>2, <3>5, <3>6, YearsDiffer
  <2>12. HeapFailsOnlyAfterNewYear'
    <3>1. CASE heap'.corrupt
      BY <1>5, <2>11, <3>1
    <3>2. CASE ~heap'.corrupt
      BY <3>2 DEF HeapFailsOnlyAfterNewYear
    <3> QED  BY <3>1, <3>2
  <2>13. mem'.last.day # -1 /\ d <= mem'.last.day /\ d # -1
    BY <1>4, <2>2, <2>6
  <2>14. d \in AddedDays'
    BY <1>6, <2>2
  <2>15. mem'.last.start # 0
    BY <1>4, <2>6
  <2> HIDE DEF d, p
  <2> QED  BY <1>5, <2>6, <2>8, <2>12, <2>13, <2>14, <2>15 DEF HeapInv
<1> QED  BY <1>8, <1>9, <1>10

LEMMA InitHeap == Init => HeapInv
<1> SUFFICES ASSUME Init PROVE HeapInv
  OBVIOUS
<1>1. added = <<>> /\ mem = NewMemory(disk) /\ heap = CleanHeap
  BY DEF Init
<1>2. mem.prevDay = -1 /\ mem.last = NoFile /\ heap.days = {} /\ ~heap.corrupt
  BY <1>1 DEF NewMemory, CleanHeap
<1> QED  BY <1>1, <1>2 DEF HeapInv, HeapFailsOnlyAfterNewYear

LEMMA NextHeap == IndexInv /\ HeapInv /\ [Next]_vars => HeapInv'
<1> SUFFICES ASSUME IndexInv, HeapInv, [Next]_vars PROVE HeapInv'
  OBVIOUS
<1>1. CASE \E c \in Clips : InsertIndex(c)
  BY <1>1, InsertIndexHeap
<1>2. ASSUME added' = added
      PROVE  AddedDays' = AddedDays /\ (NewYear => NewYear')
  BY <1>2 DEF AddedDays, AddedFiles, NewYear
<1>3. CASE WriteNode \/ WriteFails \/ Restart \/ UNCHANGED vars
  <2>1. added' = added /\ heap' = heap
    BY <1>3 DEF WriteNode, WriteFails, Restart, vars
  <2>2. mem'.last = mem.last /\ mem'.prevDay = mem.prevDay
    <3>1. mem \in Memory
      BY DEF IndexInv, Holds, MemoryOK
    <3> QED  BY <1>3, <3>1 DEF WriteNode, WriteFails, Restart, vars, Memory
  <2> QED  BY <1>2, <2>1, <2>2 DEF HeapInv, HeapFailsOnlyAfterNewYear
<1>4. CASE Crash \/ Exit
  <2>1. added' = added /\ heap' = CleanHeap
    BY <1>4 DEF Crash, Exit
  <2>2. mem'.last = NoFile /\ mem'.prevDay = -1
    <3>1. mem' = NewMemory(disk) \/ mem' = NewMemory(Flushed)
      BY <1>4 DEF Crash, Exit
    <3> QED  BY <3>1 DEF NewMemory
  <2>3. heap'.days = {} /\ ~heap'.corrupt
    BY <2>1 DEF CleanHeap
  <2> QED  BY <1>2, <2>1, <2>2, <2>3 DEF HeapInv, HeapFailsOnlyAfterNewYear
<1> QED  BY <1>1, <1>3, <1>4 DEF Next

(* The recorder follows a pointer to a deleted node only when files of two *)
(* years were added and a file after them: as long as the recorder's time  *)
(* stays in one year, and until the second file of the next, no insertion  *)
(* uses a day or a year that it has deleted.                               *)
THEOREM HeapIsSoundWithinYear == Spec => []HeapFailsOnlyAfterNewYear
<1>1. Spec => [](IndexInv /\ HeapInv)
  BY InitIndex, NextIndex, InitHeap, NextHeap, PTL DEF Spec
<1>2. HeapInv => HeapFailsOnlyAfterNewYear
  BY DEF HeapInv
<1> QED  BY <1>1, <1>2, PTL

-----------------------------------------------------------------------------
(* The types.                                                              *)
CountsInv ==
  /\ up \in BOOLEAN /\ heap.corrupt \in BOOLEAN
  /\ faults = [crashes |-> faults.crashes, failures |-> faults.failures, skipped |-> faults.skipped]
  /\ faults.crashes \in 0 .. MaxCrashes /\ faults.failures \in 0 .. MaxFailures

LEMMA InitCounts == Init => CountsInv
BY FileIndexAssumption DEF Init, CountsInv, CleanHeap

LEMMA NextCounts == CountsInv /\ [Next]_vars => CountsInv'
<1> SUFFICES ASSUME CountsInv, [Next]_vars PROVE CountsInv'
  OBVIOUS
<1>1. CASE \E c \in Clips : InsertIndex(c)
  <2>1. PICK c \in Clips : InsertIndex(c)
    BY <1>1
  <2>2. up' \in BOOLEAN
    BY <2>1 DEF InsertIndex, CountsInv
  <2>3. heap'.corrupt \in BOOLEAN
    BY <2>1 DEF InsertIndex, CountsInv, HeapAfter
  <2>4. faults' = faults \/ \E s : faults' = [faults EXCEPT !.skipped = s]
    BY <2>1 DEF InsertIndex
  <2> QED  BY <2>2, <2>3, <2>4 DEF CountsInv
<1>2. CASE WriteNode
  BY <1>2 DEF WriteNode, CountsInv
<1>3. CASE WriteFails
  <2>1. up' = up /\ heap' = heap
    BY <1>3 DEF WriteFails
  <2>2. faults.failures < MaxFailures /\ faults.failures + 1 \in 0 .. MaxFailures
    BY <1>3, FileIndexAssumption DEF WriteFails, CountsInv
  <2>3. PICK s : faults' = [faults EXCEPT !.failures = faults.failures + 1, !.skipped = s]
    BY <1>3 DEF WriteFails
  <2>4. faults' = [crashes |-> faults.crashes, failures |-> faults.failures + 1, skipped |-> s]
    BY <2>3 DEF CountsInv
  <2> QED  BY <2>1, <2>2, <2>4 DEF CountsInv
<1>4. CASE Crash
  <2>1. up' = FALSE /\ heap'.corrupt = FALSE
    BY <1>4 DEF Crash, CleanHeap
  <2>2. faults.crashes < MaxCrashes /\ faults.crashes + 1 \in 0 .. MaxCrashes
    BY <1>4, FileIndexAssumption DEF Crash, CountsInv
  <2>3. PICK s : faults' = [faults EXCEPT !.crashes = faults.crashes + 1, !.skipped = s]
    BY <1>4 DEF Crash
  <2>4. faults' = [crashes |-> faults.crashes + 1, failures |-> faults.failures, skipped |-> s]
    BY <2>3 DEF CountsInv
  <2> QED  BY <2>1, <2>2, <2>4 DEF CountsInv
<1>5. CASE Exit
  BY <1>5 DEF Exit, CountsInv, CleanHeap
<1>6. CASE Restart \/ UNCHANGED vars
  BY <1>6 DEF Restart, CountsInv, vars
<1> QED  BY <1>1, <1>2, <1>3, <1>4, <1>5, <1>6 DEF Next

(* The file on the disk consists of channel, year and day nodes, its root  *)
(* is one of them or none; at most one write is in the stream's buffer.    *)
THEOREM IndexTypes == Spec => []TypeOK
<1>1. Spec => [](IndexInv /\ HeapInv /\ CountsInv)
  BY InitIndex, NextIndex, InitHeap, NextHeap, InitCounts, NextCounts, PTL DEF Spec
<1>2. IndexInv /\ HeapInv /\ CountsInv => TypeOK
  <2> SUFFICES ASSUME IndexInv, HeapInv, CountsInv PROVE TypeOK
    OBVIOUS
  <2>1. PICK K : FileOK(K, AddedDays, disk) /\ MemoryOK(K, AddedDays, mem)
    BY DEF IndexInv, Holds
  <2>2. disk.root \in 0 .. Len(disk.nodes)
    BY <2>1 DEF FileOK
  <2>3. \A a \in DOMAIN disk.nodes : disk.nodes[a].kind \in {"channel", "year", "day"}
    <3> SUFFICES ASSUME NEW b \in ChannelBuffer \cup YearBuffer \cup DayBuffer
                 PROVE  b.kind \in {"channel", "year", "day"}
      BY <2>1 DEF FileOK
    <3> QED  BY DEF ChannelBuffer, YearBuffer, DayBuffer
  <2>4. Len(pending) <= 1
    <3>1. pending = <<>> \/ \E w : pending = <<w>>
      BY DEF IndexInv
    <3>2. Len(<<>>) <= 1 /\ \A w : Len(<<w>>) <= 1
      OBVIOUS
    <3> QED  BY <3>1, <3>2
  <2>5. mem.last.day \in Days \cup {-1}
    BY <2>1 DEF MemoryOK, Memory, File
  <2>6. heap.days \subseteq Days /\ AddedFiles \subseteq Clips
    BY AddedFacts DEF HeapInv, IndexInv
  <2> QED  BY <2>2, <2>3, <2>4, <2>5, <2>6 DEF TypeOK, CountsInv
<1> QED  BY <1>1, <1>2, PTL

-----------------------------------------------------------------------------
(* The links.  X is the set of the files that have an entry: the place of  *)
(* the entry, and what it holds of the file before.  Entry i of the day at *)
(* the place a is empty or that of such a file, and leads to a file whose  *)
(* entry leads back.  A file before is of the same day or of an earlier    *)
(* one, a file after of the same day or of a later one.                    *)
AtPlace(K, x, a) == Is(K, a, DayNo(Day(x.start))) /\ x.at = Entry(a, Slot(x.start))
NextOK(K, X, at, e) == e = 0 \/ \E y \in X : y.prev = at /\ y.at = e /\ AtPlace(K, y, NodeOf(e))

SlotOK(K, X, a, i, s) ==
  \/ s = EmptySlot
  \/ \E x \in X : /\ s.start = x.start /\ s.end = x.end /\ s.prev = x.prev /\ s.start # 0
                  /\ Slot(x.start) = i /\ AtPlace(K, x, a) /\ NextOK(K, X, x.at, s.next)

DayBefore(K, p, q) == \E g, h \in Int : g < h /\ Is(K, p, DayNo(g)) /\ Is(K, q, DayNo(h))
PrevInOrder(K, a, e) == e = 0 \/ NodeOf(e) = a \/ DayBefore(K, NodeOf(e), a)
NextInOrder(K, a, e) == e = 0 \/ NodeOf(e) = a \/ DayBefore(K, a, NodeOf(e))
InOrder(K, a, s) ==
  /\ s.start # 0 => s.start < s.end
  /\ PrevInOrder(K, a, s.prev) /\ NextInOrder(K, a, s.next)

EntriesOK(K, X, a, b) ==
  /\ \A i \in SlotIndex : SlotOK(K, X, a, i, b.slot[i])
  /\ \A i \in SlotIndex : InOrder(K, a, b.slot[i])
  /\ b.last # 0 => NodeOf(b.last) = a /\ b.slot[SlotOf(b.last)].start # 0

\* The places of the days that the files of a day lead to.
LinksTo(b) == {NodeOf(b.slot[i].next) : i \in {j \in SlotIndex : b.slot[j].next # 0}} \cup
              {NodeOf(b.slot[i].prev) : i \in {j \in SlotIndex : b.slot[j].prev # 0}}

DayLinks(K, X, a, b, There) == EntriesOK(K, X, a, b) /\ LinksTo(b) \subseteq There

FileLinks(K, X, d) ==
  \A a \in DOMAIN d.nodes :
    d.nodes[a].kind = "day" => DayLinks(K, X, a, d.nodes[a], 1 .. Len(d.nodes))

QueueLinks(K, X, F, Q) ==
  \A n \in DOMAIN Q : IsLarge(Q[n]) => DayLinks(K, X, Q[n].at, Q[n].buf, ThereAt(F, Q, n))

\* A day in memory; the last file is in its day, or in none.
LoadedOK(K, X, z) == z.loaded => z.seek > 0 /\ EntriesOK(K, X, z.seek, z.buf)
LastIn(days, f) ==
  f.day # -1 =>
    IF Day(f.start) = f.day
    THEN LET z == days[f.day]
             s == z.buf.slot[Slot(f.start)]
         IN /\ f.seek = Entry(z.seek, Slot(f.start))
            /\ s.start = f.start /\ s.start # 0 /\ s.end = f.end
    ELSE f.seek = 0
LastOK(m) == LastIn(m.days, m.last)

MemoryLinks(K, X, m) == (\A d \in Days : LoadedOK(K, X, m.days[d])) /\ LastOK(m)

Links(K, X, F, m) == m.open => MemoryLinks(K, X, m) /\ QueueLinks(K, X, F, m.writes)

LEMMA AtPlaceOn ==
  ASSUME NEW K \in Seq(Owner), NEW L \in Seq(Owner), Extends(K, L), NEW x, NEW a, AtPlace(K, x, a)
  PROVE  AtPlace(L, x, a)
BY DEF AtPlace, Is, Extends

LEMMA SlotOn ==
  ASSUME NEW K \in Seq(Owner), NEW L \in Seq(Owner), Extends(K, L), NEW X, NEW Y, X \subseteq Y,
         NEW a, NEW i, NEW s, SlotOK(K, X, a, i, s)
  PROVE  SlotOK(L, Y, a, i, s)
<1>1. CASE s = EmptySlot
  BY <1>1 DEF SlotOK
<1>2. CASE s # EmptySlot
  <2>1. PICK x \in X : /\ s.start = x.start /\ s.end = x.end /\ s.prev = x.prev /\ s.start # 0
                       /\ Slot(x.start) = i /\ AtPlace(K, x, a) /\ NextOK(K, X, x.at, s.next)
    BY <1>2 DEF SlotOK
  <2>2. AtPlace(L, x, a) /\ x \in Y
    BY <2>1, AtPlaceOn
  <2>3. NextOK(L, Y, x.at, s.next)
    BY <2>1, AtPlaceOn DEF NextOK
  <2> QED  BY <2>1, <2>2, <2>3 DEF SlotOK
<1> QED  BY <1>1, <1>2

LEMMA InOrderOn ==
  ASSUME NEW K \in Seq(Owner), NEW L \in Seq(Owner), Extends(K, L), NEW a, NEW s, InOrder(K, a, s)
  PROVE  InOrder(L, a, s)
<1>1. \A p, q : DayBefore(K, p, q) => DayBefore(L, p, q)
  BY DEF DayBefore, Is, Extends
<1> QED  BY <1>1 DEF InOrder, PrevInOrder, NextInOrder

LEMMA EntriesOn ==
  ASSUME NEW K \in Seq(Owner), NEW L \in Seq(Owner), Extends(K, L), NEW X, NEW Y, X \subseteq Y,
         NEW a, NEW b, EntriesOK(K, X, a, b)
  PROVE  EntriesOK(L, Y, a, b)
BY SlotOn, InOrderOn DEF EntriesOK

\* What a day leads to has a place.
LEMMA LinksThere ==
  ASSUME NEW K \in Seq(Owner), NEW X, NEW a, NEW b, EntriesOK(K, X, a, b)
  PROVE  LinksTo(b) \subseteq DOMAIN K
<1> SUFFICES ASSUME NEW i \in SlotIndex, NEW e \in {b.slot[i].prev, b.slot[i].next}, e # 0
             PROVE  NodeOf(e) \in DOMAIN K
  BY DEF LinksTo
<1>1. b.slot[i] # EmptySlot
  BY DEF EmptySlot
<1>2. a \in DOMAIN K
  BY <1>1 DEF EntriesOK, SlotOK, AtPlace, Is
<1>3. PrevInOrder(K, a, b.slot[i].prev) /\ NextInOrder(K, a, b.slot[i].next)
  BY DEF EntriesOK, InOrder
<1> QED  BY <1>2, <1>3 DEF PrevInOrder, NextInOrder, DayBefore, Is

LEMMA NewDayLinks ==
  ASSUME NEW K, NEW X, NEW a
  PROVE  EntriesOK(K, X, a, NewDayBuffer) /\ LinksTo(NewDayBuffer) = {}
<1>1. \A i \in SlotIndex : NewDayBuffer.slot[i] = EmptySlot
  BY DEF NewDayBuffer
<1>2. NewDayBuffer.last = 0
  BY DEF NewDayBuffer
<1>3. LinksTo(NewDayBuffer) = {}
  BY <1>1 DEF LinksTo, EmptySlot
<1>4. InOrder(K, a, EmptySlot)
  BY DEF InOrder, EmptySlot, PrevInOrder, NextInOrder
<1> QED  BY <1>1, <1>2, <1>3, <1>4 DEF EntriesOK, SlotOK

-----------------------------------------------------------------------------
(* The links in memory and in the queue, while nodes are written.          *)
SameDays(m, n) ==
  /\ \A d \in Days : /\ n.days[d].loaded <=> m.days[d].loaded
                     /\ n.days[d].seek = m.days[d].seek /\ n.days[d].buf = m.days[d].buf
  /\ n.last = m.last

\* The writes of n are those of m, and at most one more.
OneMore(K, X, m, n) ==
  n.writes = m.writes \/
  \E w \in Write : /\ n.writes = Append(m.writes, w)
                   /\ IsLarge(w) => EntriesOK(K, X, w.at, w.buf)

LEMMA QueueOneMore ==
  ASSUME NEW K \in Seq(Owner), NEW D, NEW F \in Nat, NEW Q \in Seq(Write), QueueOK(K, D, F, Q),
         NEW X, QueueLinks(K, X, F, Q), NEW w \in Write, IsLarge(w) => EntriesOK(K, X, w.at, w.buf)
  PROVE  QueueLinks(K, X, F, Append(Q, w))
<1> DEFINE R == Append(Q, w)
<1>1. /\ Len(R) = Len(Q) + 1 /\ Len(Q) \in Nat
      /\ DOMAIN R = 1 .. Len(Q) + 1 /\ DOMAIN Q = 1 .. Len(Q)
      /\ R[Len(Q) + 1] = w /\ \A n \in 1 .. Len(Q) : R[n] = Q[n]
      /\ \A n \in 1 .. Len(Q) + 1 : ThereAt(F, R, n) = ThereAt(F, Q, n)
      /\ ThereAt(F, R, Len(R) + 1) = ThereAt(F, Q, Len(Q) + 1) \cup {w.at}
  BY QueueAppend
<1> HIDE DEF R
<1>2. IsLarge(w) => DayLinks(K, X, w.at, w.buf, ThereAt(F, Q, Len(Q) + 1))
  <2> SUFFICES ASSUME IsLarge(w) PROVE DayLinks(K, X, w.at, w.buf, ThereAt(F, Q, Len(Q) + 1))
    OBVIOUS
  <2>1. LinksTo(w.buf) \subseteq DOMAIN K
    BY LinksThere
  <2>2. DOMAIN K \subseteq ThereAt(F, Q, Len(Q) + 1)
    BY DEF QueueOK
  <2> QED  BY <2>1, <2>2 DEF DayLinks
<1>3. ASSUME NEW k \in DOMAIN R, IsLarge(R[k])
      PROVE  DayLinks(K, X, R[k].at, R[k].buf, ThereAt(F, R, k))
  <2>1. CASE k = Len(Q) + 1
    BY <1>1, <1>2, <1>3, <2>1
  <2>2. CASE k # Len(Q) + 1
    <3>1. k \in 1 .. Len(Q)
      BY <1>1, <2>2
    <3>2. R[k] = Q[k] /\ ThereAt(F, R, k) = ThereAt(F, Q, k) /\ k \in DOMAIN Q
      BY <1>1, <3>1
    <3> QED  BY <1>3, <3>2 DEF QueueLinks
  <2> QED  BY <2>1, <2>2
<1> QED  BY <1>3 DEF QueueLinks, R

LEMMA QueueMore ==
  ASSUME NEW K, NEW D, NEW F \in Nat, NEW m, Holds(K, D, F, m), m.open, NEW X, QueueLinks(K, X, F, m.writes),
         NEW L \in Seq(Owner), Extends(K, L), NEW n, OneMore(K, X, m, n)
  PROVE  QueueLinks(L, X, F, n.writes)
<1>1. m.writes \in Seq(Write) /\ K \in Seq(Owner) /\ QueueOK(K, D, F, m.writes)
  BY MemoryParts DEF Holds, MemoryOK, Owners
<1>2. QueueLinks(K, X, F, n.writes)
  BY <1>1, QueueOneMore DEF OneMore
<1> QED  BY <1>1, <1>2, EntriesOn DEF QueueLinks, DayLinks

LEMMA LinksKept ==
  ASSUME NEW K, NEW D, NEW F \in Nat, NEW m, Holds(K, D, F, m), NEW X, Links(K, X, F, m),
         NEW L \in Seq(Owner), Extends(K, L), NEW n, n.open => m.open, SameDays(m, n), OneMore(K, X, m, n)
  PROVE  Links(L, X, F, n)
<1> SUFFICES ASSUME n.open PROVE MemoryLinks(L, X, n) /\ QueueLinks(L, X, F, n.writes)
  BY DEF Links
<1>1. MemoryLinks(K, X, m) /\ QueueLinks(K, X, F, m.writes) /\ m.open /\ K \in Seq(Owner) /\ m \in Memory
  BY DEF Links, Holds, Owners, MemoryOK
<1>2. QueueLinks(L, X, F, n.writes)
  BY <1>1, QueueMore
<1>3. \A d \in Days : LoadedOK(L, X, n.days[d])
  BY <1>1, EntriesOn DEF MemoryLinks, LoadedOK, SameDays
<1>4. LastOK(n)
  <2>1. n.last = m.last /\ m.last.day \in Days \cup {-1}
    BY <1>1 DEF SameDays, Memory, File
  <2>2. CASE m.last.day = -1
    BY <2>1, <2>2 DEF LastOK, LastIn
  <2>3. CASE m.last.day \in Days
    <3>1. n.days[m.last.day].seek = m.days[m.last.day].seek /\ n.days[m.last.day].buf = m.days[m.last.day].buf
      BY <2>3 DEF SameDays
    <3>2. LastOK(m)
      BY <1>1 DEF MemoryLinks
    <3> QED  BY <2>1, <3>1, <3>2, Zenon DEF LastOK, LastIn
  <2> QED  BY <2>1, <2>2, <2>3
<1> QED  BY <1>2, <1>3, <1>4 DEF MemoryLinks

-----------------------------------------------------------------------------
(* The updates of the file change no day in memory.                        *)
Quiet(K, X, m, n) == (n.open => m.open) /\ SameDays(m, n) /\ OneMore(K, X, m, n)

LEMMA QuietSelf ==
  ASSUME NEW K, NEW X, NEW m, NEW n, n.open => m.open, n.days = m.days, n.last = m.last, n.writes = m.writes
  PROVE  Quiet(K, X, m, n)
BY DEF Quiet, SameDays, OneMore

LEMMA UpdateRootLinks ==
  ASSUME NEW K, NEW D, NEW F \in Nat, NEW m, Holds(K, D, F, m), NEW X
  PROVE  Quiet(K, X, m, UpdateRoot(m))
<1> DEFINE w == [at |-> 0, buf |-> m.root]
           n == UpdateRoot(m)
<1>1. m \in Memory
  BY DEF Holds, MemoryOK
<1>2. CASE ~m.rootDirty \/ ~m.open
  BY <1>2, QuietSelf DEF UpdateRoot
<1>3. CASE ~(~m.rootDirty \/ ~m.open)
  <2>1. w \in Write /\ ~IsLarge(w)
    BY <1>1 DEF Write, Memory, IsLarge
  <2>2. n.open = m.open /\ n.days = m.days /\ n.last = m.last /\ n.writes = Append(m.writes, w)
    BY <1>1, <1>3 DEF UpdateRoot, Written, Memory
  <2> HIDE DEF n, w
  <2> QED  BY <2>1, <2>2 DEF Quiet, SameDays, OneMore, n
<1> QED  BY <1>2, <1>3

LEMMA UpdateChannelLinks ==
  ASSUME NEW K, NEW D, NEW F \in Nat, NEW m, Holds(K, D, F, m), NEW X
  PROVE  Quiet(K, X, m, UpdateChannel(m))
<1> DEFINE n == UpdateChannel(m)
<1>1. m \in Memory /\ MemoryOK(K, D, m) /\ m.eof \in Nat /\ m.chan \in Node(ChannelBuffer)
  BY MemoryParts DEF Holds, MemoryOK
<1>2. CASE ~m.chan.dirty \/ ~m.open
  BY <1>2, QuietSelf DEF UpdateChannel
<1>3. CASE ~(~m.chan.dirty \/ ~m.open)
  <2>1. m.chan.buf \in ChannelBuffer
    BY <1>1, <1>3, ChannelFits DEF MemoryOK, NodeOK
  <2>2. PICK at \in Nat : n.writes = Append(m.writes, [at |-> at, buf |-> m.chan.buf])
                          /\ n.open = m.open /\ n.days = m.days /\ n.last = m.last
    <3>1. m.chan.seek \in Nat /\ m.eof + 1 \in Nat
      BY <1>1 DEF Node
    <3> QED  BY <1>1, <1>3, <3>1 DEF UpdateChannel, Written, Memory, NewPlace
  <2>3. [at |-> at, buf |-> m.chan.buf] \in Write /\ ~IsLarge([at |-> at, buf |-> m.chan.buf])
    BY <2>1 DEF Write, IsLarge, ChannelBuffer
  <2> HIDE DEF n
  <2> QED  BY <2>2, <2>3 DEF Quiet, SameDays, OneMore, n
<1> QED  BY <1>2, <1>3

LEMMA UpdateYearLinks ==
  ASSUME NEW K, NEW D, NEW F \in Nat, NEW m, Holds(K, D, F, m), NEW X, NEW i \in YearIndex
  PROVE  Quiet(K, X, m, UpdateYear(m, i))
<1> DEFINE n == UpdateYear(m, i)
           y == m.years[i]
<1>1. m \in Memory /\ MemoryOK(K, D, m) /\ m.eof \in Nat /\ y \in Node(YearBuffer)
  BY MemoryParts DEF Holds, MemoryOK
<1>2. CASE ~y.dirty \/ ~m.open
  BY <1>2, QuietSelf DEF UpdateYear
<1>3. CASE ~(~y.dirty \/ ~m.open)
  <2>1. y.buf \in YearBuffer
    BY <1>1, <1>3, YearFits DEF MemoryOK, NodeOK
  <2>2. PICK at \in Nat : n.writes = Append(m.writes, [at |-> at, buf |-> y.buf])
                          /\ n.open = m.open /\ n.days = m.days /\ n.last = m.last
    <3>1. y.seek \in Nat /\ m.eof + 1 \in Nat
      BY <1>1 DEF Node
    <3> QED  BY <1>1, <1>3, <3>1 DEF UpdateYear, Written, Memory, NewPlace
  <2>3. [at |-> at, buf |-> y.buf] \in Write /\ ~IsLarge([at |-> at, buf |-> y.buf])
    BY <2>1 DEF Write, IsLarge, YearBuffer
  <2> HIDE DEF n, y
  <2> QED  BY <2>2, <2>3 DEF Quiet, SameDays, OneMore, n
<1> QED  BY <1>2, <1>3

LEMMA UpdateDayLinks ==
  ASSUME NEW K, NEW D, NEW F \in Nat, NEW m, Holds(K, D, F, m), NEW X, Links(K, X, F, m), NEW d \in Days
  PROVE  Quiet(K, X, m, UpdateDay(m, d))
<1> DEFINE n == UpdateDay(m, d)
           y == m.days[d]
           w == [at |-> y.seek, buf |-> y.buf]
           z == [y EXCEPT !.dirty = FALSE]
<1>1. m \in Memory /\ MemoryOK(K, D, m) /\ y \in Node(DayBuffer)
  BY MemoryParts DEF Holds, MemoryOK
<1>2. CASE ~y.dirty \/ ~m.open
  BY <1>2, QuietSelf DEF UpdateDay
<1>3. CASE ~(~y.dirty \/ ~m.open)
  <2>1. y.buf \in DayBuffer /\ y.loaded
    BY <1>1, <1>3, DayFits DEF MemoryOK, NodeOK
  <2>2. y.seek > 0 /\ EntriesOK(K, X, y.seek, y.buf)
    BY <1>3, <2>1 DEF Links, MemoryLinks, LoadedOK
  <2>3. w \in Write
    BY <1>1, <2>1 DEF Write, Node
  <2>4. (z.loaded <=> y.loaded) /\ z.buf = y.buf /\ z.seek = y.seek
    BY <1>1 DEF Node
  <2>5. /\ n.open = m.open /\ n.last = m.last /\ n.writes = Append(m.writes, w)
        /\ n.days[d] = z /\ \A k \in Days \ {d} : n.days[k] = m.days[k]
    BY <1>1, <1>3, <2>2 DEF UpdateDay, Written, Memory
  <2>6. w.at = y.seek /\ w.buf = y.buf
    OBVIOUS
  <2> HIDE DEF n, w, z
  <2>7. SameDays(m, n)
    BY <2>4, <2>5 DEF SameDays
  <2>8. OneMore(K, X, m, n)
    BY <2>2, <2>3, <2>5, <2>6 DEF OneMore
  <2> QED  BY <2>5, <2>7, <2>8 DEF Quiet, n
<1> QED  BY <1>2, <1>3

\* The memory and the links, for some places.
Linked(K, D, F, X, m) == Holds(K, D, F, m) /\ Links(K, X, F, m)

LEMMA QuietLinks ==
  ASSUME NEW K, NEW D, NEW F \in Nat, NEW m, NEW X, Linked(K, D, F, X, m), NEW n, Quiet(K, X, m, n),
         NEW L \in Seq(Owner), Extends(K, L), Holds(L, D, F, n)
  PROVE  Linked(L, D, F, X, n)
BY LinksKept DEF Linked, Quiet

LEMMA LinkedOwners ==
  ASSUME NEW K, NEW D, NEW F, NEW X, NEW m, Linked(K, D, F, X, m)
  PROVE  K \in Seq(Owner) /\ Holds(K, D, F, m) /\ Links(K, X, F, m) /\ m \in Memory /\ MemoryOK(K, D, m)
BY DEF Linked, Holds, Owners, MemoryOK

LEMMA SaveChannelLinks ==
  ASSUME NEW K, NEW D, NEW F \in Nat, NEW m, NEW X, Linked(K, D, F, X, m)
  PROVE  \E L \in Seq(Owner) : Extends(K, L) /\ Linked(L, D, F, X, UpdateRoot(UpdateChannel(m)))
                               /\ (\A a \in DOMAIN L : a \in DOMAIN K \/ L[a] = Channel)
<1> DEFINE n == UpdateChannel(m)
           r == UpdateRoot(n)
<1>1. Holds(K, D, F, m) /\ Links(K, X, F, m)
  BY DEF Linked
<1>2. PICK L \in Seq(Owner) : Extends(K, L) /\ Holds(L, D, F, n)
                              /\ (\A a \in DOMAIN L : a \in DOMAIN K \/ L[a] = Channel)
  BY <1>1, UpdateChannelHolds
<1>3. Quiet(K, X, m, n)
  BY <1>1, UpdateChannelLinks
<1> HIDE DEF n
<1>4. Linked(L, D, F, X, n)
  BY <1>2, <1>3, QuietLinks
<1>5. Holds(L, D, F, r)
  BY <1>2, UpdateRootHolds
<1>6. Quiet(L, X, n, r)
  BY <1>2, UpdateRootLinks
<1> HIDE DEF r
<1>7. Linked(L, D, F, X, r)
  BY <1>4, <1>5, <1>6, ExtendsSelf, QuietLinks
<1> QED  BY <1>2, <1>7 DEF r, n

LEMMA UpdateDayLinked ==
  ASSUME NEW K, NEW D, NEW F \in Nat, NEW m, NEW X, Linked(K, D, F, X, m), NEW d \in Days
  PROVE  \E L \in Seq(Owner) : Extends(K, L) /\ Linked(L, D, F, X, UpdateDay(m, d))
<1>1. Holds(K, D, F, m) /\ Links(K, X, F, m)
  BY DEF Linked
<1>2. PICK L \in Seq(Owner) : Extends(K, L) /\ Holds(L, D, F, UpdateDay(m, d))
  BY <1>1, UpdateDayHolds
<1>3. Quiet(K, X, m, UpdateDay(m, d))
  BY <1>1, UpdateDayLinks
<1> QED  BY <1>2, <1>3, QuietLinks

LEMMA UpdateYearLinked ==
  ASSUME NEW K, NEW D, NEW F \in Nat, NEW m, NEW X, Linked(K, D, F, X, m), NEW i \in YearIndex
  PROVE  \E L \in Seq(Owner) : Extends(K, L) /\ Linked(L, D, F, X, UpdateYear(m, i))
<1>1. Holds(K, D, F, m)
  BY DEF Linked
<1>2. PICK L \in Seq(Owner) : Extends(K, L) /\ Holds(L, D, F, UpdateYear(m, i))
  BY <1>1, UpdateYearHolds
<1>3. Quiet(K, X, m, UpdateYear(m, i))
  BY <1>1, UpdateYearLinks
<1> QED  BY <1>2, <1>3, QuietLinks

LEMMA SaveTreeLinks ==
  ASSUME NEW K, NEW D, NEW F \in Nat, NEW m, NEW X, Linked(K, D, F, X, m), NEW d \in Days, m.days[d].loaded
  PROVE  \E L \in Seq(Owner) : Extends(K, L) /\ Linked(L, D, F, X, SaveTree(m, d))
<1> DEFINE n == UpdateDay(m, d)
           r == UpdateYear(n, YearAt(m, d))
           s == UpdateRoot(UpdateChannel(r))
<1>0. K \in Seq(Owner) /\ YearAt(m, d) \in YearIndex
  BY LinkedOwners, LoadedDay
<1>1. PICK L \in Seq(Owner) : Extends(K, L) /\ Linked(L, D, F, X, n)
  BY UpdateDayLinked
<1> HIDE DEF n
<1>2. PICK M \in Seq(Owner) : Extends(L, M) /\ Linked(M, D, F, X, r)
  BY <1>0, <1>1, UpdateYearLinked
<1> HIDE DEF r
<1>3. PICK N \in Seq(Owner) : Extends(M, N) /\ Linked(N, D, F, X, s)
  BY <1>2, SaveChannelLinks
<1>4. SaveTree(m, d) = s
  BY DEF SaveTree, s, r, n
<1> HIDE DEF s
<1>5. Extends(K, N)
  BY <1>0, <1>1, <1>2, <1>3, ExtendsOn
<1> QED  BY <1>3, <1>4, <1>5

LEMMA UpdateLastDayLinks ==
  ASSUME NEW K, NEW D, NEW F \in Nat, NEW m, NEW X, Linked(K, D, F, X, m), NEW d \in Days,
         NEW last, last.day \in Days, m.days[last.day].loaded
  PROVE  \E L \in Seq(Owner) : Extends(K, L) /\ Linked(L, D, F, X, UpdateLastDay(m, last, d))
<1> DEFINE n == UpdateDay(m, last.day)
           r == UpdateYear(n, YearAt(m, last.day))
<1>0. K \in Seq(Owner) /\ YearAt(m, last.day) \in YearIndex
  BY LinkedOwners, LoadedDay
<1>1. PICK L \in Seq(Owner) : Extends(K, L) /\ Linked(L, D, F, X, n)
  BY UpdateDayLinked
<1> HIDE DEF n
<1>2. PICK M \in Seq(Owner) : Extends(L, M) /\ Linked(M, D, F, X, r)
  BY <1>0, <1>1, UpdateYearLinked
<1> HIDE DEF r
<1>3. Extends(K, M)
  BY <1>0, <1>1, <1>2, ExtendsOn
<1>4. UpdateLastDay(m, last, d) \in {m, n, r}
  BY DEF UpdateLastDay, n, r
<1> QED  BY <1>0, <1>1, <1>2, <1>3, <1>4, ExtendsSelf

-----------------------------------------------------------------------------
(* The links of nodes that are loaded or created.                          *)
LEMMA OnDiskLinks ==
  ASSUME NEW K, NEW D, FileOK(K, D, Flushed), NEW X, FileLinks(K, X, Flushed),
         NEW a \in 1 .. Len(Flushed.nodes), OnDisk(a) \in DayBuffer
  PROVE  EntriesOK(K, X, a, OnDisk(a))
<1>1. a \in DOMAIN Flushed.nodes /\ OnDisk(a).kind = "day"
  BY DEF FileOK, DayBuffer, OnDisk
<1> QED  BY <1>1 DEF FileLinks, DayLinks, OnDisk

\* The memory with another day that has its place.
LEMMA SetDayLinks ==
  ASSUME NEW K, NEW D, NEW F, NEW m, NEW X, Linked(K, D, F, X, m), m.open, NEW d \in Days, m.last.day # d,
         NEW n, Holds(K, D, F, n), \A k \in Days \ {d} : n.days[k] = m.days[k],
         n.last = m.last, n.writes = m.writes, LoadedOK(K, X, n.days[d])
  PROVE  Linked(K, D, F, X, n)
<1>1. MemoryLinks(K, X, m) /\ QueueLinks(K, X, F, m.writes) /\ m \in Memory
  BY LinkedOwners DEF Links
<1>2. \A k \in Days : LoadedOK(K, X, n.days[k])
  BY <1>1 DEF MemoryLinks
<1>3. LastOK(n)
  <2>1. m.last.day \in Days \cup {-1} /\ LastOK(m)
    BY <1>1 DEF Memory, File, MemoryLinks
  <2>2. m.last.day # -1 => n.days[m.last.day] = m.days[m.last.day]
    BY <2>1
  <2> QED  BY <2>1, <2>2, Zenon DEF LastOK, LastIn
<1> QED  BY <1>1, <1>2, <1>3 DEF Linked, Links, MemoryLinks

\* The memory with another last file.
LEMMA SetLastLinks ==
  ASSUME NEW K, NEW D, NEW F, NEW m, NEW X, Linked(K, D, F, X, m), m.open,
         NEW n, Holds(K, D, F, n), n.days = m.days, n.writes = m.writes, LastOK(n)
  PROVE  Linked(K, D, F, X, n)
BY DEF Linked, Links, MemoryLinks

LEMMA LoadLastFileLinks ==
  ASSUME NEW K, NEW D, D \subseteq Days, NEW F, NEW m, NEW X, Linked(K, D, F, X, m), m.open,
         m.chan.loaded, m.last = NoFile,
         NEW d \in D, m.days[d].loaded, NEW node, node.buf \in DayBuffer, node.buf = m.days[d].buf
  PROVE  Linked(K, D, F, X, LoadLastFile(m, d, node))
<1> DEFINE b == node.buf
           e == b.slot[SlotOf(b.last)]
           n == LoadLastFile(m, d, node)
<1>1. CASE b.last = 0
  BY <1>1 DEF LoadLastFile
<1>2. CASE b.last # 0
  <2>1. K \in Seq(Owner) /\ Holds(K, D, F, m) /\ m \in Memory /\ MemoryOK(K, D, m)
    BY LinkedOwners
  <2>2. LET r == LoadLastFile(m, d, node) IN Holds(K, D, F, r) /\ r.days = m.days /\ r.writes = m.writes
    BY <2>1, LoadLastFileHolds, SMTT(30)
  <2>3. n.last = [start |-> e.start, end |-> e.end, seek |-> b.last, day |-> d]
    BY <1>2, <2>1 DEF LoadLastFile, Memory
  <2>4. m.days[d].seek > 0 /\ EntriesOK(K, X, m.days[d].seek, b)
    BY DEF Linked, Links, MemoryLinks, LoadedOK
  <2> DEFINE a == m.days[d].seek
  <2>5. Is(K, a, DayNo(d))
    BY <2>1, <2>4 DEF MemoryOK, NodeOK, LeadsTo
  <2>6. b.last \in EntryNo /\ SlotOf(b.last) \in SlotIndex /\ NodeOf(b.last) = a /\ e.start # 0
    BY <1>2, <2>4, EntryNoFacts, Zenon DEF EntriesOK, DayBuffer
  <2>7. e # EmptySlot /\ SlotOK(K, X, a, SlotOf(b.last), e)
    BY <2>4, <2>6, SMTT(30) DEF EntriesOK, EmptySlot
  <2>8. PICK x \in X : e.start = x.start /\ Slot(x.start) = SlotOf(b.last) /\ AtPlace(K, x, a)
    BY <2>7, Zenon DEF SlotOK
  <2>9. Day(e.start) = d
    BY <2>5, <2>8 DEF AtPlace, Is, DayNo
  <2>10. b.last = Entry(a, Slot(e.start))
    <3>1. PICK q \in Nat, i \in SlotIndex : b.last = Entry(q, i)
      BY <1>2, <2>6 DEF EntryNo
    <3>2. NodeOf(Entry(q, i)) = q /\ SlotOf(Entry(q, i)) = i
      BY EntryFacts
    <3> QED  BY <2>6, <2>8, <3>1, <3>2
  <2>11. m.days[d].buf.slot[Slot(e.start)] = e
    BY <2>8
  <2> HIDE DEF n, e
  <2>12. LastOK(n)
    BY <2>2, <2>3, <2>6, <2>9, <2>10, <2>11 DEF LastOK, LastIn, n
  <2> QED  BY <2>2, <2>12, SetLastLinks DEF n
<1> QED  BY <1>1, <1>2

LEMMA LoadLastDayLinks ==
  ASSUME NEW K, NEW D, D \subseteq Days, NEW m, m.open, FileOK(K, D, Flushed),
         DOMAIN K \subseteq 1 .. Len(Flushed.nodes), NEW X, FileLinks(K, X, Flushed),
         Linked(K, D, Len(Flushed.nodes), X, m), m.chan.loaded, m.last = NoFile,
         NEW i \in YearIndex, m.years[i].loaded
  PROVE  Linked(K, D, Len(Flushed.nodes), X, LoadLastDay(m, i))
<1> DEFINE F == Len(Flushed.nodes)
           year == m.years[i].buf
           y == m.chan.buf.base + i
           at == year.table[year.last]
           d == (m.chan.buf.base + i - 1) * YearDays + year.last
           node == LoadedNode(at, OnDisk(at))
           n == WithDay(m, d, node)
<1>1. CASE year.last = -1 \/ at = 0
  BY <1>1 DEF LoadLastDay
<1>2. CASE ~(year.last = -1 \/ at = 0)
  <2>1. MemoryOK(K, D, m) /\ m \in Memory /\ Holds(K, D, F, m)
    BY LinkedOwners
  <2>2. m.chan.buf \in ChannelBuffer /\ m.chan.buf.base # 0 /\ Fits(K, D, YearNo(y), year)
    BY <2>1, ChannelFits DEF MemoryOK, NodeOK
  <2>3. year \in YearBuffer /\ year.last \in DayIndex /\ Is(K, at, DayNo((y - 1) * YearDays + year.last))
    BY <1>2, <2>2, YearFits DEF YearBuffer, LeadsTo
  <2>4. y \in Nat \ {0} /\ m.chan.buf.base \in Nat
    BY <2>2 DEF ChannelBuffer, YearIndex
  <2>5. d = (y - 1) * YearDays + year.last
    <3>1. m.chan.buf.base + i - 1 = y - 1
      BY <2>4, SMTT(30) DEF YearIndex
    <3> QED  BY <3>1
  <2> HIDE DEF y, at, year
  <2>6. d \in Nat /\ YearOfDay(d) = y
    BY <2>3, <2>4, <2>5, DayOfIndex
  <2>7. d \in D /\ d \in Days /\ Is(K, at, DayNo(d))
    BY <2>1, <2>3, <2>5 DEF Holds, Owners, Is, DayNo
  <2> HIDE DEF d
  <2>8. YearAt(m, d) = i
    BY <2>4, <2>6 DEF YearAt, y, YearIndex
  <2>9. at \in Nat /\ at \in 1 .. F /\ Fits(K, D, DayNo(d), OnDisk(at)) /\ OnDisk(at) \in DayBuffer
    <3>1. at \in 1 .. Len(Flushed.nodes)
      BY <2>7 DEF Is
    <3> QED  BY <2>7, <3>1, ReadBack, DayFits
  <2>10. /\ node \in Node(DayBuffer) /\ node.loaded /\ node.buf = OnDisk(at) /\ node.seek = at
         /\ NodeOK(K, D, DayNo(d), node)
    <3>1. node.buf = OnDisk(at) /\ node.seek = at
      BY DEF LoadedNode
    <3>2. node \in Node(DayBuffer) /\ node.loaded
      BY <2>7, <2>9, LoadedNodeIs
    <3>3. NodeOK(K, D, DayNo(d), node)
      BY <2>7, <2>9, LoadedNodeIs
    <3> QED  BY <3>1, <3>2, <3>3
  <2>11. LoadedOK(K, X, node)
    <3>1. EntriesOK(K, X, at, OnDisk(at)) /\ at > 0
      BY <2>9, OnDiskLinks
    <3> HIDE DEF node
    <3> QED  BY <2>10, <3>1 DEF LoadedOK
  <2> HIDE DEF node
  <2>12. /\ Holds(K, D, F, n) /\ n.days[d] = node /\ (n.open <=> m.open) /\ n.chan = m.chan
         /\ (\A k \in Days \ {d} : n.days[k] = m.days[k])
         /\ n.last = m.last /\ n.prevDay = m.prevDay /\ n.writes = m.writes
    <3> QED  BY <2>1, <2>7, <2>8, <2>10, SetDay
  <2> HIDE DEF n
  <2>13. m.last.day # d
    BY <2>6 DEF NoFile
  <2>14. Linked(K, D, F, X, n)
    BY <2>7, <2>11, <2>12, <2>13, SetDayLinks
  <2>15. Linked(K, D, F, X, LoadLastFile(n, d, node))
    BY <2>7, <2>9, <2>10, <2>12, <2>14, LoadLastFileLinks
  <2>16. LoadLastDay(m, i) = LoadLastFile(n, d, node)
    BY <1>2, Zenon DEF LoadLastDay, WithDay, n, node, at, d, year
  <2> QED  BY <2>15, <2>16
<1> QED  BY <1>1, <1>2

LEMMA LoadLastYearLinks ==
  ASSUME NEW K, NEW D, D \subseteq Days, NEW m, m.open, FileOK(K, D, Flushed),
         DOMAIN K \subseteq 1 .. Len(Flushed.nodes), NEW X, FileLinks(K, X, Flushed),
         Linked(K, D, Len(Flushed.nodes), X, m), m.chan.loaded, m.last = NoFile
  PROVE  Linked(K, D, Len(Flushed.nodes), X, LoadLastYear(m))
<1> DEFINE F == Len(Flushed.nodes)
           channel == m.chan.buf
           at == channel.table[channel.last]
           i == channel.last
           node == LoadedNode(at, OnDisk(at))
           n == WithYear(m, i, node)
<1>1. CASE channel.base = 0 \/ channel.last = -1 \/ at = 0
  BY <1>1 DEF LoadLastYear
<1>2. CASE ~(channel.base = 0 \/ channel.last = -1 \/ at = 0)
  <2>1. MemoryOK(K, D, m) /\ m \in Memory /\ Holds(K, D, F, m) /\ K \in Seq(Owner) /\ F \in Nat
    BY LinkedOwners DEF FileOK
  <2>2. channel \in ChannelBuffer /\ channel.base # 0 /\ Fits(K, D, Channel, channel)
    BY <1>2, <2>1, ChannelFits DEF MemoryOK, NodeOK
  <2>3. i \in YearIndex /\ Is(K, at, YearNo(channel.base + i))
    BY <1>2, <2>2, ChannelFits DEF ChannelBuffer, LeadsTo
  <2> HIDE DEF i, at
  <2>4. at \in Nat /\ Fits(K, D, YearNo(channel.base + i), OnDisk(at)) /\ OnDisk(at) \in YearBuffer
    <3>1. at \in 1 .. Len(Flushed.nodes)
      BY <2>3 DEF Is
    <3> QED  BY <2>3, <3>1, ReadBack, YearFits
  <2>5. node \in Node(YearBuffer) /\ node.loaded
    BY <2>3, <2>4, LoadedNodeIs
  <2>6. NodeOK(K, D, YearNo(channel.base + i), node)
    BY <2>3, <2>4, LoadedNodeIs, ZenonT(30)
  <2> HIDE DEF node
  <2>7. /\ Holds(K, D, F, n) /\ n.years[i] = node /\ (n.open <=> m.open) /\ n.chan = m.chan
        /\ n.days = m.days /\ n.last = m.last /\ n.writes = m.writes
    BY <2>1, <2>2, <2>3, <2>5, <2>6, SetYear
  <2> HIDE DEF n
  <2>8. Quiet(K, X, m, n)
    BY <2>7, QuietSelf
  <2>9. Linked(K, D, F, X, n)
    BY <2>1, <2>7, <2>8, ExtendsSelf, QuietLinks
  <2>10. Linked(K, D, F, X, LoadLastDay(n, i))
    BY <2>3, <2>5, <2>7, <2>9, LoadLastDayLinks
  <2>11. LoadLastYear(m) = LoadLastDay(n, i)
    BY <1>2 DEF LoadLastYear, WithYear, n, node, at, i
  <2> QED  BY <2>10, <2>11
<1> QED  BY <1>1, <1>2

LEMMA GetChannelNodeLinks ==
  ASSUME NEW K, NEW D, D \subseteq Days, NEW m, FileOK(K, D, Flushed),
         m.open => DOMAIN K \subseteq 1 .. Len(Flushed.nodes),
         NEW X, FileLinks(K, X, Flushed), Linked(K, D, Len(Flushed.nodes), X, m)
  PROVE  \E L \in Seq(Owner) :
            Extends(K, L) /\ Linked(L, D, Len(Flushed.nodes), X, GetChannelNode(m))
            /\ (\A a \in DOMAIN L : a \in DOMAIN K \/ L[a] = Channel)
<1> DEFINE F == Len(Flushed.nodes)
           new == WithChannel(m, NewNode(NewChannelBuffer))
           old == WithChannel(m, LoadedNode(m.root, OnDisk(m.root)))
<1>0. F \in Nat /\ K \in Seq(Owner) /\ MemoryOK(K, D, m) /\ m.root \in Nat /\ Holds(K, D, F, m)
  BY LinkedOwners DEF FileOK, Memory
<1>1. CASE m.chan.loaded
  BY <1>0, <1>1, ExtendsSelf DEF GetChannelNode
<1>2. CASE ~m.chan.loaded /\ m.open /\ m.root # 0
  <2>1. Is(K, m.root, Channel) /\ m.last = NoFile
    BY <1>0, <1>2 DEF MemoryOK, LeadsTo
  <2>2. Fits(K, D, Channel, OnDisk(m.root)) /\ OnDisk(m.root) \in ChannelBuffer
    <3>1. m.root \in 1 .. Len(Flushed.nodes)
      BY <1>2, <2>1 DEF Is
    <3> QED  BY <2>1, <3>1, ReadBack, ChannelFits
  <2>3. /\ LoadedNode(m.root, OnDisk(m.root)) \in Node(ChannelBuffer)
        /\ LoadedNode(m.root, OnDisk(m.root)).loaded
        /\ NodeOK(K, D, Channel, LoadedNode(m.root, OnDisk(m.root)))
    BY <1>0, <2>1, <2>2, LoadedNodeIs
  <2>4. /\ Holds(K, D, F, old) /\ (old.open <=> m.open)
        /\ old.chan = LoadedNode(m.root, OnDisk(m.root))
        /\ old.last = m.last /\ old.days = m.days /\ old.writes = m.writes
    BY <1>0, <1>2, <2>3, SetChannel
  <2>5. GetChannelNode(m) = LoadLastYear(old)
    BY <1>2 DEF GetChannelNode, WithChannel
  <2>6. old.chan.loaded /\ old.last = NoFile /\ old.open
    BY <1>2, <2>1, <2>3, <2>4
  <2> HIDE DEF old
  <2>7. Linked(K, D, F, X, old)
    BY <1>0, <2>4, QuietSelf, ExtendsSelf, QuietLinks
  <2>8. Linked(K, D, F, X, LoadLastYear(old))
    BY <1>2, <2>6, <2>7, LoadLastYearLinks
  <2> QED  BY <1>0, <2>5, <2>8, ExtendsSelf
<1>3. CASE ~m.chan.loaded /\ ~(m.open /\ m.root # 0)
  <2>1. /\ NewNode(NewChannelBuffer) \in Node(ChannelBuffer) /\ NewNode(NewChannelBuffer).loaded
        /\ NodeOK(K, D, Channel, NewNode(NewChannelBuffer))
    BY NewBuffers, NewNodeIs
  <2>2. /\ Holds(K, D, F, new) /\ (new.open <=> m.open) /\ new.chan = NewNode(NewChannelBuffer)
        /\ new.last = m.last /\ new.days = m.days /\ new.writes = m.writes
    BY <1>0, <1>3, <2>1, SetChannel
  <2>3. GetChannelNode(m) = UpdateRoot(UpdateChannel(new))
    BY <1>3 DEF GetChannelNode, WithChannel
  <2> HIDE DEF new
  <2>4. Linked(K, D, F, X, new)
    BY <1>0, <2>2, QuietSelf, ExtendsSelf, QuietLinks
  <2> QED  BY <1>0, <2>3, <2>4, SaveChannelLinks
<1> QED  BY <1>1, <1>2, <1>3

LEMMA SetBaseLinks ==
  ASSUME NEW K, NEW D, NEW F \in Nat, NEW m, NEW X, Linked(K, D, F, X, m), m.chan.loaded,
         NEW t \in Nat, Day(t) \in D
  PROVE  Linked(K, D, F, X, SetBase(m, t)) /\ SetBase(m, t).days = m.days
<1> DEFINE n == SetBase(m, t)
<1>1. m \in Memory /\ Holds(K, D, F, m) /\ K \in Seq(Owner)
  BY LinkedOwners
<1>2. n.open = m.open /\ n.days = m.days /\ n.last = m.last /\ n.writes = m.writes
  BY <1>1 DEF SetBase, Memory
<1>3. Holds(K, D, F, n)
  BY <1>1, SetBaseHolds
<1> HIDE DEF n
<1> QED  BY <1>1, <1>2, <1>3, QuietSelf, ExtendsSelf, QuietLinks DEF n

LEMMA GetYearNodeLinks ==
  ASSUME NEW K, NEW D, NEW m, FileOK(K, D, Flushed),
         m.open => OnlyChannelNew(K, Len(Flushed.nodes)),
         NEW X, Linked(K, D, Len(Flushed.nodes), X, m), m.chan.loaded, m.chan.buf.base # 0, NEW i \in YearIndex
  PROVE  Linked(K, D, Len(Flushed.nodes), X, GetYearNode(m, i)) /\ GetYearNode(m, i).days = m.days
<1> DEFINE n == GetYearNode(m, i)
<1>1. m \in Memory /\ Holds(K, D, Len(Flushed.nodes), m) /\ K \in Seq(Owner) /\ Len(Flushed.nodes) \in Nat
  BY LinkedOwners DEF FileOK
<1>2. n.open = m.open /\ n.days = m.days /\ n.last = m.last /\ n.writes = m.writes
  BY <1>1 DEF GetYearNode, Memory
<1>3. Holds(K, D, Len(Flushed.nodes), n)
  BY <1>1, GetYearNodeHolds
<1> HIDE DEF n
<1> QED  BY <1>1, <1>2, <1>3, QuietSelf, ExtendsSelf, QuietLinks DEF n

\* A day without a place gets one.
LEMMA PlaceForDay ==
  ASSUME NEW m \in Memory, m.open, NEW d \in Days, m.days[d].dirty, m.days[d].seek = 0
  PROVE  LET n == UpdateDay(m, d) IN
         /\ n.open = m.open /\ n.last = m.last
         /\ n.writes = Append(m.writes, [at |-> m.eof + 1, buf |-> m.days[d].buf])
         /\ n.days[d].seek = m.eof + 1 /\ n.days[d].buf = m.days[d].buf
         /\ \A k \in Days \ {d} : n.days[k] = m.days[k]
<1> DEFINE n == UpdateDay(m, d)
           at == m.eof + 1
           y == m.days[d]
           z == [y EXCEPT !.dirty = FALSE, !.seek = at]
           t == SetTable(m.years[YearAt(m, d)], d % YearDays, at)
           q == Append(m.writes, [at |-> at, buf |-> y.buf])
<1>1. y \in Node(DayBuffer) /\ y.dirty /\ ~(y.seek > 0) /\ m.open
  BY MemoryParts
<1>2. z.seek = at /\ z.buf = y.buf
  BY <1>1 DEF Node
<1> DEFINE k == [m EXCEPT !.days[d].dirty = FALSE, !.days[d].seek = at, !.eof = at,
                        !.years[YearAt(m, d)] = SetTable(@, d % YearDays, at)]
<1>3. n = [k EXCEPT !.writes = Append(@, [at |-> at, buf |-> y.buf])]
  BY <1>1 DEF UpdateDay, NewPlace, Written
<1> HIDE DEF n
<1>4. /\ k.open = m.open /\ k.last = m.last /\ k.writes = m.writes
      /\ k.days = [m.days EXCEPT ![d] = z] /\ k = [k EXCEPT !.open = k.open]
  BY ZenonT(30) DEF Memory
<1> HIDE DEF k
<1>5. n.open = k.open /\ n.last = k.last /\ n.writes = Append(k.writes, [at |-> at, buf |-> y.buf])
      /\ n.days = k.days
  BY <1>3
<1>6. d \in DOMAIN m.days
  BY DEF Memory
<1> HIDE DEF z
<1>7. n.days[d] = z /\ \A j \in Days \ {d} : n.days[j] = m.days[j]
  BY <1>4, <1>5, <1>6 DEF Memory
<1> QED  BY <1>2, <1>4, <1>5, <1>7 DEF n

LEMMA GetDateNodeLinks ==
  ASSUME NEW K, NEW D, NEW m, FileOK(K, D, Flushed), NEW X, FileLinks(K, X, Flushed),
         m.open => OnlyChannelNew(K, Len(Flushed.nodes)),
         Linked(K, D, Len(Flushed.nodes), X, m), m.chan.loaded, m.chan.buf.base # 0,
         NEW d \in Days, d \in D, YearAt(m, d) \in YearIndex, m.years[YearAt(m, d)].loaded
  PROVE  \E L \in Seq(Owner) : Extends(K, L) /\ Linked(L, D, Len(Flushed.nodes), X, GetDateNode(m, d))
<1> DEFINE F == Len(Flushed.nodes)
           i == YearAt(m, d)
           at == m.years[i].buf.table[d % YearDays]
           y == m.chan.buf.base + i
           n == GetDateNode(m, d)
<1>1. /\ MemoryOK(K, D, m) /\ m.chan.buf \in ChannelBuffer /\ K \in Seq(Owner) /\ F \in Nat
      /\ m.years[i].buf \in YearBuffer /\ Fits(K, D, YearNo(y), m.years[i].buf)
      /\ m \in Memory /\ Holds(K, D, F, m) /\ Links(K, X, F, m)
  BY LinkedOwners, ChannelFits, YearFits DEF MemoryOK, NodeOK, FileOK
<1>2. /\ y = YearOfDay(d) /\ d % YearDays \in DayIndex /\ d = (y - 1) * YearDays + (d % YearDays)
  <2>1. d \in Nat
    BY DaysAreNumbers
  <2>2. YearOfDay(d) \in Nat /\ m.chan.buf.base \in Nat
    BY <1>1, <2>1, DayInYear DEF ChannelBuffer
  <2>3. y = YearOfDay(d)
    BY <2>2 DEF YearAt
  <2> QED  BY <2>1, <2>3, DayInYear
<1>3. CASE m.days[d].loaded
  BY <1>1, <1>3, ExtendsSelf DEF GetDateNode
<1>4. PICK L \in Seq(Owner) : Extends(K, L) /\ Holds(L, D, F, n)
  BY <1>1, GetDateNodeHolds
<1>5. n.open <=> m.open
  BY <1>1, GetDateNodeHolds DEF Grows
<1>6. CASE ~m.open
  BY <1>4, <1>5, <1>6 DEF Linked, Links
<1>7. ~m.days[d].loaded => m.last.day # d
  BY <1>1, DaysAreNumbers DEF MemoryOK
<1>8. CASE ~m.days[d].loaded /\ m.open /\ at # 0
  <2> DEFINE node == LoadedNode(at, OnDisk(at))
  <2>1. Is(K, at, DayNo(d))
    <3>1. LeadsTo(K, at, DayNo((y - 1) * YearDays + (d % YearDays)))
      BY <1>1, <1>2, YearFits
    <3> QED  BY <1>2, <1>8, <3>1 DEF LeadsTo
  <2>2. at \in 1 .. F
    BY <1>8, <2>1, DayInFile, Zenon
  <2> HIDE DEF at, y
  <2>3. Fits(K, D, DayNo(d), OnDisk(at)) /\ OnDisk(at) \in DayBuffer /\ at \in Nat
    BY <2>1, <2>2, ReadBack, DayFits
  <2>4. node \in Node(DayBuffer) /\ node.loaded /\ NodeOK(K, D, DayNo(d), node)
    BY <2>1, <2>3, LoadedNodeIs
  <2>5. LoadedOK(K, X, node)
    <3>1. EntriesOK(K, X, at, OnDisk(at)) /\ at > 0 /\ node.buf = OnDisk(at) /\ node.seek = at
      BY <2>2, <2>3, OnDiskLinks DEF LoadedNode
    <3> HIDE DEF node
    <3> QED  BY <3>1 DEF LoadedOK
  <2> HIDE DEF node
  <2>6. LET r == WithDay(m, d, node) IN
         /\ Holds(K, D, F, r) /\ r.days[d] = node /\ (r.open <=> m.open) /\ r.chan = m.chan
         /\ (\A k \in Days \ {d} : r.days[k] = m.days[k])
         /\ r.last = m.last /\ r.prevDay = m.prevDay /\ r.writes = m.writes
    BY <1>1, <2>4, SetDay
  <2>7. n = WithDay(m, d, node)
    BY <1>8 DEF GetDateNode, WithDay, node, at
  <2> HIDE DEF n
  <2>8. Linked(K, D, F, X, n)
    BY <1>7, <1>8, <2>5, <2>6, <2>7, SetDayLinks
  <2> QED  BY <1>1, <2>8, ExtendsSelf DEF n
<1>9. CASE ~m.days[d].loaded /\ m.open /\ at = 0
  <2> DEFINE e == m.eof + 1
             w == [at |-> e, buf |-> NewDayBuffer]
  <2>1. /\ n.open = m.open /\ n.last = m.last /\ n.writes = Append(m.writes, w)
        /\ n.days[d].seek = e /\ n.days[d].buf = NewDayBuffer
        /\ \A k \in Days \ {d} : n.days[k] = m.days[k]
    <3> DEFINE z == WithDay(m, d, NewNode(NewDayBuffer))
               nn == NewNode(NewDayBuffer)
    <3>1. n = UpdateDay(z, d)
      BY <1>9 DEF GetDateNode, WithDay
    <3>2. /\ z \in Memory /\ z.open = m.open /\ z.last = m.last /\ z.writes = m.writes /\ z.eof = m.eof
          /\ z.days[d] = nn /\ z.days \in [Days -> Node(DayBuffer)]
          /\ \A k \in Days \ {d} : z.days[k] = m.days[k]
      <4>1. nn \in Node(DayBuffer)
        BY NewBuffers, NewNodeIs
      <4> HIDE DEF nn
      <4>2. z = [m EXCEPT !.days[d] = nn]
        BY DEF WithDay, nn
      <4> HIDE DEF z
      <4> QED  BY <1>1, <4>1, <4>2 DEF Memory
    <3> HIDE DEF z, n
    <3>3. nn.dirty /\ nn.seek = 0 /\ nn.buf = NewDayBuffer /\ nn \in Node(DayBuffer)
      BY NewBuffers, NewNodeIs DEF NewNode
    <3> HIDE DEF nn
    <3>4. LET r == UpdateDay(z, d) IN
          /\ r.open = z.open /\ r.last = z.last
          /\ r.writes = Append(z.writes, [at |-> z.eof + 1, buf |-> z.days[d].buf])
          /\ r.days[d].seek = z.eof + 1 /\ r.days[d].buf = z.days[d].buf
          /\ \A k \in Days \ {d} : r.days[k] = z.days[k]
      BY <1>9, <3>2, <3>3, PlaceForDay
    <3> QED  BY <3>1, <3>2, <3>3, <3>4
  <2>2. e \in Nat /\ e > 0 /\ EntriesOK(K, X, e, NewDayBuffer) /\ w \in Write /\ w.at = e /\ w.buf = NewDayBuffer
    <3>1. m.eof \in Nat
      BY <1>1, MemoryParts
    <3> QED  BY <3>1, NewDayLinks, NewBuffers DEF Write
  <2> HIDE DEF n, w, e
  <2>3. QueueLinks(L, X, F, n.writes)
    <3>1. OneMore(K, X, m, n)
      BY <2>1, <2>2 DEF OneMore
    <3> QED  BY <1>1, <1>4, <1>9, <3>1, QueueMore DEF Links
  <2>4. \A k \in Days : LoadedOK(L, X, n.days[k])
    <3> SUFFICES ASSUME NEW k \in Days PROVE LoadedOK(L, X, n.days[k])
      OBVIOUS
    <3>1. CASE k = d
      <4>1. EntriesOK(L, X, e, NewDayBuffer)
        BY <1>1, <1>4, <2>2, EntriesOn
      <4> QED  BY <2>1, <2>2, <3>1, <4>1 DEF LoadedOK
    <3>2. CASE k # d
      <4>1. LoadedOK(K, X, m.days[k]) /\ n.days[k] = m.days[k]
        BY <1>1, <1>9, <2>1, <3>2 DEF Links, MemoryLinks
      <4> QED  BY <1>1, <1>4, <4>1, EntriesOn DEF LoadedOK
    <3> QED  BY <3>1, <3>2
  <2>5. LastOK(n)
    <3>1. m.last.day \in Days \cup {-1} /\ LastOK(m)
      BY <1>1, <1>9 DEF Memory, File, Links, MemoryLinks
    <3>2. m.last.day # -1 => n.days[m.last.day] = m.days[m.last.day]
      BY <1>7, <1>9, <2>1, <3>1
    <3> QED  BY <2>1, <3>1, <3>2, Zenon DEF LastOK, LastIn
  <2>6. Linked(L, D, F, X, n)
    BY <1>4, <2>3, <2>4, <2>5 DEF Linked, Links, MemoryLinks
  <2> QED  BY <1>4, <2>6 DEF n
<1> QED  BY <1>3, <1>6, <1>8, <1>9

LEMMA WithNodesLinks ==
  ASSUME NEW K, NEW D, NEW m, FileOK(K, D, Flushed), NEW X, FileLinks(K, X, Flushed),
         m.open => OnlyChannelNew(K, Len(Flushed.nodes)),
         Linked(K, D, Len(Flushed.nodes), X, m), m.chan.loaded, m.chan.buf.base # 0,
         NEW c \in Clips, Day(c.start) \in D, HasYear(m, c.start)
  PROVE  \E L \in Seq(Owner) : Extends(K, L) /\ Linked(L, D, Len(Flushed.nodes), X, WithNodes(m, c))
<1> DEFINE F == Len(Flushed.nodes)
           d == Day(c.start)
           i == Year(c.start) - m.chan.buf.base
           n == GetYearNode(m, i)
           r == GetDateNode(n, d)
<1>1. d \in Days /\ i \in YearIndex /\ i = YearAt(m, d) /\ d \in D
  BY ClipFacts DEF HasYear, YearAt
<1> HIDE DEF i, d
<1>2. Holds(K, D, F, n) /\ n.years[i].loaded /\ Grows(m, n)
  BY <1>1, LinkedOwners, GetYearNodeHolds
<1>3. Linked(K, D, F, X, n)
  BY <1>1, GetYearNodeLinks
<1>4. WithNodes(m, c) = r
  BY DEF WithNodes, r, n, i, d
<1> HIDE DEF n
<1>5. YearAt(n, d) = i /\ n.chan.loaded /\ n.chan.buf.base # 0 /\ (n.open => m.open)
  BY <1>1, <1>2 DEF Grows, YearAt
<1>6. YearAt(n, d) \in YearIndex /\ n.years[YearAt(n, d)].loaded /\ (n.open => OnlyChannelNew(K, F))
  BY <1>1, <1>2, <1>5
<1> HIDE DEF r
<1>7. \E L \in Seq(Owner) : Extends(K, L) /\ Linked(L, D, F, X, GetDateNode(n, d))
  BY <1>1, <1>3, <1>5, <1>6, GetDateNodeLinks
<1> QED  BY <1>4, <1>7 DEF r

-----------------------------------------------------------------------------
(* The links of a new file.  No file with an entry has its slot.           *)
FilesOK(X) ==
  /\ \A x \in X : \E c \in AddedFiles : x.start = c.start
  /\ \A x, y \in X : Day(x.start) = Day(y.start) /\ Slot(x.start) = Slot(y.start) => x = y

Fresh(X, c) == \A x \in X : Day(x.start) # Day(c.start) \/ Slot(x.start) # Slot(c.start)

LEMMA NewFileFresh ==
  ASSUME added \in Seq(Clips), NEW X, FilesOK(X), NEW c \in Clips, c \notin AddedFiles
  PROVE  Fresh(X, c)
<1> SUFFICES ASSUME NEW x \in X, Day(x.start) = Day(c.start), Slot(x.start) = Slot(c.start) PROVE FALSE
  BY DEF Fresh
<1>1. PICK e \in AddedFiles : x.start = e.start
  BY DEF FilesOK
<1>2. e \in Clips
  BY AddedFacts
<1> QED  BY <1>1, <1>2, SlotsDiffer

\* The entries with a file more.
Recorded(c, at, prev) == [start |-> c.start, end |-> c.end, at |-> at, prev |-> prev]
WithFile(X, c, at, prev) == X \cup {Recorded(c, at, prev)}

LEMMA FreshSlot ==
  ASSUME NEW K, NEW X, NEW a, NEW b, EntriesOK(K, X, a, b), NEW c \in Clips, Fresh(X, c),
         Is(K, a, DayNo(Day(c.start)))
  PROVE  b.slot[Slot(c.start)] = EmptySlot
<1> SUFFICES ASSUME b.slot[Slot(c.start)] # EmptySlot PROVE FALSE
  OBVIOUS
<1>1. Slot(c.start) \in SlotIndex
  BY ClipFacts, DayFacts
<1>2. PICK x \in X : Slot(x.start) = Slot(c.start) /\ AtPlace(K, x, a)
  BY <1>1 DEF EntriesOK, SlotOK
<1>3. Day(x.start) = Day(c.start)
  BY <1>2 DEF AtPlace, Is, DayNo
<1> QED  BY <1>2, <1>3 DEF Fresh

LEMMA SetSlotIs ==
  ASSUME NEW b \in DayBuffer, NEW f, f.start \in Nat, NEW place \in Nat \ {0}, NEW prev \in Nat, NEW next \in Nat
  PROVE  LET e == SetSlot(b, place, f, prev, next)
             i == Slot(f.start)
         IN /\ i \in SlotIndex
            /\ e.slot[i] = [start |-> f.start, end |-> f.end,
                            prev |-> IF prev > 0 THEN prev ELSE b.slot[i].prev,
                            next |-> IF next > 0 THEN next ELSE b.slot[i].next]
            /\ \A j \in SlotIndex \ {i} : e.slot[j] = b.slot[j]
            /\ e.last \in {place, b.last}
<1> DEFINE i == Slot(f.start)
           s == [start |-> f.start, end |-> f.end,
                 prev |-> IF prev > 0 THEN prev ELSE b.slot[i].prev,
                 next |-> IF next > 0 THEN next ELSE b.slot[i].next]
           t == [b.slot EXCEPT ![i] = s]
           p == IF place > 0 /\ (b.first = 0 \/ place < b.first) THEN place ELSE b.first
           l == IF place > 0 /\ (b.last = 0 \/ place > b.last) THEN place ELSE b.last
           e == SetSlot(b, place, f, prev, next)
<1>1. i \in SlotIndex
  BY DayFacts
<1>2. e = [b EXCEPT !.slot = t, !.first = p, !.last = l]
  BY <1>1 DEF SetSlot, DayBuffer
<1>3. l \in {place, b.last}
  OBVIOUS
<1> HIDE DEF s, p, l, e, i
<1>4. t[i] = s /\ \A j \in SlotIndex \ {i} : t[j] = b.slot[j]
  BY <1>1 DEF DayBuffer
<1> HIDE DEF t
<1>5. e.slot = t /\ e.last = l
  BY <1>2 DEF DayBuffer
<1> QED  BY <1>1, <1>3, <1>4, <1>5 DEF e, s, i

LEMMA NewEntry ==
  ASSUME NEW K \in Seq(Owner), NEW X, NEW a \in Nat \ {0}, NEW b \in DayBuffer, EntriesOK(K, X, a, b),
         NEW c \in Clips, Fresh(X, c), Is(K, a, DayNo(Day(c.start))),
         NEW f \in File, f.start = c.start, f.end = c.end, NEW prev \in Nat, PrevInOrder(K, a, prev)
  PROVE  LET i == Slot(c.start)
             place == Entry(a, i)
             Y == WithFile(X, c, place, prev)
             e == SetSlot(b, place, f, prev, 0)
         IN /\ EntriesOK(K, Y, a, e) /\ i \in SlotIndex
            /\ e.slot[i].start = c.start /\ e.slot[i].end = c.end
            /\ b.slot[i].start = 0 /\ \A j \in SlotIndex \ {i} : e.slot[j] = b.slot[j]
<1> DEFINE i == Slot(c.start)
           place == Entry(a, i)
           x == Recorded(c, place, prev)
           Y == X \cup {x}
           e == SetSlot(b, place, f, prev, 0)
<1>1. i \in SlotIndex /\ place \in Nat \ {0} /\ NodeOf(place) = a /\ SlotOf(place) = i /\ c.start \in Nat \ {0}
  BY ClipFacts, DayFacts, EntryFacts
<1>2. b.slot[i] = EmptySlot
  BY FreshSlot
<1>3. /\ x.start = c.start /\ x.end = c.end /\ x.at = place /\ x.prev = prev
  BY DEF Recorded
<1> HIDE DEF x, place
<1>4. /\ e.slot[i] = [start |-> c.start, end |-> c.end, prev |-> prev, next |-> 0]
      /\ \A j \in SlotIndex \ {i} : e.slot[j] = b.slot[j]
      /\ e.last \in {place, b.last}
  <2> DEFINE s == [start |-> f.start, end |-> f.end,
                   prev |-> IF prev > 0 THEN prev ELSE b.slot[i].prev,
                   next |-> IF 0 > 0 THEN 0 ELSE b.slot[i].next]
  <2>1. /\ e.slot[i] = s /\ (\A j \in SlotIndex \ {i} : e.slot[j] = b.slot[j]) /\ e.last \in {place, b.last}
    BY <1>1, SetSlotIs
  <2>2. s = [start |-> c.start, end |-> c.end, prev |-> prev, next |-> 0]
    BY <1>2 DEF EmptySlot
  <2> QED  BY <2>1, <2>2
<1> HIDE DEF e
<1>5. SlotOK(K, Y, a, i, e.slot[i])
  <2>1. AtPlace(K, x, a) /\ NextOK(K, Y, x.at, 0)
    BY <1>3 DEF AtPlace, NextOK, place
  <2>2. x \in Y
    OBVIOUS
  <2> QED  BY <1>1, <1>3, <1>4, <2>1, <2>2 DEF SlotOK
<1>6. \A j \in SlotIndex \ {i} : SlotOK(K, Y, a, j, e.slot[j])
  <2> SUFFICES ASSUME NEW j \in SlotIndex \ {i} PROVE SlotOK(K, Y, a, j, b.slot[j])
    BY <1>4
  <2> QED  BY SlotOn, ExtendsSelf DEF EntriesOK
<1>7. e.last # 0 => NodeOf(e.last) = a /\ e.slot[SlotOf(e.last)].start # 0
  <2>1. CASE e.last = place
    BY <1>1, <1>4, <2>1
  <2>2. CASE e.last = b.last /\ e.last # 0
    <3>1. NodeOf(b.last) = a /\ b.slot[SlotOf(b.last)].start # 0 /\ SlotOf(b.last) \in SlotIndex
      BY <2>2, EntryNoFacts DEF EntriesOK, DayBuffer
    <3>2. SlotOf(b.last) # i
      BY <1>2, <3>1 DEF EmptySlot
    <3> QED  BY <1>4, <2>2, <3>1, <3>2
  <2> QED  BY <1>4, <2>1, <2>2
<1>10. \A j \in SlotIndex : InOrder(K, a, e.slot[j])
  <2>1. InOrder(K, a, e.slot[i])
    <3>1. c.start < c.end
      BY FileIndexAssumption
    <3> QED  BY <1>4, <3>1 DEF InOrder, NextInOrder
  <2> QED  BY <1>4, <2>1 DEF EntriesOK
<1>8. EntriesOK(K, Y, a, e)
  BY <1>5, <1>6, <1>7, <1>10 DEF EntriesOK
<1>9. Y = WithFile(X, c, place, prev)
  BY DEF WithFile, x
<1> HIDE DEF Y
<1> QED  BY <1>1, <1>2, <1>4, <1>8, <1>9 DEF e, place, EmptySlot

LEMMA LinkEntry ==
  ASSUME NEW K \in Seq(Owner), NEW X, NEW a \in Nat \ {0}, NEW b \in DayBuffer, EntriesOK(K, X, a, b),
         NEW f \in File, f.start # 0, b.slot[Slot(f.start)].start = f.start,
         b.slot[Slot(f.start)].end = f.end, NEW next \in Nat,
         NextOK(K, X, Entry(a, Slot(f.start)), next), NextInOrder(K, a, next)
  PROVE  LET e == SetSlot(b, Entry(a, Slot(f.start)), f, 0, next)
         IN /\ EntriesOK(K, X, a, e)
            /\ \A j \in SlotIndex : e.slot[j].start = b.slot[j].start /\ e.slot[j].end = b.slot[j].end
<1> DEFINE i == Slot(f.start)
           place == Entry(a, i)
           e == SetSlot(b, place, f, 0, next)
<1>1. f.start \in Nat /\ i \in SlotIndex /\ place \in Nat \ {0}
  <2>1. f.start \in Nat
    BY DEF File
  <2> QED  BY <2>1, DayFacts, EntryFacts
<1>2. /\ e.slot[i] = [start |-> f.start, end |-> f.end, prev |-> b.slot[i].prev,
                      next |-> IF next > 0 THEN next ELSE b.slot[i].next]
      /\ \A j \in SlotIndex \ {i} : e.slot[j] = b.slot[j]
      /\ e.last \in {place, b.last}
  <2> HIDE DEF place
  <2> DEFINE s == [start |-> f.start, end |-> f.end,
                   prev |-> IF 0 > 0 THEN 0 ELSE b.slot[i].prev,
                   next |-> IF next > 0 THEN next ELSE b.slot[i].next]
  <2>1. /\ e.slot[i] = s /\ (\A j \in SlotIndex \ {i} : e.slot[j] = b.slot[j]) /\ e.last \in {place, b.last}
    BY <1>1, SetSlotIs
  <2> QED  BY <2>1
<1>3. NodeOf(place) = a /\ SlotOf(place) = i
  BY <1>1, EntryFacts
<1>4. PICK x \in X : /\ f.start = x.start /\ f.end = x.end /\ b.slot[i].prev = x.prev
                     /\ AtPlace(K, x, a) /\ NextOK(K, X, x.at, b.slot[i].next)
  <2>1. b.slot[i] # EmptySlot /\ SlotOK(K, X, a, i, b.slot[i])
    BY <1>1 DEF EntriesOK, EmptySlot
  <2> QED  BY <2>1 DEF SlotOK
<1>5. x.at = place
  BY <1>4 DEF AtPlace
<1> HIDE DEF e, place
<1>6. NextOK(K, X, x.at, e.slot[i].next)
  BY <1>2, <1>4, <1>5 DEF NextOK, place
<1>7. SlotOK(K, X, a, i, e.slot[i])
  BY <1>2, <1>4, <1>6 DEF SlotOK
<1>8. \A j \in SlotIndex : e.slot[j].start = b.slot[j].start /\ e.slot[j].end = b.slot[j].end
  BY <1>2
<1>9. e.last # 0 => NodeOf(e.last) = a /\ e.slot[SlotOf(e.last)].start # 0
  <2>1. CASE e.last = place
    BY <1>2, <1>3, <2>1
  <2>2. CASE e.last = b.last /\ e.last # 0
    <3>1. NodeOf(b.last) = a /\ b.slot[SlotOf(b.last)].start # 0 /\ SlotOf(b.last) \in SlotIndex
      BY <2>2, EntryNoFacts DEF EntriesOK, DayBuffer
    <3> QED  BY <1>8, <2>2, <3>1
  <2> QED  BY <1>2, <2>1, <2>2
<1>11. \A j \in SlotIndex : InOrder(K, a, e.slot[j])
  <2>1. InOrder(K, a, b.slot[i])
    BY <1>1 DEF EntriesOK
  <2>2. InOrder(K, a, e.slot[i])
    BY <1>2, <2>1 DEF InOrder
  <2> QED  BY <1>2, <2>2 DEF EntriesOK
<1>10. EntriesOK(K, X, a, e)
  BY <1>2, <1>7, <1>9, <1>11 DEF EntriesOK
<1> QED  BY <1>8, <1>10 DEF e, place

-----------------------------------------------------------------------------
(* The links of the memory with a file put into its slot.                  *)
LEMMA SetFileIs ==
  ASSUME NEW m \in Memory, NEW d \in Days, NEW f \in File, Day(f.start) = d, m.days[d].seek > 0, NEW prev, NEW next
  PROVE  LET n == SetFile(m, d, f, prev, next) IN
         /\ (n.open <=> m.open) /\ n.last = m.last /\ n.writes = m.writes
         /\ n.days[d].seek = m.days[d].seek /\ (n.days[d].loaded <=> m.days[d].loaded)
         /\ n.days[d].buf = SetSlot(m.days[d].buf, Entry(m.days[d].seek, Slot(f.start)), f, prev, next)
         /\ \A k \in Days \ {d} : n.days[k] = m.days[k]
<1> DEFINE n == SetFile(m, d, f, prev, next)
           y == m.days[d]
           b == SetSlot(y.buf, Entry(y.seek, Slot(f.start)), f, prev, next)
           z == [y EXCEPT !.dirty = TRUE, !.buf = b]
<1>1. n = [m EXCEPT !.days[d] = z]
  BY DEF SetFile, PlaceOf
<1>2. y \in Node(DayBuffer)
  BY MemoryParts
<1> HIDE DEF b
<1>3. z.seek = y.seek /\ (z.loaded <=> y.loaded) /\ z.buf = b
  BY <1>2 DEF Node
<1> HIDE DEF n, z
<1>4. /\ (n.open <=> m.open) /\ n.last = m.last /\ n.writes = m.writes
      /\ n.days[d] = z /\ \A k \in Days \ {d} : n.days[k] = m.days[k]
  BY <1>1 DEF Memory
<1> QED  BY <1>3, <1>4 DEF n, b

\* The memory with other entries in a day.
LEMMA QueueOn ==
  ASSUME NEW K \in Seq(Owner), NEW X, NEW Y, X \subseteq Y, NEW F, NEW Q, QueueLinks(K, X, F, Q)
  PROVE  QueueLinks(K, Y, F, Q)
<1>1. Extends(K, K)
  BY ExtendsSelf
<1> QED  BY <1>1, EntriesOn DEF QueueLinks, DayLinks

LEMMA PutLinks ==
  ASSUME NEW K, NEW D, NEW F, NEW m, NEW X, Linked(K, D, F, X, m), m.open,
         NEW Y, X \subseteq Y, NEW d \in Days, m.days[d].loaded, NEW n, Holds(K, D, F, n),
         n.last = m.last, n.writes = m.writes, \A k \in Days \ {d} : n.days[k] = m.days[k],
         n.days[d].seek = m.days[d].seek, EntriesOK(K, Y, m.days[d].seek, n.days[d].buf),
         m.last.day = d /\ Day(m.last.start) = d =>
           LET i == Slot(m.last.start) IN
           /\ n.days[d].buf.slot[i].start = m.days[d].buf.slot[i].start
           /\ n.days[d].buf.slot[i].end = m.days[d].buf.slot[i].end
  PROVE  Linked(K, D, F, Y, n)
<1>1. K \in Seq(Owner) /\ MemoryLinks(K, X, m) /\ QueueLinks(K, X, F, m.writes) /\ m \in Memory
  BY LinkedOwners, Zenon DEF Links
<1>2. \A k \in Days : LoadedOK(K, Y, n.days[k])
  <2> SUFFICES ASSUME NEW k \in Days PROVE LoadedOK(K, Y, n.days[k])
    BY Zenon
  <2>1. LoadedOK(K, X, m.days[k])
    BY <1>1, Zenon DEF MemoryLinks
  <2>2. CASE k = d
    BY <2>1, <2>2, Zenon DEF LoadedOK
  <2>3. CASE k # d
    BY <1>1, <2>1, <2>3, ExtendsSelf, EntriesOn, Zenon DEF LoadedOK
  <2> QED  BY <2>2, <2>3, Zenon
<1>3. LastOK(n)
  <2>1. m.last.day \in Days \cup {-1} /\ LastOK(m)
    BY <1>1, Zenon DEF Memory, File, MemoryLinks
  <2>2. CASE m.last.day = d
    <3> DEFINE i == Slot(m.last.start)
    <3>1. CASE d # -1 /\ Day(m.last.start) = d
      <4>1. /\ m.last.seek = Entry(m.days[d].seek, i) /\ m.days[d].buf.slot[i].start = m.last.start
            /\ m.days[d].buf.slot[i].start # 0 /\ m.days[d].buf.slot[i].end = m.last.end
        BY <2>1, <2>2, <3>1, Zenon DEF LastOK, LastIn
      <4>2. /\ n.days[d].buf.slot[i].start = m.days[d].buf.slot[i].start
            /\ n.days[d].buf.slot[i].end = m.days[d].buf.slot[i].end
        BY <2>2, <3>1, Zenon
      <4> QED  BY <2>2, <3>1, <4>1, <4>2, ZenonT(30) DEF LastOK, LastIn
    <3>2. CASE ~(d # -1 /\ Day(m.last.start) = d)
      BY <2>1, <2>2, <3>2, Zenon DEF LastOK, LastIn
    <3> QED  BY <3>1, <3>2, Zenon
  <2>3. CASE m.last.day # d
    <3>1. m.last.day # -1 => n.days[m.last.day] = m.days[m.last.day]
      BY <2>1, <2>3, Zenon
    <3> QED  BY <2>1, <3>1, ZenonT(30) DEF LastOK, LastIn
  <2> QED  BY <2>2, <2>3, Zenon
<1>4. QueueLinks(K, Y, F, n.writes)
  BY <1>1, QueueOn, Zenon
<1> QED  BY <1>2, <1>3, <1>4, Zenon DEF Linked, Links, MemoryLinks

\* A day that is in memory has its place, and its entries are in order.
LEMMA LoadedLinks ==
  ASSUME NEW K, NEW D, NEW F, NEW m, NEW X, Linked(K, D, F, X, m), m.open, NEW d \in Days, m.days[d].loaded
  PROVE  /\ m.days[d].seek \in Nat \ {0} /\ m.days[d].seek > 0 /\ Is(K, m.days[d].seek, DayNo(d))
         /\ m.days[d].buf \in DayBuffer /\ EntriesOK(K, X, m.days[d].seek, m.days[d].buf)
<1>1. m \in Memory /\ MemoryOK(K, D, m)
  BY LinkedOwners
<1>2. m.days[d].seek > 0 /\ EntriesOK(K, X, m.days[d].seek, m.days[d].buf)
  BY DEF Linked, Links, MemoryLinks, LoadedOK
<1>3. m.days[d].seek \in Nat
  BY <1>1, MemoryParts DEF Node
<1>4. NodeOK(K, D, DayNo(d), m.days[d])
  BY <1>1 DEF MemoryOK
<1>5. m.days[d].buf \in DayBuffer
  BY <1>4, DayFits DEF NodeOK
<1>6. Is(K, m.days[d].seek, DayNo(d))
  BY <1>2, <1>3, <1>4 DEF NodeOK, LeadsTo
<1> QED  BY <1>2, <1>3, <1>5, <1>6

\* What a new file asks of the day it is put into, and what its entry then is.
EntryFits(K, D, F, X, m, d, c, f, prev) ==
  /\ D \subseteq Days /\ Linked(K, D, F, X, m) /\ m.open
  /\ d \in Days /\ m.days[d].loaded
  /\ c \in Clips /\ Fresh(X, c) /\ Day(c.start) = d
  /\ f \in File /\ f.start = c.start /\ f.end = c.end
  /\ prev \in Nat /\ PrevInOrder(K, m.days[d].seek, prev)

EntryPut(K, D, F, X, m, d, c, f, prev) ==
  LET n == SetFile(m, d, f, prev, 0)
      place == Entry(m.days[d].seek, Slot(c.start))
      i == Slot(c.start)
  IN /\ Linked(K, D, F, WithFile(X, c, place, prev), n)
     /\ n.days[d].seek = m.days[d].seek /\ (\A k \in Days \ {d} : n.days[k] = m.days[k])
     /\ n.days[d].buf.slot[i].start = c.start /\ n.days[d].buf.slot[i].end = c.end
     /\ i \in SlotIndex

\* A new file gets its entry.
LEMMA PutFirst ==
  ASSUME NEW K, NEW D, NEW F, NEW m, NEW X, NEW d, NEW c, NEW f, NEW prev,
         EntryFits(K, D, F, X, m, d, c, f, prev)
  PROVE  EntryPut(K, D, F, X, m, d, c, f, prev)
<1> SUFFICES ASSUME D \subseteq Days, Linked(K, D, F, X, m), m.open, d \in Days, m.days[d].loaded,
                    c \in Clips, Fresh(X, c), Day(c.start) = d,
                    f \in File, f.start = c.start, f.end = c.end, prev \in Nat,
                    PrevInOrder(K, m.days[d].seek, prev)
             PROVE  EntryPut(K, D, F, X, m, d, c, f, prev)
  BY DEF EntryFits
<1> DEFINE n == SetFile(m, d, f, prev, 0)
           a == m.days[d].seek
           i == Slot(c.start)
           place == Entry(a, i)
           Y == WithFile(X, c, place, prev)
           b == m.days[d].buf
           e == SetSlot(b, place, f, prev, 0)
<1>1. /\ K \in Seq(Owner) /\ m \in Memory /\ Holds(K, D, F, m) /\ c.start \in Nat \ {0} /\ c.end \in Nat
      /\ f.seek \in EntryNo
  BY LinkedOwners, ClipFacts DEF File
<1>2. a \in Nat \ {0} /\ a > 0 /\ Is(K, a, DayNo(d)) /\ b \in DayBuffer /\ EntriesOK(K, X, a, b)
  BY LoadedLinks
<1>3. Holds(K, D, F, n)
  BY <1>1, SetFileHolds
<1>4. /\ (n.open <=> m.open) /\ n.last = m.last /\ n.writes = m.writes
      /\ n.days[d].seek = a /\ n.days[d].buf = e
      /\ \A k \in Days \ {d} : n.days[k] = m.days[k]
  <2>1. Day(f.start) = d /\ Slot(f.start) = i
    OBVIOUS
  <2>2. LET r == SetFile(m, d, f, prev, 0) IN
         /\ (r.open <=> m.open) /\ r.last = m.last /\ r.writes = m.writes
         /\ r.days[d].seek = m.days[d].seek /\ (r.days[d].loaded <=> m.days[d].loaded)
         /\ r.days[d].buf = SetSlot(m.days[d].buf, Entry(m.days[d].seek, Slot(f.start)), f, prev, 0)
         /\ \A k \in Days \ {d} : r.days[k] = m.days[k]
    BY <1>1, <1>2, <2>1, SetFileIs
  <2> QED  BY <2>1, <2>2
<1>5. /\ EntriesOK(K, Y, a, e) /\ i \in SlotIndex
      /\ e.slot[i].start = c.start /\ e.slot[i].end = c.end
      /\ b.slot[i].start = 0 /\ \A j \in SlotIndex \ {i} : e.slot[j] = b.slot[j]
  <2>1. Is(K, a, DayNo(Day(c.start)))
    BY <1>2
  <2>3. /\ a \in Nat \ {0} /\ b \in DayBuffer /\ EntriesOK(K, X, a, b) /\ K \in Seq(Owner)
        /\ PrevInOrder(K, a, prev)
    BY <1>1, <1>2
  <2> HIDE DEF a, b
  <2>2. LET j == Slot(c.start)
            p == Entry(a, j)
            Z == WithFile(X, c, p, prev)
            r == SetSlot(b, p, f, prev, 0)
        IN /\ EntriesOK(K, Z, a, r) /\ j \in SlotIndex
           /\ r.slot[j].start = c.start /\ r.slot[j].end = c.end
           /\ b.slot[j].start = 0 /\ \A k \in SlotIndex \ {j} : r.slot[k] = b.slot[k]
    BY <2>1, <2>3, NewEntry
  <2> QED  BY <2>2
<1>6. m.last.day = d /\ Day(m.last.start) = d =>
        e.slot[Slot(m.last.start)] = b.slot[Slot(m.last.start)]
  <2> SUFFICES ASSUME m.last.day = d, Day(m.last.start) = d
               PROVE  e.slot[Slot(m.last.start)] = b.slot[Slot(m.last.start)]
    OBVIOUS
  <2>1. LastOK(m) /\ m.last.start \in Nat /\ d # -1
    BY <1>1, DaysAreNumbers DEF Linked, Links, MemoryLinks, Memory, File
  <2>2. b.slot[Slot(m.last.start)].start # 0
    BY <2>1, Zenon DEF LastOK, LastIn
  <2>3. Slot(m.last.start) \in SlotIndex
    BY <2>1, DayFacts
  <2> QED  BY <1>5, <2>2, <2>3, Zenon
<1> HIDE DEF n, e, b, place, a
<1>7. Linked(K, D, F, Y, n)
  <2>1. m.last.day = d /\ Day(m.last.start) = d =>
           LET j == Slot(m.last.start) IN
           /\ n.days[d].buf.slot[j].start = m.days[d].buf.slot[j].start
           /\ n.days[d].buf.slot[j].end = m.days[d].buf.slot[j].end
    BY <1>4, <1>6 DEF b
  <2>2. EntriesOK(K, Y, m.days[d].seek, n.days[d].buf) /\ n.days[d].seek = m.days[d].seek
    BY <1>4, <1>5 DEF a
  <2>3. X \subseteq Y
    BY DEF WithFile
  <2> HIDE DEF Y
  <2> QED  BY <1>3, <1>4, <2>1, <2>2, <2>3, PutLinks, Zenon
<1> QED  BY <1>4, <1>5, <1>7 DEF n, place, a, EntryPut

\* The days with their entries, apart from the links.
SameEntries(m, n) ==
  \A k \in Days :
    /\ n.days[k].seek = m.days[k].seek
    /\ \A j \in SlotIndex : /\ n.days[k].buf.slot[j].start = m.days[k].buf.slot[j].start
                            /\ n.days[k].buf.slot[j].end = m.days[k].buf.slot[j].end

\* The last file gets the link to the new one.
LEMMA LinkLast ==
  ASSUME NEW K, NEW D, D \subseteq Days, NEW F, NEW m, NEW X, Linked(K, D, F, X, m), m.open,
         m.last.day \in Days, m.days[m.last.day].loaded, NEW next \in Nat,
         NextOK(K, X, m.last.seek, next), NextInOrder(K, m.days[m.last.day].seek, next)
  PROVE  LET n == SetFile(m, m.last.day, m.last, 0, next) IN
         Linked(K, D, F, X, n) /\ SameEntries(m, n)
<1> DEFINE f == m.last
           d == m.last.day
           n == SetFile(m, d, f, 0, next)
           a == m.days[d].seek
           i == Slot(f.start)
           b == m.days[d].buf
           e == SetSlot(b, Entry(a, i), f, 0, next)
<1>1. /\ K \in Seq(Owner) /\ m \in Memory /\ Holds(K, D, F, m) /\ f \in File
      /\ f.start \in Nat /\ f.end \in Nat /\ f.seek \in EntryNo /\ LastOK(m) /\ d # -1
  <2>1. K \in Seq(Owner) /\ m \in Memory /\ Holds(K, D, F, m)
    BY LinkedOwners
  <2>2. f \in File
    BY <2>1, MemoryParts
  <2>3. f.start \in Nat /\ f.end \in Nat /\ f.seek \in EntryNo
    BY <2>2 DEF File
  <2>4. LastOK(m)
    BY DEF Linked, Links, MemoryLinks
  <2> QED  BY <2>1, <2>2, <2>3, <2>4, DaysAreNumbers
<1>2. CASE Day(f.start) # d
  <2>1. n = m
    BY <1>2 DEF SetFile
  <2>2. Linked(K, D, F, X, n) /\ SameEntries(m, n)
    BY <2>1, Zenon DEF SameEntries
  <2> QED  BY <2>2
<1>3. CASE Day(f.start) = d
  <2>1. a \in Nat \ {0} /\ a > 0 /\ b \in DayBuffer /\ EntriesOK(K, X, a, b)
    BY LoadedLinks
  <2>2. f.seek = Entry(a, i) /\ b.slot[i].start = f.start /\ f.start # 0 /\ b.slot[i].end = f.end
    BY <1>1, <1>3, Zenon DEF LastOK, LastIn
  <2>9. NextInOrder(K, a, next)
    OBVIOUS
  <2>3. Holds(K, D, F, n)
    BY <1>1, SetFileHolds
  <2>4. /\ (n.open <=> m.open) /\ n.last = m.last /\ n.writes = m.writes
        /\ n.days[d].seek = a /\ n.days[d].buf = e
        /\ \A k \in Days \ {d} : n.days[k] = m.days[k]
    <3>1. LET r == SetFile(m, d, f, 0, next) IN
           /\ (r.open <=> m.open) /\ r.last = m.last /\ r.writes = m.writes
           /\ r.days[d].seek = m.days[d].seek /\ (r.days[d].loaded <=> m.days[d].loaded)
           /\ r.days[d].buf = SetSlot(m.days[d].buf, Entry(m.days[d].seek, Slot(f.start)), f, 0, next)
           /\ \A k \in Days \ {d} : r.days[k] = m.days[k]
      <4>1. m \in Memory /\ d \in Days /\ f \in File /\ Day(f.start) = d /\ m.days[d].seek > 0
        BY <1>1, <1>3, <2>1
      <4> HIDE DEF n, e, a, b, i, f, d
      <4> QED  BY <4>1, SetFileIs, SMTT(30)
    <3> QED  BY <3>1, Zenon
  <2> HIDE DEF n, a, b, f, d
  <2>5. /\ EntriesOK(K, X, a, e)
        /\ \A j \in SlotIndex : e.slot[j].start = b.slot[j].start /\ e.slot[j].end = b.slot[j].end
    <3>1. NextOK(K, X, Entry(a, Slot(f.start)), next)
      BY <2>2 DEF f
    <3>3. /\ f.start # 0 /\ b.slot[Slot(f.start)].start = f.start
          /\ b.slot[Slot(f.start)].end = f.end
      BY <2>2
    <3>2. LET r == SetSlot(b, Entry(a, Slot(f.start)), f, 0, next)
          IN /\ EntriesOK(K, X, a, r)
             /\ \A j \in SlotIndex : r.slot[j].start = b.slot[j].start /\ r.slot[j].end = b.slot[j].end
      <4>1. K \in Seq(Owner) /\ f \in File
        BY <1>1
      <4>2. a \in Nat \ {0} /\ b \in DayBuffer /\ EntriesOK(K, X, a, b)
        BY <2>1
      <4> HIDE DEF e, i
      <4> QED  BY <2>9, <3>1, <3>3, <4>1, <4>2, LinkEntry
    <3> QED  BY <3>2
  <2> HIDE DEF e
  <2>6. i \in SlotIndex
    BY <1>1, DayFacts
  <2>7. Linked(K, D, F, X, n)
    <3>1. EntriesOK(K, X, m.days[d].seek, n.days[d].buf) /\ n.days[d].seek = m.days[d].seek
      BY <2>4, <2>5 DEF a
    <3>2. m.last.day = d /\ Day(m.last.start) = d =>
            LET j == Slot(m.last.start) IN
            /\ n.days[d].buf.slot[j].start = m.days[d].buf.slot[j].start
            /\ n.days[d].buf.slot[j].end = m.days[d].buf.slot[j].end
      BY <2>4, <2>5, <2>6 DEF b, f
    <3>3. d \in Days /\ m.days[d].loaded
      BY DEF d
    <3> QED  BY <2>3, <2>4, <3>1, <3>2, <3>3, PutLinks, Zenon
  <2>8. SameEntries(m, n)
    <3> SUFFICES ASSUME NEW k \in Days
                 PROVE /\ n.days[k].seek = m.days[k].seek
                       /\ \A j \in SlotIndex :
                            /\ n.days[k].buf.slot[j].start = m.days[k].buf.slot[j].start
                            /\ n.days[k].buf.slot[j].end = m.days[k].buf.slot[j].end
      BY Zenon DEF SameEntries
    <3>1. CASE k = d
      BY <2>4, <2>5, <3>1, Zenon DEF a, b
    <3>2. CASE k # d
      BY <2>4, <3>2, Zenon
    <3> QED  BY <3>1, <3>2, Zenon
  <2> QED  BY <2>7, <2>8 DEF n, d, f
<1> QED  BY <1>2, <1>3

-----------------------------------------------------------------------------
(* The links with a file more.                                             *)
NewFiles(X, c, Y) == Y = X \/ \E at, prev \in Nat : Y = WithFile(X, c, at, prev)

LEMMA InsertFirstLinks ==
  ASSUME NEW K, NEW D, D \subseteq Days, NEW m, FileOK(K, D, Flushed), NEW X, FileLinks(K, X, Flushed),
         m.open, OnlyChannelNew(K, Len(Flushed.nodes)),
         Linked(K, D, Len(Flushed.nodes), X, m), m.chan.loaded,
         NEW c \in Clips, Day(c.start) \in D, Fresh(X, c)
  PROVE  \E L, Y : L \in Seq(Owner) /\ Extends(K, L) /\ NewFiles(X, c, Y)
                                  /\ Linked(L, D, Len(Flushed.nodes), Y, InsertFirst(m, c))
<1> DEFINE F == Len(Flushed.nodes)
           d == Day(c.start)
           b == SetBase(m, c.start)
           n == WithNodes(b, c)
           g == NewFile(c)
           f == [g EXCEPT !.day = d, !.seek = PlaceOf(n, d, g)]
           s == SetFile(n, d, f, 0, 0)
           r == WithLast(s, f, s.prevDay)
<1>0. /\ F \in Nat /\ K \in Seq(Owner) /\ c.start \in Nat \ {0} /\ c.start \in Nat /\ c.end \in Nat
      /\ d \in Days /\ d \in D /\ d # -1 /\ Holds(K, D, F, m)
  BY ClipFacts, DaysAreNumbers, LinkedOwners DEF FileOK
<1>1. /\ Holds(K, D, F, b) /\ b.chan.loaded /\ b.chan.buf.base # 0
      /\ (b.open <=> m.open) /\ b.last = m.last /\ b.prevDay = m.prevDay
  BY <1>0, SetBaseHolds
<1>2. Linked(K, D, F, X, b) /\ b.open
  BY <1>0, <1>1, SetBaseLinks
<1>3. /\ g.start = c.start /\ g.end = c.end /\ g.seek = 0 /\ g.day = -1 /\ g \in File
  BY <1>0 DEF NewFile, File, EntryNo
<1>4. CASE HasYear(b, c.start)
  <2>1. InsertFirst(m, c) = SaveTree([s EXCEPT !.last = f], d)
    BY <1>4 DEF InsertFirst
  <2> HIDE DEF b
  <2>2. PICK L \in Seq(Owner) : Extends(K, L) /\ Linked(L, D, F, X, n)
    BY <1>1, <1>2, <1>4, WithNodesLinks
  <2>3. n.days[d].loaded /\ n.open
    <3>1. n.days[d].loaded /\ Grows(b, n)
      BY <1>1, <1>4, WithNodesHolds
    <3> QED  BY <1>2, <3>1 DEF Grows
  <2>4. n \in Memory
    BY <2>2, LinkedOwners
  <2> HIDE DEF n, g
  <2> DEFINE a == n.days[d].seek
             i == Slot(c.start)
             place == Entry(a, i)
             Y == WithFile(X, c, place, 0)
  <2>5. a \in Nat /\ a > 0
    BY <1>0, <2>2, <2>3, LoadedLinks
  <2>6. i \in SlotIndex /\ place \in Nat
    BY <1>0, <2>5, DayFacts, EntryFacts
  <2>7. f.start = c.start /\ f.end = c.end /\ f.day = d /\ f.seek = place /\ f \in File
    <3>1. PlaceOf(n, d, g) \in EntryNo
      BY <1>0, <1>3, <2>4, PlaceIsEntry DEF EntryNo
    <3>2. PlaceOf(n, d, g) = place
      BY <1>3, <2>5 DEF PlaceOf
    <3> QED  BY <1>0, <1>3, <3>1, <3>2 DEF File
  <2> HIDE DEF f
  <2>8. EntryPut(L, D, F, X, n, d, c, f, 0)
    <3>1. PrevInOrder(L, n.days[d].seek, 0) /\ 0 \in Nat
      BY DEF PrevInOrder
    <3>2. d = Day(c.start)
      OBVIOUS
    <3> HIDE DEF d, n
    <3>3. EntryFits(L, D, F, X, n, d, c, f, 0)
      BY <1>0, <2>2, <2>3, <2>7, <3>1, <3>2 DEF EntryFits
    <3> QED  BY <3>3, PutFirst
  <2>9. /\ Linked(L, D, F, Y, s) /\ s.days[d].seek = a
        /\ s.days[d].buf.slot[i].start = c.start /\ s.days[d].buf.slot[i].end = c.end
    BY <2>8, Zenon DEF EntryPut
  <2>10. Grows(n, s)
    <3>1. Holds(L, D, F, n) /\ f.start \in Nat /\ f.end \in Nat /\ f.seek \in EntryNo
      BY <1>0, <2>2, <2>7, LinkedOwners DEF File
    <3> QED  BY <1>0, <2>3, <3>1, SetFileHolds
  <2> HIDE DEF s, d
  <2>11. s \in Memory /\ Holds(L, D, F, s) /\ s.open /\ s.chan.loaded /\ s.days[d].loaded
    BY <1>0, <2>3, <2>9, <2>10, LinkedOwners DEF Grows
  <2>12. [s EXCEPT !.last = f] = r /\ s.prevDay \in Days \cup {-1}
    BY <2>11 DEF WithLast, Memory
  <2>13. /\ Holds(L, D, F, r) /\ (r.open <=> s.open) /\ r.chan = s.chan
         /\ r.years = s.years /\ r.days = s.days
         /\ r.last = f /\ r.prevDay = s.prevDay /\ r.writes = s.writes
    <3>1. f.day \in D /\ s.days[f.day].loaded
      BY <1>0, <2>7, <2>11
    <3> QED  BY <2>7, <2>11, <2>12, <3>1, SetLast
  <2> HIDE DEF r
  <2>14. LastOK(r)
    <3>1. r.last.day = d /\ r.last.start = c.start /\ r.last.end = c.end /\ r.last.seek = place
      BY <2>7, <2>13
    <3>2. Day(c.start) = d /\ c.start # 0
      BY <1>0 DEF d
    <3> QED  BY <2>9, <2>13, <3>1, <3>2 DEF LastOK, LastIn
  <2> HIDE DEF Y
  <2>15. Linked(L, D, F, Y, r)
    BY <2>9, <2>11, <2>13, <2>14, SetLastLinks
  <2>16. PICK M \in Seq(Owner) : Extends(L, M) /\ Linked(M, D, F, Y, SaveTree(r, d))
    <3>1. r.days[d].loaded
      BY <2>11, <2>13
    <3> QED  BY <1>0, <2>15, <3>1, SaveTreeLinks
  <2>17. Extends(K, M) /\ InsertFirst(m, c) = SaveTree(r, d)
    BY <1>0, <2>1, <2>2, <2>12, <2>16, ExtendsOn
  <2>18. NewFiles(X, c, Y)
    BY <2>6 DEF NewFiles, Y
  <2> QED  BY <2>16, <2>17, <2>18
<1>5. CASE ~HasYear(b, c.start)
  <2> DEFINE h == WithLast(b, g, b.prevDay)
             e == UpdateRoot(UpdateChannel(h))
  <2>1. b \in Memory
    BY <1>1 DEF Holds, MemoryOK
  <2> HIDE DEF b
  <2>2. [b EXCEPT !.last = g] = h /\ b.prevDay \in Days \cup {-1}
    BY <2>1 DEF WithLast, Memory
  <2>3. /\ Holds(K, D, F, h) /\ (h.open <=> b.open) /\ h.chan = b.chan
        /\ h.years = b.years /\ h.days = b.days
        /\ h.last = g /\ h.prevDay = b.prevDay /\ h.writes = b.writes
    BY <1>1, <1>3, <2>2, SetLast
  <2>4. InsertFirst(m, c) = e
    BY <1>5, <2>2 DEF InsertFirst, b
  <2> HIDE DEF h, g
  <2>5. Linked(K, D, F, X, h)
    <3>1. LastOK(h)
      BY <1>3, <2>3 DEF LastOK, LastIn
    <3> QED  BY <1>2, <2>3, <3>1, SetLastLinks
  <2>6. PICK L \in Seq(Owner) : Extends(K, L) /\ Linked(L, D, F, X, e)
    BY <1>0, <2>5, SaveChannelLinks
  <2> HIDE DEF e
  <2>7. NewFiles(X, c, X)
    BY DEF NewFiles
  <2> QED  BY <2>4, <2>6, <2>7
<1> QED  BY <1>4, <1>5

\* A file put into a day that is not before the last file's keeps the order.
LEMMA LastInOrder ==
  ASSUME NEW K, NEW D, NEW F, NEW n, NEW X, Linked(K, D, F, X, n), n.open,
         NEW d \in Days, n.days[d].loaded, n.last.day \in Days, n.days[n.last.day].loaded, n.last.day <= d
  PROVE  /\ PrevInOrder(K, n.days[d].seek, n.last.seek)
         /\ \A e : NodeOf(e) = n.days[d].seek => NextInOrder(K, n.days[n.last.day].seek, e)
<1> DEFINE last == n.last
           a == n.days[d].seek
           p == n.days[last.day].seek
<1>1. n \in Memory /\ last \in File /\ last.day # -1 /\ LastOK(n)
  <2>1. n \in Memory /\ Links(K, X, F, n)
    BY LinkedOwners
  <2> QED  BY <2>1, MemoryParts, DaysAreNumbers DEF Links, MemoryLinks
<1>2. p \in Nat /\ Is(K, p, DayNo(last.day)) /\ Is(K, a, DayNo(d))
  BY LoadedLinks
<1>3. last.day \in Int /\ d \in Int /\ (last.day < d \/ last.day = d)
  BY DaysAreNumbers
<1>4. p = a \/ DayBefore(K, p, a)
  BY <1>2, <1>3 DEF DayBefore
<1>5. PrevInOrder(K, a, last.seek)
  <2>1. CASE Day(last.start) = last.day
    <3>1. last.seek = Entry(p, Slot(last.start)) /\ Slot(last.start) \in SlotIndex
      <4>1. last.start \in Nat
        BY <1>1 DEF File
      <4> QED  BY <1>1, <2>1, <4>1, DayFacts, Zenon DEF LastOK, LastIn
    <3>2. NodeOf(last.seek) = p
      BY <1>2, <3>1, EntryFacts
    <3> QED  BY <1>4, <3>2 DEF PrevInOrder
  <2>2. CASE Day(last.start) # last.day
    BY <1>1, <2>2, Zenon DEF LastOK, LastIn, PrevInOrder
  <2> QED  BY <2>1, <2>2
<1> QED  BY <1>4, <1>5 DEF NextInOrder

\* What the file after the last one asks of the day it is put into, and what the tree is then.
AfterLast(K, D, F, X, n, d, c, f) ==
  /\ D \subseteq Days /\ Linked(K, D, F, X, n) /\ n.open
  /\ d \in Days /\ n.days[d].loaded
  /\ n.last.day \in Days /\ n.days[n.last.day].loaded /\ n.last.day <= d
  /\ c \in Clips /\ Fresh(X, c)
  /\ f \in File /\ f.start = c.start /\ f.end = c.end /\ f.day = d

EntryAndLinkPut(K, D, F, X, n, d, c, f) ==
  LET linked == SetFile(SetFile(n, d, f, n.last.seek, 0), n.last.day, n.last, 0, f.seek) IN
  \E Y : /\ NewFiles(X, c, Y) /\ Linked(K, D, F, Y, linked)
         /\ LastIn(linked.days, f)

\* A later file gets its entry, when it is of the day d, and the last file the link to it.
LEMMA EntryAndLink ==
  ASSUME NEW K, NEW D, NEW F, NEW n, NEW X, NEW d, NEW c, NEW f, AfterLast(K, D, F, X, n, d, c, f),
         f.seek = IF Day(c.start) = d THEN PlaceOf(n, d, NewFile(c)) ELSE 0
  PROVE  EntryAndLinkPut(K, D, F, X, n, d, c, f)
<1> SUFFICES ASSUME D \subseteq Days, Linked(K, D, F, X, n), n.open,
                    d \in Days, n.days[d].loaded, n.last.day \in Days, n.days[n.last.day].loaded, n.last.day <= d,
                    c \in Clips, Fresh(X, c), f \in File, f.start = c.start, f.end = c.end, f.day = d
             PROVE  LET linked == SetFile(SetFile(n, d, f, n.last.seek, 0), n.last.day, n.last, 0, f.seek) IN
                    \E Y : /\ NewFiles(X, c, Y) /\ Linked(K, D, F, Y, linked)
                           /\ LastIn(linked.days, f)
  BY DEF AfterLast, EntryAndLinkPut
<1> DEFINE last == n.last
           placed == SetFile(n, d, f, last.seek, 0)
           linked == SetFile(placed, last.day, last, 0, f.seek)
           a == n.days[d].seek
           i == Slot(c.start)
           place == Entry(a, i)
           Y == WithFile(X, c, place, last.seek)
           y == Recorded(c, place, last.seek)
<1>1. /\ K \in Seq(Owner) /\ n \in Memory /\ Holds(K, D, F, n) /\ c.start \in Nat \ {0}
      /\ c.start \in Nat /\ c.end \in Nat /\ last \in File /\ d # -1
  BY LinkedOwners, ClipFacts, MemoryParts, DaysAreNumbers
<1>2. last.seek \in EntryNo /\ last.seek \in Nat /\ f.seek \in EntryNo /\ f.start \in Nat /\ f.end \in Nat
  BY <1>1, EntryNoFacts DEF File
<1>3. a \in Nat \ {0} /\ a > 0 /\ a \in Nat /\ Is(K, a, DayNo(d))
  BY LoadedLinks
<1>4. i \in SlotIndex /\ place \in Nat /\ NodeOf(place) = a
  BY <1>1, <1>3, DayFacts, EntryFacts
<1>9. PrevInOrder(K, a, last.seek)
  BY LastInOrder
<1>10. NextInOrder(K, n.days[last.day].seek, place)
  BY <1>4, LastInOrder
<1>5. Grows(n, placed) /\ Holds(K, D, F, placed)
  BY <1>1, <1>2, SetFileHolds
<1>6. placed.open /\ placed.last = last /\ placed.days[last.day].loaded
  BY <1>5 DEF Grows
<1>7. CASE Day(c.start) = d
  <2>1. f.seek = place
    <3>1. NewFile(c).start = c.start
      BY DEF NewFile
    <3> QED  BY <1>3, <1>7, <3>1 DEF PlaceOf
  <2> HIDE DEF placed, linked, place
  <2>2. /\ Linked(K, D, F, Y, placed) /\ placed.days[d].seek = a
        /\ placed.days[d].buf.slot[i].start = c.start /\ placed.days[d].buf.slot[i].end = c.end
        /\ \A k \in Days \ {d} : placed.days[k] = n.days[k]
    <3>0. last.seek \in Nat
      BY <1>2
    <3> DEFINE prev == last.seek
    <3> HIDE DEF prev
    <3>1. PrevInOrder(K, n.days[d].seek, prev) /\ prev \in Nat
      BY <1>9, <3>0 DEF prev
    <3>2. EntryFits(K, D, F, X, n, d, c, f, prev)
      BY <1>7, <3>1 DEF EntryFits
    <3>3. EntryPut(K, D, F, X, n, d, c, f, prev)
      BY <3>2, PutFirst
    <3> QED  BY <3>3, Zenon DEF placed, place, prev, EntryPut
  <2>3. NextOK(K, Y, last.seek, place)
    <3>1. y.start = c.start /\ y.prev = last.seek /\ y.at = place
      BY DEF Recorded
    <3>2. AtPlace(K, y, NodeOf(place))
      BY <1>3, <1>4, <1>7, <3>1 DEF AtPlace, place
    <3>3. y \in Y
      BY DEF WithFile
    <3> HIDE DEF y, Y
    <3> QED  BY <3>1, <3>2, <3>3 DEF NextOK
  <2> HIDE DEF Y
  <2>4. Linked(K, D, F, Y, linked) /\ SameEntries(placed, linked)
    <3>1. LET e == SetFile(placed, placed.last.day, placed.last, 0, place) IN
          Linked(K, D, F, Y, e) /\ SameEntries(placed, e)
      <4>1. NextOK(K, Y, placed.last.seek, place)
        BY <1>6, <2>3
      <4>3. NextInOrder(K, placed.days[placed.last.day].seek, place)
        <5>1. placed.days[last.day].seek = n.days[last.day].seek
          <6>1. CASE last.day = d
            BY <2>2, <6>1
          <6>2. CASE last.day # d
            BY <2>2, <6>2
          <6> QED  BY <6>1, <6>2
        <5> QED  BY <1>6, <1>10, <5>1
      <4>2. placed.last.day \in Days /\ placed.days[placed.last.day].loaded
        BY <1>6
      <4> QED  BY <1>4, <1>6, <2>2, <4>1, <4>2, <4>3, LinkLast, Zenon
    <3>2. linked = SetFile(placed, placed.last.day, placed.last, 0, place)
      BY <1>6, <2>1 DEF linked
    <3> QED  BY <3>1, <3>2
  <2>5. /\ linked.days[d].seek = a
        /\ linked.days[d].buf.slot[i].start = c.start /\ linked.days[d].buf.slot[i].end = c.end
    BY <1>4, <2>2, <2>4, Zenon DEF SameEntries
  <2>6. LastIn(linked.days, f)
    <3>1. /\ f.day = d /\ f.start = c.start /\ f.end = c.end /\ f.seek = place
      BY <2>1
    <3>2. Day(c.start) = d /\ c.start # 0
      BY <1>1, <1>7
    <3>4. place = Entry(linked.days[d].seek, i)
      BY <2>5 DEF place
    <3> HIDE DEF a
    <3> QED  BY <2>5, <3>1, <3>2, <3>4 DEF LastIn
  <2>7. NewFiles(X, c, Y)
    BY <1>2, <1>4 DEF NewFiles, Y
  <2> QED  BY <2>4, <2>6, <2>7 DEF linked, placed
<1>8. CASE Day(c.start) # d
  <2>1. placed = n /\ f.seek = 0
    BY <1>8 DEF SetFile
  <2> HIDE DEF placed
  <2>2. linked = SetFile(n, n.last.day, n.last, 0, 0)
    BY <2>1
  <2>3. NextOK(K, X, n.last.seek, 0) /\ NextInOrder(K, n.days[n.last.day].seek, 0)
    BY DEF NextOK, NextInOrder
  <2>4. Linked(K, D, F, X, linked)
    <3>1. LET e == SetFile(n, n.last.day, n.last, 0, 0) IN
          Linked(K, D, F, X, e) /\ SameEntries(n, e)
      BY <2>3, LinkLast
    <3> QED  BY <2>2, <3>1
  <2> HIDE DEF linked
  <2>5. LastIn(linked.days, f)
    <3>1. f.day = d /\ f.start = c.start /\ f.seek = 0
      BY <2>1
    <3> QED  BY <1>8, <3>1 DEF LastIn
  <2>6. NewFiles(X, c, X)
    BY DEF NewFiles
  <2> QED  BY <2>4, <2>5, <2>6 DEF linked, placed
<1> QED  BY <1>7, <1>8

LEMMA InsertAfterLinks ==
  ASSUME NEW K, NEW D, D \subseteq Days, NEW m, FileOK(K, D, Flushed), NEW X, FileLinks(K, X, Flushed),
         m.open, OnlyChannelNew(K, Len(Flushed.nodes)),
         Linked(K, D, Len(Flushed.nodes), X, m),
         NEW c \in Clips, Day(c.start) \in D, Fresh(X, c), m.last.day # -1,
         \A k \in D : k <= Day(c.start)
  PROVE  \E L, Y : L \in Seq(Owner) /\ Extends(K, L) /\ NewFiles(X, c, Y)
                                  /\ Linked(L, D, Len(Flushed.nodes), Y, InsertAfter(m, c))
<1> DEFINE F == Len(Flushed.nodes)
           has == HasYear(m, c.start)
           last == m.last
           n == IF has THEN WithNodes(m, c) ELSE m
           d == IF has THEN Day(c.start) ELSE last.day
           g == NewFile(c)
           seek == IF Day(c.start) = d THEN PlaceOf(n, d, g) ELSE 0
           f == [g EXCEPT !.day = d, !.seek = seek]
           linked == SetFile(SetFile(n, d, f, last.seek, 0), last.day, last, 0, f.seek)
           r == WithLast(linked, f, last.day)
           u == UpdateLastDay(r, last, d)
           e == SaveTree(u, d)
<1>1. /\ F \in Nat /\ K \in Seq(Owner) /\ c.start \in Nat /\ c.end \in Nat /\ Day(c.start) \in Days
      /\ m \in Memory /\ MemoryOK(K, D, m) /\ Holds(K, D, F, m)
  BY ClipFacts, LinkedOwners DEF FileOK
<1>2. /\ last.day \in Days /\ last.day \in D /\ m.days[last.day].loaded
      /\ m.chan.loaded /\ m.chan.buf.base # 0
  <2>1. last \in File /\ last.day \in D /\ m.days[last.day].loaded
    BY <1>1 DEF Memory, MemoryOK
  <2>2. last.day \in Days
    BY <2>1
  <2>3. m.chan.loaded /\ YearAt(m, last.day) \in YearIndex /\ m.years[YearAt(m, last.day)].loaded
    BY <1>1, <2>1, <2>2 DEF MemoryOK
  <2> QED  BY <1>1, <2>1, <2>2, <2>3 DEF MemoryOK
<1>3. /\ g.start = c.start /\ g.end = c.end /\ g.seek = 0 /\ g.day = -1 /\ g \in File
  BY <1>1 DEF NewFile, File, EntryNo
<1>4. InsertAfter(m, c) = SaveTree(UpdateLastDay([linked EXCEPT !.last = f, !.prevDay = last.day], last, d), d)
  BY DEF InsertAfter
<1>5. d \in Days /\ d \in D
  BY <1>1, <1>2
<1>6. n.days[d].loaded /\ Grows(m, n)
  <2>1. CASE has
    BY <1>1, <1>2, <2>1, WithNodesHolds
  <2>2. CASE ~has
    <3>1. Grows(m, m)
      BY <1>2 DEF Grows
    <3> QED  BY <1>1, <1>2, <2>2, <3>1
  <2> QED  BY <2>1, <2>2
<1>7. PICK L \in Seq(Owner) : Extends(K, L) /\ Linked(L, D, F, X, n)
  <2>1. CASE has
    BY <1>1, <1>2, <2>1, WithNodesLinks
  <2>2. CASE ~has
    BY <1>1, <2>2, ExtendsSelf
  <2> QED  BY <2>1, <2>2
<1>8. n \in Memory /\ Holds(L, D, F, n) /\ n.open /\ n.last = last /\ n.days[last.day].loaded
  BY <1>2, <1>6, <1>7, LinkedOwners DEF Grows
<1>81. (has => Day(c.start) = d) /\ (~has => last.day = d)
  OBVIOUS
<1> HIDE DEF n
<1>9. f.start = c.start /\ f.end = c.end /\ f.day = d /\ f.seek = seek /\ f \in File
  <2> HIDE DEF d, g
  <2>1. seek \in EntryNo
    BY <1>1, <1>3, <1>5, <1>8, PlaceIsEntry DEF EntryNo
  <2> HIDE DEF seek
  <2> QED  BY <1>3, <1>5, <2>1 DEF File
<1>10. PICK Y : /\ NewFiles(X, c, Y) /\ Linked(L, D, F, Y, linked)
                /\ LastIn(linked.days, f)
  <2>1. f.seek = IF Day(c.start) = d THEN PlaceOf(n, d, NewFile(c)) ELSE 0
    BY <1>9
  <2>4. n.last.day <= d
    <3>1. last.day \in Nat /\ last.day <= Day(c.start)
      BY <1>1, <1>2, DaysAreNumbers
    <3> QED  BY <1>8, <1>81, <3>1
  <2> HIDE DEF f, d, has, last
  <2>2. n.last.day \in Days /\ n.days[n.last.day].loaded
    BY <1>2, <1>8
  <2>3. EntryAndLinkPut(L, D, F, X, n, d, c, f)
    <3>0. D \subseteq Days /\ Fresh(X, c) /\ c \in Clips
      OBVIOUS
    <3>1. d \in Days /\ n.days[d].loaded /\ Linked(L, D, F, X, n) /\ n.open
      BY <1>5, <1>6, <1>7, <1>8
    <3>2. f \in File /\ f.start = c.start /\ f.end = c.end /\ f.day = d
      BY <1>9
    <3> HIDE DEF F
    <3>3. AfterLast(L, D, F, X, n, d, c, f)
      BY <2>2, <2>4, <3>0, <3>1, <3>2, Zenon DEF AfterLast
    <3> QED  BY <2>1, <3>3, EntryAndLink, Zenon
  <2> QED  BY <1>8, <2>3 DEF EntryAndLinkPut
<1>11. Grows(n, linked)
  <2> HIDE DEF f, d, has, last
  <2> DEFINE placed == SetFile(n, d, f, last.seek, 0)
  <2>0. last \in File
    BY <1>1, MemoryParts DEF last
  <2>1. /\ f.seek \in EntryNo /\ f.seek \in Nat /\ last.seek \in EntryNo /\ last.seek \in Nat
        /\ last.start \in Nat /\ last.end \in Nat /\ f.start \in Nat /\ f.end \in Nat
    BY <1>9, <2>0, EntryNoFacts DEF File
  <2>2. Holds(L, D, F, placed) /\ Grows(n, placed)
    BY <1>5, <1>6, <1>8, <2>1, SetFileHolds
  <2>3. placed.days[last.day].loaded
    BY <1>2, <1>8, <2>2 DEF Grows
  <2> HIDE DEF placed
  <2>4. Grows(placed, SetFile(placed, last.day, last, 0, f.seek))
    BY <1>2, <2>1, <2>2, <2>3, SetFileHolds
  <2>5. linked = SetFile(placed, last.day, last, 0, f.seek)
    BY DEF placed
  <2> HIDE DEF linked
  <2> QED  BY <2>2, <2>4, <2>5, GrowsOn
<1> HIDE DEF linked, f, d, has
<1>12. /\ linked.days[d].loaded /\ linked.days[last.day].loaded /\ linked.chan.loaded
       /\ linked.open /\ Holds(L, D, F, linked)
  BY <1>2, <1>5, <1>6, <1>8, <1>10, <1>11, LinkedOwners DEF Grows
<1>13. [linked EXCEPT !.last = f, !.prevDay = last.day] = r
  BY DEF WithLast
<1>14. /\ Holds(L, D, F, r) /\ (r.open <=> linked.open) /\ r.chan = linked.chan
       /\ r.years = linked.years /\ r.days = linked.days
       /\ r.last = f /\ r.prevDay = last.day /\ r.writes = linked.writes
  <2>1. f.day \in D /\ linked.days[f.day].loaded
    BY <1>5, <1>9, <1>12
  <2> QED  BY <1>2, <1>9, <1>12, <2>1, SetLast
<1> HIDE DEF r
<1>15. Linked(L, D, F, Y, r)
  <2>1. LastOK(r)
    BY <1>10, <1>14 DEF LastOK
  <2> QED  BY <1>10, <1>12, <1>14, <2>1, SetLastLinks
<1>16. r.days[d].loaded /\ r.days[last.day].loaded
  BY <1>12, <1>14
<1>17. PICK M \in Seq(Owner) : Extends(L, M) /\ Linked(M, D, F, Y, u)
  BY <1>1, <1>2, <1>5, <1>15, <1>16, UpdateLastDayLinks
<1>18. u.days[d].loaded
  <2>1. Keeps(r, u)
    BY <1>1, <1>2, <1>5, <1>14, <1>16, UpdateLastDayHolds
  <2> QED  BY <1>5, <1>16, <2>1 DEF Keeps
<1> HIDE DEF u
<1>19. PICK N \in Seq(Owner) : Extends(M, N) /\ Linked(N, D, F, Y, e)
  BY <1>1, <1>5, <1>17, <1>18, SaveTreeLinks
<1>20. InsertAfter(m, c) = e
  BY <1>4, <1>13 DEF u
<1> HIDE DEF e
<1>21. Extends(K, N)
  BY <1>1, <1>7, <1>17, <1>19, ExtendsOn
<1> QED  BY <1>10, <1>19, <1>20, <1>21

LEMMA FileLinksOn ==
  ASSUME NEW K \in Seq(Owner), NEW L \in Seq(Owner), Extends(K, L), NEW X, NEW Y, X \subseteq Y,
         NEW d, FileLinks(K, X, d)
  PROVE  FileLinks(L, Y, d)
BY EntriesOn DEF FileLinks, DayLinks

LEMMA NoLinksClosed ==
  ASSUME NEW L, NEW D, NEW F, NEW X, NEW m, Holds(L, D, F, m), ~m.open
  PROVE  Linked(L, D, F, X, m)
BY DEF Linked, Links

LEMMA InsertedLinks ==
  ASSUME NEW K, NEW D, D \subseteq Days, NEW m, FileOK(K, D, Flushed), m.writes = <<>>,
         NEW X, FileLinks(K, X, Flushed), Linked(K, D, Len(Flushed.nodes), X, m),
         NEW c \in Clips, Day(c.start) \in D, Fresh(X, c), \A k \in D : k <= Day(c.start)
  PROVE  \E L, Y :
            /\ L \in Seq(Owner)
            /\ Extends(K, L) /\ NewFiles(X, c, Y)
            /\ Linked(L, D, Len(Flushed.nodes), Y, Inserted(GetChannelNode(m), c))
<1> DEFINE F == Len(Flushed.nodes)
           n == GetChannelNode(m)
<1>1. F \in Nat /\ K \in Seq(Owner) /\ Holds(K, D, F, m)
  BY LinkedOwners DEF FileOK
<1>2. m.open => DOMAIN K \subseteq 1 .. F
  BY <1>1, NothingToWrite
<1>3. PICK L \in Seq(Owner) : Extends(K, L) /\ Linked(L, D, F, X, n)
                              /\ (\A a \in DOMAIN L : a \in DOMAIN K \/ L[a] = Channel)
  BY <1>2, GetChannelNodeLinks
<1>4. n.chan.loaded /\ (n.open <=> m.open)
  BY <1>1, <1>2, GetChannelNodeHolds
<1> HIDE DEF n
<1>5. n.open => OnlyChannelNew(L, F)
  BY <1>2, <1>3, <1>4 DEF OnlyChannelNew
<1>6. FileOK(L, D, Flushed) /\ FileLinks(L, X, Flushed) /\ Holds(L, D, F, n) /\ NewFiles(X, c, X)
  BY <1>1, <1>3, FileOn, FileLinksOn, LinkedOwners DEF NewFiles
<1>7. CASE n.last = NoFile
  <2>1. CASE n.open
    <3>1. PICK M, Y : M \in Seq(Owner) /\ Extends(L, M) /\ NewFiles(X, c, Y)
                                     /\ Linked(M, D, F, Y, InsertFirst(n, c))
      BY <1>3, <1>4, <1>5, <1>6, <2>1, InsertFirstLinks
    <3>2. Extends(K, M)
      BY <1>1, <1>3, <3>1, ExtendsOn
    <3> QED  BY <1>7, <3>1, <3>2 DEF Inserted, n
  <2>2. CASE ~n.open
    <3>1. PICK M \in Seq(Owner) : Extends(L, M) /\ Holds(M, D, F, InsertFirst(n, c))
      BY <1>4, <1>5, <1>6, InsertFirstHolds
    <3>2. ~InsertFirst(n, c).open
      BY <1>4, <1>5, <1>6, <2>2, InsertFirstHolds
    <3>3. Extends(K, M) /\ Linked(M, D, F, X, InsertFirst(n, c))
      BY <1>1, <1>3, <3>1, <3>2, ExtendsOn, NoLinksClosed
    <3> QED  BY <1>6, <1>7, <3>3 DEF Inserted, n
  <2> QED  BY <2>1, <2>2
<1>8. CASE n.last # NoFile /\ n.last.day = -1
  BY <1>3, <1>6, <1>8 DEF Inserted, n
<1>9. CASE n.last # NoFile /\ n.last.day # -1
  <2>1. CASE n.open
    <3>1. PICK M, Y : M \in Seq(Owner) /\ Extends(L, M) /\ NewFiles(X, c, Y)
                                     /\ Linked(M, D, F, Y, InsertAfter(n, c))
      BY <1>3, <1>5, <1>6, <1>9, <2>1, InsertAfterLinks
    <3>2. Extends(K, M)
      BY <1>1, <1>3, <3>1, ExtendsOn
    <3> QED  BY <1>9, <3>1, <3>2 DEF Inserted, n
  <2>2. CASE ~n.open
    <3>1. PICK M \in Seq(Owner) : Extends(L, M) /\ Holds(M, D, F, InsertAfter(n, c))
      BY <1>5, <1>6, <1>9, InsertAfterHolds
    <3>2. ~InsertAfter(n, c).open
      BY <1>5, <1>6, <1>9, <2>2, InsertAfterHolds
    <3>3. Extends(K, M) /\ Linked(M, D, F, X, InsertAfter(n, c))
      BY <1>1, <1>3, <3>1, <3>2, ExtendsOn, NoLinksClosed
    <3> QED  BY <1>6, <1>9, <3>3 DEF Inserted, n
  <2> QED  BY <2>1, <2>2
<1> QED  BY <1>7, <1>8, <1>9

-----------------------------------------------------------------------------
(* The invariant of the links.                                             *)
LinkInv ==
  /\ added \in Seq(Clips)
  /\ pending = <<>> \/ pending = <<pending[1]>>
  /\ \E K, X : /\ FileOK(K, AddedDays, disk) /\ FileOK(K, AddedDays, Flushed)
               /\ FilesOK(X) /\ FileLinks(K, X, disk) /\ FileLinks(K, X, Flushed)
               /\ Linked(K, AddedDays, Len(Flushed.nodes), X, mem)

LEMMA NewFilesOK ==
  ASSUME added \in Seq(Clips), NEW c \in Clips, added' = Append(added, c),
         NEW X, FilesOK(X), Fresh(X, c), NEW Y, NewFiles(X, c, Y)
  PROVE  FilesOK(Y)' /\ X \subseteq Y
<1>1. AddedFiles' = AddedFiles \cup {c}
  BY AddedMore
<1>2. CASE Y = X
  BY <1>1, <1>2 DEF FilesOK
<1>3. CASE Y # X
  <2>1. PICK at \in Nat, prev \in Nat : Y = WithFile(X, c, at, prev)
    BY <1>3 DEF NewFiles
  <2> DEFINE x == Recorded(c, at, prev)
  <2>2. Y = X \cup {x} /\ x.start = c.start
    BY <2>1 DEF WithFile, Recorded
  <2> HIDE DEF x
  <2>3. \A y \in Y : \E e \in AddedFiles' : y.start = e.start
    BY <1>1, <2>2 DEF FilesOK
  <2>4. \A y, z \in Y : Day(y.start) = Day(z.start) /\ Slot(y.start) = Slot(z.start) => y = z
    BY <2>2 DEF FilesOK, Fresh
  <2> QED  BY <2>2, <2>3, <2>4 DEF FilesOK
<1> QED  BY <1>2, <1>3

\* No file was added on a later day than the one that is added now.
LEMMA DaysInOrder ==
  ASSUME added \in Seq(Clips), NEW c \in Clips, InsertIndex(c)
  PROVE  \A k \in AddedDays \cup {Day(c.start)} : k <= Day(c.start)
<1> SUFFICES ASSUME NEW e \in AddedFiles \cup {c} PROVE Day(e.start) <= Day(c.start)
  BY DEF AddedDays
<1>1. e \in Clips
  BY AddedFacts
<1>2. e.start \in Nat /\ c.start \in Nat /\ e.end \in Nat /\ e.start < e.end
  BY <1>1, FileIndexAssumption
<1>3. e.start <= c.start
  BY <1>2 DEF InsertIndex
<1> QED  BY <1>2, <1>3, DayGrows

LEMMA InsertIndexLinks ==
  ASSUME LinkInv, NEW c \in Clips, InsertIndex(c)
  PROVE  LinkInv'
<1> DEFINE D == AddedDays
           E == AddedDays \cup {Day(c.start)}
           F == Len(Flushed.nodes)
<1>1. /\ mem' = Inserted(GetChannelNode(mem), c) /\ mem.writes = <<>> /\ c \notin AddedFiles
      /\ disk' = disk /\ pending' = pending /\ added' = Append(added, c)
  BY DEF InsertIndex, Inserted
<1>2. added' \in Seq(Clips) /\ AddedDays' = E /\ Flushed' = Flushed
  BY <1>1, AddedMore DEF LinkInv, Flushed
<1>3. E \subseteq Days /\ D \subseteq E /\ Day(c.start) \in E
  BY AddedFacts, ClipFacts DEF LinkInv
<1>4. PICK K, X : /\ FileOK(K, D, disk) /\ FileOK(K, D, Flushed)
                  /\ FilesOK(X) /\ FileLinks(K, X, disk) /\ FileLinks(K, X, Flushed)
                  /\ Linked(K, D, F, X, mem)
  BY DEF LinkInv
<1>5. K \in Seq(Owner) /\ Extends(K, K) /\ Fresh(X, c)
  BY <1>1, <1>4, ExtendsSelf, LinkedOwners, NewFileFresh DEF LinkInv
<1>12. \A k \in E : k <= Day(c.start)
  BY DaysInOrder DEF LinkInv
<1> HIDE DEF D, E, F
<1>6. FileOK(K, E, disk) /\ FileOK(K, E, Flushed) /\ Linked(K, E, F, X, mem)
  BY <1>3, <1>4, <1>5, FileOn, MoreDays DEF Linked
<1>7. PICK L, Y : /\ L \in Seq(Owner) /\ Extends(K, L) /\ NewFiles(X, c, Y)
                  /\ Linked(L, E, F, Y, Inserted(GetChannelNode(mem), c))
  BY <1>1, <1>3, <1>4, <1>5, <1>6, <1>12, InsertedLinks DEF F
<1>8. FilesOK(Y)' /\ X \subseteq Y
  BY <1>1, <1>4, <1>5, <1>7, NewFilesOK DEF LinkInv
<1>9. /\ FileOK(L, E, disk) /\ FileOK(L, E, Flushed)
      /\ FileLinks(L, Y, disk) /\ FileLinks(L, Y, Flushed)
  BY <1>4, <1>5, <1>6, <1>7, <1>8, FileOn, FileLinksOn
<1>10. pending' = <<>> \/ pending' = <<pending'[1]>>
  BY <1>1 DEF LinkInv
<1>11. /\ FileOK(L, AddedDays', disk') /\ FileOK(L, AddedDays', Flushed')
       /\ FileLinks(L, Y, disk') /\ FileLinks(L, Y, Flushed')
       /\ Linked(L, AddedDays', Len(Flushed'.nodes), Y, mem')
  BY <1>1, <1>2, <1>7, <1>9 DEF F
<1> QED  BY <1>2, <1>8, <1>10, <1>11 DEF LinkInv

-----------------------------------------------------------------------------
(* The links while the writes reach the file.                              *)
LEMMA PutNodes ==
  ASSUME NEW K \in Seq(Owner), NEW D, NEW d, FileOK(K, D, d), NEW w \in Write
  PROVE  \A a \in DOMAIN Put(d, w).nodes :
           \/ a \in DOMAIN d.nodes /\ Put(d, w).nodes[a] = d.nodes[a]
           \/ w.at # 0 /\ a = w.at /\ Put(d, w).nodes[a] = w.buf
           \/ w.at # 0 /\ w.at \notin DOMAIN d.nodes /\ a = Len(d.nodes) + 1 /\ Put(d, w).nodes[a] = w.buf
<1> DEFINE n == Put(d, w)
           N == ChannelBuffer \cup YearBuffer \cup DayBuffer
<1>1. d.nodes \in Seq(N) /\ d = [root |-> d.root, nodes |-> d.nodes]
  <2> HIDE DEF N
  <2> QED  BY DEF FileOK, N
<1> HIDE DEF N
<1>2. CASE w.at = 0
  <2>1. n = [d EXCEPT !.root = w.buf]
    BY <1>2 DEF Put
  <2> HIDE DEF n
  <2>2. n.nodes = d.nodes
    BY <1>1, <2>1
  <2> QED  BY <2>2 DEF n
<1>3. CASE w.at # 0 /\ w.at \in DOMAIN d.nodes
  <2>1. n = [d EXCEPT !.nodes[w.at] = w.buf]
    BY <1>3 DEF Put
  <2> DEFINE s == [d.nodes EXCEPT ![w.at] = w.buf]
  <2> HIDE DEF n
  <2>2. n.nodes = s
    BY <1>1, <2>1
  <2>3. \A a \in DOMAIN s : IF a = w.at THEN s[a] = w.buf ELSE a \in DOMAIN d.nodes /\ s[a] = d.nodes[a]
    BY <1>1
  <2> HIDE DEF s
  <2> QED  BY <1>3, <2>2, <2>3 DEF n
<1>4. CASE w.at # 0 /\ w.at \notin DOMAIN d.nodes
  <2>1. n = [d EXCEPT !.nodes = Append(d.nodes, w.buf)]
    BY <1>4 DEF Put
  <2> DEFINE s == Append(d.nodes, w.buf)
  <2> HIDE DEF n
  <2>2. n.nodes = s
    BY <1>1, <2>1
  <2>3. Len(d.nodes) \in Nat /\ DOMAIN d.nodes = 1 .. Len(d.nodes)
        /\ DOMAIN s = 1 .. Len(d.nodes) + 1 /\ s[Len(d.nodes) + 1] = w.buf
        /\ \A a \in 1 .. Len(d.nodes) : s[a] = d.nodes[a]
    BY <1>1
  <2> HIDE DEF s
  <2> QED  BY <1>4, <2>2, <2>3 DEF n
<1> QED  BY <1>2, <1>3, <1>4

LEMMA PutKeepsLinks ==
  ASSUME NEW K \in Seq(Owner), NEW D, NEW d, FileOK(K, D, d), NEW w \in Write, WriteOK(K, D, w),
         Needs(K, w) \subseteq 1 .. Len(d.nodes), NEW X, FileLinks(K, X, d),
         IsLarge(w) => DayLinks(K, X, w.at, w.buf, 1 .. Len(d.nodes))
  PROVE  FileLinks(K, X, Put(d, w))
<1> DEFINE n == Put(d, w)
           F == Len(d.nodes)
           G == Len(n.nodes)
<1>1. 1 .. G = (1 .. F) \cup ({w.at} \ {0})
  BY PutFacts
<1>2. \A a \in DOMAIN n.nodes :
           \/ a \in DOMAIN d.nodes /\ n.nodes[a] = d.nodes[a]
           \/ w.at # 0 /\ a = w.at /\ n.nodes[a] = w.buf
           \/ w.at # 0 /\ w.at \notin DOMAIN d.nodes /\ a = F + 1 /\ n.nodes[a] = w.buf
  BY PutNodes
<1>3. F \in Nat /\ G \in Nat /\ DOMAIN d.nodes = 1 .. F /\ DOMAIN n.nodes = 1 .. G /\ w.at \in Nat
  <2> DEFINE N == ChannelBuffer \cup YearBuffer \cup DayBuffer
  <2> HIDE DEF N
  <2>1. d.nodes \in Seq(N)
    BY DEF FileOK, N
  <2>2. FileOK(K, D, n)
    BY PutFacts
  <2>3. n.nodes \in Seq(N)
    BY <2>2 DEF FileOK, N
  <2> QED  BY <2>1, <2>3 DEF Write
<1> HIDE DEF n, F, G
<1>4. ASSUME NEW a \in DOMAIN n.nodes, n.nodes[a].kind = "day"
      PROVE  DayLinks(K, X, a, n.nodes[a], 1 .. G)
  <2>1. CASE a \in DOMAIN d.nodes /\ n.nodes[a] = d.nodes[a]
    <3>1. DayLinks(K, X, a, n.nodes[a], 1 .. F)
      BY <1>4, <2>1 DEF FileLinks, F
    <3> QED  BY <1>1, <3>1 DEF DayLinks
  <2>2. CASE w.at # 0 /\ a = w.at /\ n.nodes[a] = w.buf
    <3>1. IsLarge(w)
      BY <1>3, <1>4, <2>2 DEF IsLarge
    <3> QED  BY <1>1, <2>2, <3>1 DEF DayLinks, F
  <2>3. CASE w.at # 0 /\ w.at \notin DOMAIN d.nodes /\ a = F + 1 /\ n.nodes[a] = w.buf
    <3>1. a = w.at
      BY <1>1, <1>3, <2>3
    <3> QED  BY <2>2, <2>3, <3>1
  <2> QED  BY <1>2, <2>1, <2>2, <2>3
<1> QED  BY <1>4 DEF FileLinks, n, G

\* What is there for a later write is there when the first one is done.
LEMMA ThereTail ==
  ASSUME NEW F \in Nat, NEW Q \in Seq(Write), Q # <<>>,
         NEW G \in Nat, 1 .. G = (1 .. F) \cup ({Head(Q).at} \ {0}),
         NEW n \in 1 .. Len(Tail(Q)) + 1, NEW x, x \in ThereAt(F, Q, n + 1), x # 0
  PROVE  x \in ThereAt(G, Tail(Q), n)
<1> DEFINE R == Tail(Q)
<1>1. /\ Len(R) \in Nat /\ DOMAIN R = 1 .. Len(R)
      /\ (\A k \in 1 .. Len(R) : R[k] = Q[k + 1]) /\ Head(Q) = Q[1]
  OBVIOUS
<1> HIDE DEF R
<1>2. CASE x \in 1 .. F
  BY <1>2 DEF ThereAt, R
<1>3. CASE \E k \in 1 .. (n + 1) - 1 : x = Q[k].at
  <2>1. PICK k \in 1 .. (n + 1) - 1 : x = Q[k].at
    BY <1>3
  <2>2. CASE k = 1
    BY <1>1, <2>1, <2>2 DEF ThereAt
  <2>3. CASE k # 1
    <3>1. k - 1 \in 1 .. n - 1 /\ k - 1 \in 1 .. Len(R) /\ (k - 1) + 1 = k
      BY <1>1, <2>1, <2>3 DEF R
    <3>2. x = R[k - 1].at
      BY <1>1, <2>1, <3>1
    <3> QED  BY <3>1, <3>2 DEF ThereAt, R
  <2> QED  BY <2>2, <2>3
<1> QED  BY <1>2, <1>3 DEF ThereAt

LEMMA QueueTailLinks ==
  ASSUME NEW K \in Seq(Owner), NEW X, NEW F \in Nat, NEW Q \in Seq(Write), Q # <<>>, QueueLinks(K, X, F, Q),
         NEW G \in Nat, 1 .. G = (1 .. F) \cup ({Head(Q).at} \ {0})
  PROVE  QueueLinks(K, X, G, Tail(Q))
<1> DEFINE R == Tail(Q)
<1>1. /\ Len(R) \in Nat /\ DOMAIN R = 1 .. Len(R) /\ DOMAIN Q = 1 .. Len(R) + 1
      /\ (\A k \in 1 .. Len(R) : R[k] = Q[k + 1])
  OBVIOUS
<1>2. ASSUME NEW n \in DOMAIN R, IsLarge(R[n])
      PROVE  DayLinks(K, X, R[n].at, R[n].buf, ThereAt(G, R, n))
  <2>1. n + 1 \in DOMAIN Q /\ R[n] = Q[n + 1] /\ n \in 1 .. Len(R) + 1
    BY <1>1
  <2> HIDE DEF R
  <2>2. DayLinks(K, X, R[n].at, R[n].buf, ThereAt(F, Q, n + 1))
    BY <1>2, <2>1 DEF QueueLinks
  <2>3. LinksTo(R[n].buf) \subseteq DOMAIN K
    BY <2>2, LinksThere DEF DayLinks
  <2>4. 0 \notin DOMAIN K
    OBVIOUS
  <2>5. \A x \in ThereAt(F, Q, n + 1) : x # 0 => x \in ThereAt(G, R, n)
    BY <2>1, ThereTail DEF R
  <2> QED  BY <2>2, <2>3, <2>4, <2>5 DEF DayLinks
<1> QED  BY <1>2 DEF QueueLinks

LEMMA WriteNodeLinks ==
  ASSUME LinkInv, WriteNode
  PROVE  LinkInv'
<1> DEFINE D == AddedDays
           w == Head(mem.writes)
           q == Tail(mem.writes)
           F == Len(Flushed.nodes)
           G == Len(Put(Flushed, w).nodes)
<1>1. PICK K, X : /\ FileOK(K, D, disk) /\ FileOK(K, D, Flushed)
                  /\ FilesOK(X) /\ FileLinks(K, X, disk) /\ FileLinks(K, X, Flushed)
                  /\ Linked(K, D, F, X, mem)
  BY DEF LinkInv
<1>2. /\ mem.writes # <<>> /\ mem' = [mem EXCEPT !.writes = q] /\ added' = added /\ AddedDays' = D
      /\ AddedFiles' = AddedFiles
  BY DEF WriteNode, AddedDays, AddedFiles
<1>3. K \in Seq(Owner) /\ MemoryOK(K, D, mem) /\ mem.writes \in Seq(Write) /\ QueueOK(K, D, F, mem.writes)
      /\ mem.open /\ Owners(K, D) /\ mem \in Memory
      /\ MemoryLinks(K, X, mem) /\ QueueLinks(K, X, F, mem.writes)
  BY <1>1, <1>2, LinkedOwners, MemoryParts DEF Holds, Linked, Links
<1>4. F \in Nat /\ w \in Write /\ mem.writes[1] = w /\ 1 \in DOMAIN mem.writes
  <2> DEFINE N == ChannelBuffer \cup YearBuffer \cup DayBuffer
  <2> HIDE DEF N
  <2>1. Flushed.nodes \in Seq(N)
    BY <1>1 DEF FileOK, N
  <2> QED  BY <1>2, <1>3, <2>1
<1>5. WriteOK(K, D, w) /\ Needs(K, w) \subseteq 1 .. F
  BY <1>3, <1>4 DEF QueueOK, ThereAt
<1>6. FileOK(K, D, Put(Flushed, w)) /\ 1 .. G = (1 .. F) \cup ({w.at} \ {0})
  BY <1>1, <1>3, <1>4, <1>5, PutFacts
<1>7. G \in Nat
  <2> DEFINE N == ChannelBuffer \cup YearBuffer \cup DayBuffer
  <2> HIDE DEF N
  <2>1. Put(Flushed, w).nodes \in Seq(N)
    BY <1>6 DEF FileOK, N
  <2> QED  BY <2>1
<1>8. QueueOK(K, D, G, q) /\ q \in Seq(Write) /\ QueueLinks(K, X, G, q)
  BY <1>2, <1>3, <1>4, <1>6, <1>7, QueueTail, QueueTailLinks
<1>9. FileLinks(K, X, Put(Flushed, w))
  <2>0. ThereAt(F, mem.writes, 1) = 1 .. F
    BY DEF ThereAt
  <2> HIDE DEF w, F
  <2>1. IsLarge(w) => DayLinks(K, X, w.at, w.buf, 1 .. F)
    BY <1>3, <1>4, <2>0 DEF QueueLinks
  <2> QED  BY <1>1, <1>3, <1>4, <1>5, <2>1, PutKeepsLinks DEF F
<1>10. Flushed' = Put(Flushed, w) /\ (pending' = <<>> \/ pending' = <<pending'[1]>>)
       /\ disk' \in {Flushed, Put(Flushed, w)}
  <2>1. CASE IsLarge(w)
    BY <2>1 DEF WriteNode, Flushed
  <2>2. CASE ~IsLarge(w)
    <3>1. disk' = Flushed /\ pending' = <<w>>
      BY <2>2 DEF WriteNode
    <3>2. pending' # <<>> /\ pending'[1] = w /\ pending' = <<pending'[1]>>
      BY <3>1
    <3>3. Flushed' = Put(disk', pending'[1])
      BY <3>2 DEF Flushed
    <3> QED  BY <3>1, <3>2, <3>3
  <2> QED  BY <2>1, <2>2
<1>11. FileOK(K, D, disk') /\ FileLinks(K, X, disk')
  BY <1>1, <1>6, <1>9, <1>10
<1> HIDE DEF q, w
<1>12. Linked(K, D, G, X, mem')
  <2>1. MemoryOK(K, D, mem') /\ mem'.open /\ mem'.writes = q
    <3>1. MemoryOK(K, D, mem) /\ mem.open
      BY <1>3
    <3> QED  BY <1>2, <1>8, <3>1, SetWrites
  <2>2. Holds(K, D, G, mem')
    BY <1>3, <1>8, <2>1 DEF Holds
  <2>3. mem'.days = mem.days /\ mem'.last = mem.last
    BY <1>2, <1>3 DEF Memory
  <2>4. MemoryLinks(K, X, mem')
    BY <1>3, <2>3 DEF MemoryLinks, LastOK
  <2> QED  BY <1>8, <2>1, <2>2, <2>4 DEF Linked, Links
<1>13. added' \in Seq(Clips) /\ FilesOK(X)'
  BY <1>1, <1>2 DEF LinkInv, FilesOK
<1>14. /\ FileOK(K, AddedDays', disk') /\ FileOK(K, AddedDays', Flushed')
       /\ FileLinks(K, X, disk') /\ FileLinks(K, X, Flushed')
       /\ Linked(K, AddedDays', Len(Flushed'.nodes), X, mem')
  BY <1>2, <1>6, <1>9, <1>10, <1>11, <1>12
<1> QED  BY <1>10, <1>13, <1>14 DEF LinkInv

LEMMA WriteFailsLinks ==
  ASSUME LinkInv, WriteFails
  PROVE  LinkInv'
<1> DEFINE D == AddedDays
           F == Len(Flushed.nodes)
           closed == [mem EXCEPT !.writes = <<>>, !.open = FALSE]
<1>1. PICK K, X : /\ FileOK(K, D, disk) /\ FileOK(K, D, Flushed)
                  /\ FilesOK(X) /\ FileLinks(K, X, disk) /\ FileLinks(K, X, Flushed)
                  /\ Linked(K, D, F, X, mem)
  BY DEF LinkInv
<1>2. /\ disk' \in {disk, Flushed} /\ pending' = <<>> /\ mem' = closed /\ Flushed' = disk'
      /\ added' = added /\ AddedDays' = D /\ AddedFiles' = AddedFiles
  BY DEF WriteFails, AddedDays, AddedFiles, Flushed
<1>3. MemoryOK(K, D, closed) /\ ~closed.open /\ closed.writes = <<>> /\ Owners(K, D)
  <2>1. MemoryOK(K, D, mem) /\ Owners(K, D)
    BY <1>1, LinkedOwners DEF Holds
  <2> QED  BY <2>1, CloseFile
<1>4. Linked(K, D, Len(disk'.nodes), X, closed)
  BY <1>3 DEF Holds, Linked, Links
<1> HIDE DEF closed
<1>5. FileOK(K, D, disk') /\ FileLinks(K, X, disk')
  BY <1>1, <1>2
<1>6. added' \in Seq(Clips) /\ FilesOK(X)'
  BY <1>1, <1>2 DEF LinkInv, FilesOK
<1> QED  BY <1>2, <1>4, <1>5, <1>6 DEF LinkInv

\* A new process has no links in memory, and the file leads to what is in it.
LEMMA NewMemoryLinks ==
  ASSUME NEW K, NEW D, Owners(K, D), NEW d, FileOK(K, D, d), NEW X, FileLinks(K, X, d)
  PROVE  \E L : FileOK(L, D, d) /\ FileLinks(L, X, d) /\ Linked(L, D, Len(d.nodes), X, NewMemory(d))
<1> DEFINE F == Len(d.nodes)
           m == NewMemory(d)
<1>1. PICK L : FileOK(L, D, d) /\ Holds(L, D, F, m) /\ L = FirstOf(K, F)
  BY NewMemoryIs
<1>2. F \in Nat /\ DOMAIN d.nodes = 1 .. F /\ F <= Len(K) /\ DOMAIN K = 1 .. Len(K) /\ Len(K) \in Nat
      /\ K \in Seq(Owner)
  <2> DEFINE N == ChannelBuffer \cup YearBuffer \cup DayBuffer
  <2> HIDE DEF N
  <2>1. d.nodes \in Seq(N)
    BY DEF FileOK, N
  <2> QED  BY <2>1 DEF Owners, FileOK
<1>3. ASSUME NEW x, NEW a \in 1 .. F, AtPlace(K, x, a) PROVE AtPlace(L, x, a)
  BY <1>1, <1>2, <1>3 DEF AtPlace, Is, FirstOf
<1>4. ASSUME NEW a \in DOMAIN d.nodes, d.nodes[a].kind = "day"
      PROVE  DayLinks(L, X, a, d.nodes[a], 1 .. F)
  <2> DEFINE b == d.nodes[a]
  <2>1. EntriesOK(K, X, a, b) /\ LinksTo(b) \subseteq 1 .. F
    BY <1>4 DEF FileLinks, DayLinks
  <2> HIDE DEF b
  <2>2. ASSUME NEW i \in SlotIndex PROVE SlotOK(L, X, a, i, b.slot[i])
    <3> DEFINE s == b.slot[i]
    <3>1. SlotOK(K, X, a, i, s) /\ (s.next # 0 => NodeOf(s.next) \in 1 .. F)
      BY <2>1 DEF EntriesOK, LinksTo
    <3> HIDE DEF s
    <3>2. CASE s = EmptySlot
      BY <3>2 DEF SlotOK, s
    <3>3. CASE s # EmptySlot
      <4>1. PICK x \in X : /\ s.start = x.start /\ s.end = x.end /\ s.prev = x.prev /\ s.start # 0
                           /\ Slot(x.start) = i /\ AtPlace(K, x, a) /\ NextOK(K, X, x.at, s.next)
        BY <3>1, <3>3 DEF SlotOK
      <4>2. AtPlace(L, x, a)
        BY <1>2, <1>3, <4>1
      <4>3. NextOK(L, X, x.at, s.next)
        BY <1>3, <3>1, <4>1 DEF NextOK
      <4> QED  BY <4>1, <4>2, <4>3 DEF SlotOK, s
    <3> QED  BY <3>2, <3>3
  <2>3. b.last # 0 => NodeOf(b.last) = a /\ b.slot[SlotOf(b.last)].start # 0
    BY <2>1 DEF EntriesOK
  <2>5. ASSUME NEW i \in SlotIndex PROVE InOrder(L, a, b.slot[i])
    <3> DEFINE s == b.slot[i]
    <3>1. /\ InOrder(K, a, s) /\ (s.next # 0 => NodeOf(s.next) \in 1 .. F)
          /\ (s.prev # 0 => NodeOf(s.prev) \in 1 .. F) /\ a \in 1 .. F
      BY <1>2, <2>1 DEF EntriesOK, LinksTo
    <3>2. \A p, q \in 1 .. F : DayBefore(K, p, q) => DayBefore(L, p, q)
      BY <1>1, <1>2 DEF DayBefore, Is, FirstOf
    <3> HIDE DEF s
    <3> QED  BY <3>1, <3>2 DEF InOrder, PrevInOrder, NextInOrder, s
  <2>4. EntriesOK(L, X, a, b)
    BY <2>2, <2>3, <2>5 DEF EntriesOK
  <2> QED  BY <2>1, <2>4 DEF DayLinks, b
<1>5. FileLinks(L, X, d)
  BY <1>4 DEF FileLinks
<1>6. Linked(L, D, F, X, m)
  <2>1. (\A x \in Days : m.days[x] = NoNode) /\ m.last = NoFile /\ m.writes = <<>>
    BY DEF NewMemory
  <2>2. ~NoNode.loaded /\ NoFile.day = -1
    BY DEF NoNode, NoFile
  <2> HIDE DEF m
  <2>3. MemoryLinks(L, X, m)
    BY <2>1, <2>2 DEF MemoryLinks, LoadedOK, LastOK, LastIn
  <2>4. QueueLinks(L, X, F, m.writes)
    BY <2>1 DEF QueueLinks
  <2> QED  BY <1>1, <2>3, <2>4 DEF Linked, Links
<1> QED  BY <1>1, <1>5, <1>6

\* The new process starts from what is in the file, e.
LEMMA NewProcessLinks ==
  ASSUME LinkInv, NEW e, e = disk \/ e = Flushed,
         disk' = e, pending' = <<>>, mem' = NewMemory(e), added' = added
  PROVE  LinkInv'
<1> DEFINE D == AddedDays
<1>1. PICK K, X : /\ FileOK(K, D, disk) /\ FileOK(K, D, Flushed)
                  /\ FilesOK(X) /\ FileLinks(K, X, disk) /\ FileLinks(K, X, Flushed)
                  /\ Linked(K, D, Len(Flushed.nodes), X, mem)
  BY DEF LinkInv
<1>2. Flushed' = e /\ AddedDays' = D /\ AddedFiles' = AddedFiles
  BY DEF AddedDays, AddedFiles, Flushed
<1>3. Owners(K, D) /\ FileOK(K, D, e) /\ FileLinks(K, X, e)
  <2>1. Owners(K, D)
    BY <1>1, LinkedOwners DEF Holds
  <2> QED  BY <1>1, <2>1
<1>4. PICK L : FileOK(L, D, e) /\ FileLinks(L, X, e) /\ Linked(L, D, Len(e.nodes), X, NewMemory(e))
  BY <1>3, NewMemoryLinks
<1>5. added' \in Seq(Clips) /\ FilesOK(X)'
  BY <1>1, <1>2 DEF LinkInv, FilesOK
<1>6. /\ FileOK(L, AddedDays', disk') /\ FileOK(L, AddedDays', Flushed')
      /\ FileLinks(L, X, disk') /\ FileLinks(L, X, Flushed')
      /\ Linked(L, AddedDays', Len(Flushed'.nodes), X, mem')
  BY <1>2, <1>4
<1> QED  BY <1>5, <1>6 DEF LinkInv

LEMMA InitLinks == Init => LinkInv
<1> SUFFICES ASSUME Init PROVE LinkInv
  OBVIOUS
<1> DEFINE D == AddedDays
<1>1. disk = [root |-> 0, nodes |-> <<>>] /\ pending = <<>> /\ mem = NewMemory(disk) /\ added = <<>>
      /\ Flushed = disk
  BY DEF Init, Flushed
<1>2. Owners(<<>>, D) /\ FilesOK({}) /\ FileLinks(<<>>, {}, disk)
  BY <1>1 DEF Owners, FilesOK, FileLinks
<1>3. FileOK(<<>>, D, disk)
  <2>1. disk.root = 0 /\ disk.nodes = <<>> /\ disk = [root |-> disk.root, nodes |-> disk.nodes]
    BY <1>1
  <2> QED  BY <2>1 DEF FileOK, LeadsTo
<1>4. \E K : /\ FileOK(K, D, disk) /\ FileLinks(K, {}, disk)
             /\ Linked(K, D, Len(disk.nodes), {}, NewMemory(disk))
  BY <1>2, <1>3, NewMemoryLinks
<1> QED  BY <1>1, <1>2, <1>4 DEF LinkInv

LEMMA NextLinks == LinkInv /\ [Next]_vars => LinkInv'
<1> SUFFICES ASSUME LinkInv, [Next]_vars PROVE LinkInv'
  OBVIOUS
<1>1. CASE \E c \in Clips : InsertIndex(c)
  BY <1>1, InsertIndexLinks
<1>2. CASE WriteNode
  BY <1>2, WriteNodeLinks
<1>3. CASE WriteFails
  BY <1>3, WriteFailsLinks
<1>4. CASE Crash
  BY <1>4, NewProcessLinks DEF Crash
<1>5. CASE Exit
  BY <1>5, NewProcessLinks DEF Exit
<1>6. CASE Restart \/ UNCHANGED vars
  <2>1. disk' = disk /\ pending' = pending /\ mem' = mem /\ added' = added
    BY <1>6 DEF Restart, vars
  <2>2. Flushed' = Flushed /\ AddedDays' = AddedDays /\ AddedFiles' = AddedFiles
    BY <2>1 DEF Flushed, AddedDays, AddedFiles
  <2> QED  BY <2>1, <2>2 DEF LinkInv, FilesOK
<1> QED  BY <1>1, <1>2, <1>3, <1>4, <1>5, <1>6 DEF Next

\* A slot of the file is empty, or of a file that has an entry.
LEMMA SlotOfFile ==
  ASSUME NEW K, NEW X, NEW d, FileLinks(K, X, d), NEW e, SlotAt(d, e).start # 0 \/ SlotAt(d, e).next # 0
  PROVE  /\ NodeOf(e) \in DOMAIN d.nodes /\ SlotOf(e) \in SlotIndex
         /\ SlotOK(K, X, NodeOf(e), SlotOf(e), SlotAt(d, e)) /\ SlotAt(d, e) # EmptySlot
<1>1. SlotAt(d, e) # EmptySlot
  BY DEF EmptySlot
<1>2. IsNode(d, NodeOf(e), "day") /\ SlotOf(e) \in SlotIndex
      /\ SlotAt(d, e) = d.nodes[NodeOf(e)].slot[SlotOf(e)]
  BY <1>1 DEF SlotAt
<1>3. EntriesOK(K, X, NodeOf(e), d.nodes[NodeOf(e)])
  BY <1>2 DEF IsNode, FileLinks, DayLinks
<1> QED  BY <1>1, <1>2, <1>3 DEF IsNode, EntriesOK

LEMMA LinksLead == LinkInv => LinksGoBothWays
<1> SUFFICES ASSUME LinkInv, NEW a \in DaysOf(Flushed), NEW i \in SlotIndex, NEW e, e = Entry(a, i),
                    NEW f, f = SlotAt(Flushed, e).next, f # 0, SlotAt(Flushed, f).start # 0
             PROVE  SlotAt(Flushed, f).prev = e
  BY DEF LinksGoBothWays
<1>1. PICK K, X : FileOK(K, AddedDays, Flushed) /\ FilesOK(X) /\ FileLinks(K, X, Flushed)
                  /\ K \in Seq(Owner)
  BY LinkedOwners DEF LinkInv
<1>2. a \in Nat
  BY <1>1, TreeNodes DEF IsNode
<1>3. NodeOf(e) = a /\ SlotOf(e) = i
  BY <1>2, EntryFacts
<1>4. SlotOK(K, X, a, i, SlotAt(Flushed, e)) /\ SlotAt(Flushed, e) # EmptySlot
  BY <1>1, <1>3, SlotOfFile
<1>5. PICK x \in X : Slot(x.start) = i /\ AtPlace(K, x, a) /\ NextOK(K, X, x.at, f)
  BY <1>4 DEF SlotOK
<1>6. PICK y \in X : y.prev = x.at /\ y.at = f /\ AtPlace(K, y, NodeOf(f))
  BY <1>5 DEF NextOK
<1>7. x.at = e
  BY <1>5 DEF AtPlace
<1>8. SlotOK(K, X, NodeOf(f), SlotOf(f), SlotAt(Flushed, f)) /\ SlotAt(Flushed, f) # EmptySlot
  BY <1>1, SlotOfFile
<1>9. PICK z \in X : /\ SlotAt(Flushed, f).prev = z.prev /\ Slot(z.start) = SlotOf(f)
                     /\ AtPlace(K, z, NodeOf(f))
  BY <1>8 DEF SlotOK
<1>10. Day(y.start) = Day(z.start)
  BY <1>6, <1>9 DEF AtPlace, Is, DayNo
<1>11. Slot(y.start) = SlotOf(f)
  <2>1. PICK c \in AddedFiles : y.start = c.start
    BY <1>1 DEF FilesOK
  <2>2. y.start \in Nat
    BY <2>1, AddedFacts, ClipFacts DEF LinkInv
  <2>3. Slot(y.start) \in SlotIndex
    BY <2>2, DayFacts
  <2>4. NodeOf(f) \in Nat
    BY <1>1, <1>6 DEF AtPlace, Is
  <2>5. f = Entry(NodeOf(f), Slot(y.start))
    BY <1>6 DEF AtPlace
  <2> QED  BY <2>3, <2>4, <2>5, EntryFacts
<1>12. y = z
  BY <1>1, <1>9, <1>10, <1>11 DEF FilesOK
<1> QED  BY <1>6, <1>7, <1>9, <1>12

(* Backward playback visits the files of forward playback: whatever was    *)
(* lost in a crash or a write that failed, when the entry of a file leads  *)
(* to a file, the entry of that file leads back.                           *)
THEOREM LinksLeadBack == Spec => []LinksGoBothWays
<1>1. Spec => []LinkInv
  BY InitLinks, NextLinks, PTL DEF Spec
<1> QED  BY <1>1, LinksLead, PTL

-----------------------------------------------------------------------------
(* What has been written stays: a copy of a node that is written later has *)
(* the entries of the earlier one, and a file grows.                       *)
Below(b, c) ==
  /\ c.kind = b.kind
  /\ b.kind = "channel" =>
       /\ b.base = 0 \/ c.base = b.base
       /\ \A i \in YearIndex : b.table[i] = 0 \/ c.table[i] = b.table[i]
  /\ b.kind = "year" => \A j \in DayIndex : b.table[j] = 0 \/ c.table[j] = b.table[j]
  /\ b.kind = "day" => \A i \in SlotIndex : b.slot[i].start = 0 \/ c.slot[i].start = b.slot[i].start

FileGrows(d, e) ==
  /\ d.root = 0 \/ e.root = d.root
  /\ Len(d.nodes) <= Len(e.nodes)
  /\ \A a \in 1 .. Len(d.nodes) : Below(d.nodes[a], e.nodes[a])

Buffer == ChannelBuffer \cup YearBuffer \cup DayBuffer
IndexFile == [root : Nat, nodes : Seq(Buffer)]

LEMMA BelowSelf == ASSUME NEW b PROVE Below(b, b)
BY DEF Below

LEMMA GrowsSelf == ASSUME NEW d \in IndexFile PROVE FileGrows(d, d)
<1>1. Len(d.nodes) <= Len(d.nodes)
  BY DEF IndexFile
<1> QED  BY <1>1, BelowSelf DEF FileGrows

LEMMA FileIs ==
  ASSUME NEW K, NEW D, NEW d, FileOK(K, D, d)
  PROVE  d \in IndexFile
<1>1. d.root \in Nat /\ d.nodes \in Seq(Buffer) /\ d = [root |-> d.root, nodes |-> d.nodes]
  BY DEF FileOK, Buffer
<1> QED  BY <1>1 DEF IndexFile

LEMMA BelowOn ==
  ASSUME NEW a, NEW b, NEW c, Below(a, b), Below(b, c)
  PROVE  Below(a, c)
<1>1. c.kind = a.kind
  BY DEF Below
<1>2. a.kind = "channel" =>
       /\ a.base = 0 \/ c.base = a.base
       /\ \A i \in YearIndex : a.table[i] = 0 \/ c.table[i] = a.table[i]
  BY DEF Below
<1>3. a.kind = "year" => \A j \in DayIndex : a.table[j] = 0 \/ c.table[j] = a.table[j]
  BY DEF Below
<1>4. a.kind = "day" => \A i \in SlotIndex : a.slot[i].start = 0 \/ c.slot[i].start = a.slot[i].start
  BY DEF Below
<1> QED  BY <1>1, <1>2, <1>3, <1>4 DEF Below

\* The write of a node, at its place or at the end of the file; and of the root.
LEMMA PutNode ==
  ASSUME NEW A \in IndexFile, NEW at \in 1 .. Len(A.nodes) + 1, NEW b \in Buffer,
         at <= Len(A.nodes) => Below(A.nodes[at], b)
  PROVE  LET P == Put(A, [at |-> at, buf |-> b]) IN
         /\ P \in IndexFile /\ P.root = A.root /\ P.nodes[at] = b
         /\ Len(P.nodes) = IF at <= Len(A.nodes) THEN Len(A.nodes) ELSE Len(A.nodes) + 1
         /\ \A a \in 1 .. Len(A.nodes) : a # at => P.nodes[a] = A.nodes[a]
         /\ FileGrows(A, P)
<1> DEFINE w == [at |-> at, buf |-> b]
           P == Put(A, w)
           n == Len(A.nodes)
<1>1. n \in Nat /\ DOMAIN A.nodes = 1 .. n /\ A.nodes \in Seq(Buffer) /\ A.root \in Nat
      /\ A = [root |-> A.root, nodes |-> A.nodes]
  BY DEF IndexFile
<1>2. w.at = at /\ w.buf = b /\ at # 0
  BY <1>1
<1>3. \E s \in Seq(Buffer) :
        /\ P = [root |-> A.root, nodes |-> s] /\ s[at] = b
        /\ Len(s) = IF at <= n THEN n ELSE n + 1
        /\ \A a \in 1 .. n : a # at => s[a] = A.nodes[a]
  <2>1. CASE at <= n
    <3> DEFINE s == [A.nodes EXCEPT ![at] = b]
    <3>1. P = [A EXCEPT !.nodes[at] = b]
      BY <1>1, <1>2, <2>1 DEF Put
    <3>2. P = [root |-> A.root, nodes |-> s]
      BY <1>1, <3>1
    <3>3. s \in Seq(Buffer) /\ Len(s) = n /\ s[at] = b /\ \A a \in 1 .. n : a # at => s[a] = A.nodes[a]
      BY <1>1, <2>1
    <3> QED  BY <2>1, <3>2, <3>3
  <2>2. CASE ~(at <= n)
    <3> DEFINE s == Append(A.nodes, b)
    <3>1. P = [A EXCEPT !.nodes = Append(@, b)] /\ at = n + 1
      BY <1>1, <1>2, <2>2 DEF Put
    <3>2. P = [root |-> A.root, nodes |-> s]
      BY <1>1, <3>1
    <3>3. s \in Seq(Buffer) /\ Len(s) = n + 1 /\ s[n + 1] = b /\ \A a \in 1 .. n : s[a] = A.nodes[a]
      BY <1>1
    <3> QED  BY <2>2, <3>1, <3>2, <3>3
  <2> QED  BY <2>1, <2>2
<1>4. PICK s \in Seq(Buffer) :
        /\ P = [root |-> A.root, nodes |-> s] /\ s[at] = b
        /\ Len(s) = IF at <= n THEN n ELSE n + 1
        /\ \A a \in 1 .. n : a # at => s[a] = A.nodes[a]
  BY <1>3
<1> HIDE DEF P
<1>5. P \in IndexFile /\ P.root = A.root /\ P.nodes = s
  BY <1>1, <1>4 DEF IndexFile
<1>6. \A a \in 1 .. n : Below(A.nodes[a], P.nodes[a])
  BY <1>4, <1>5, BelowSelf
<1>7. n <= Len(P.nodes)
  BY <1>1, <1>4, <1>5
<1>8. FileGrows(A, P)
  BY <1>5, <1>6, <1>7 DEF FileGrows
<1> QED  BY <1>4, <1>5, <1>8 DEF P

LEMMA PutRoot ==
  ASSUME NEW A \in IndexFile, NEW r \in Nat, A.root = 0 \/ A.root = r
  PROVE  LET P == Put(A, [at |-> 0, buf |-> r]) IN
         /\ P \in IndexFile /\ P.root = r /\ P.nodes = A.nodes /\ FileGrows(A, P)
<1> DEFINE w == [at |-> 0, buf |-> r]
           P == Put(A, w)
<1>1. A = [root |-> A.root, nodes |-> A.nodes] /\ A.nodes \in Seq(Buffer)
  BY DEF IndexFile
<1>2. P = [A EXCEPT !.root = r]
  BY DEF Put
<1>3. P = [root |-> r, nodes |-> A.nodes]
  BY <1>1, <1>2
<1>4. Len(A.nodes) <= Len(A.nodes)
  BY <1>1
<1> HIDE DEF P
<1>5. FileGrows(A, P)
  BY <1>3, <1>4, BelowSelf DEF FileGrows
<1>6. P \in IndexFile
  BY <1>1, <1>3 DEF IndexFile
<1> QED  BY <1>3, <1>5, <1>6 DEF P

-----------------------------------------------------------------------------
(* The files to come.  S[1] is the file as it is, S[n + 1] the file after  *)
(* the first n writes of the queue Q; each write makes it grow.  A is the  *)
(* file when all are done.                                                 *)
ToCome(d, Q, S) ==
  /\ S[1] = d
  /\ \A k \in 1 .. Len(Q) : S[k + 1] = Put(S[k], Q[k]) /\ FileGrows(S[k], S[k + 1])
Becomes(d, Q, A) == \E S : ToCome(d, Q, S) /\ S[Len(Q) + 1] = A

LEMMA BecomesSelf == ASSUME NEW d PROVE Becomes(d, <<>>, d)
<1> DEFINE S == [k \in {1} |-> d]
<1>1. ToCome(d, <<>>, S) /\ S[Len(<<>>) + 1] = d
  BY DEF ToCome
<1> QED  BY <1>1 DEF Becomes

LEMMA BecomesMore ==
  ASSUME NEW d, NEW Q \in Seq(Write), NEW A, Becomes(d, Q, A), NEW w, FileGrows(A, Put(A, w))
  PROVE  Becomes(d, Append(Q, w), Put(A, w))
<1> DEFINE n == Len(Q)
           R == Append(Q, w)
<1>1. PICK S : ToCome(d, Q, S) /\ S[n + 1] = A
  BY DEF Becomes
<1> DEFINE T == [k \in 1 .. n + 2 |-> IF k <= n + 1 THEN S[k] ELSE Put(A, w)]
<1>2. n \in Nat /\ Len(R) = n + 1 /\ R[n + 1] = w /\ \A k \in 1 .. n : R[k] = Q[k]
  OBVIOUS
<1>3. T[n + 2] = Put(A, w) /\ \A k \in 1 .. n + 1 : T[k] = S[k]
  BY <1>2
<1> HIDE DEF R, T, n
<1>4. T[1] = d
  BY <1>1, <1>2, <1>3 DEF ToCome
<1>5. ASSUME NEW k \in 1 .. n + 1 PROVE T[k + 1] = Put(T[k], R[k]) /\ FileGrows(T[k], T[k + 1])
  <2>1. CASE k = n + 1
    <3>1. k + 1 = n + 2
      BY <1>2, <2>1
    <3> QED  BY <1>1, <1>2, <1>3, <2>1, <3>1
  <2>2. CASE k # n + 1
    <3>1. k \in 1 .. n /\ k + 1 \in 1 .. n + 1
      BY <1>2, <2>2
    <3> QED  BY <1>1, <1>2, <1>3, <3>1 DEF ToCome, n
  <2> QED  BY <2>1, <2>2
<1>6. ToCome(d, R, T)
  BY <1>2, <1>4, <1>5 DEF ToCome
<1>7. (n + 1) + 1 = n + 2
  BY <1>2
<1>8. T[Len(R) + 1] = Put(A, w)
  BY <1>2, <1>3, <1>7
<1> QED  BY <1>6, <1>8 DEF Becomes, R

LEMMA BecomesNext ==
  ASSUME NEW d, NEW Q \in Seq(Write), Q # <<>>, NEW A, Becomes(d, Q, A)
  PROVE  LET e == Put(d, Head(Q)) IN FileGrows(d, e) /\ Becomes(e, Tail(Q), A)
<1> DEFINE n == Len(Q)
           R == Tail(Q)
           e == Put(d, Head(Q))
<1>1. PICK S : ToCome(d, Q, S) /\ S[n + 1] = A
  BY DEF Becomes
<1>2. n \in Nat \ {0} /\ Len(R) = n - 1 /\ Head(Q) = Q[1] /\ \A k \in 1 .. n - 1 : R[k] = Q[k + 1]
  OBVIOUS
<1> DEFINE T == [k \in 1 .. n |-> S[k + 1]]
<1>3. \A k \in 1 .. n : T[k] = S[k + 1]
  OBVIOUS
<1> HIDE DEF R, T, n
<1>4. 1 \in 1 .. n /\ 1 + 1 = 2
  BY <1>2
<1>5. S[1] = d /\ S[2] = Put(S[1], Q[1]) /\ FileGrows(S[1], S[2])
  BY <1>1, <1>4 DEF ToCome, n
<1>6. T[1] = e /\ FileGrows(d, e)
  BY <1>2, <1>3, <1>4, <1>5
<1>7. ASSUME NEW k \in 1 .. n - 1 PROVE T[k + 1] = Put(T[k], R[k]) /\ FileGrows(T[k], T[k + 1])
  <2>1. k \in 1 .. n /\ k + 1 \in 1 .. n
    BY <1>2
  <2>2. S[(k + 1) + 1] = Put(S[k + 1], Q[k + 1]) /\ FileGrows(S[k + 1], S[(k + 1) + 1])
    BY <1>1, <2>1 DEF ToCome, n
  <2> QED  BY <1>2, <1>3, <2>1, <2>2
<1>8. ToCome(e, R, T)
  BY <1>2, <1>6, <1>7 DEF ToCome
<1>9. n \in 1 .. n /\ (n - 1) + 1 = n
  BY <1>2
<1>10. T[Len(R) + 1] = A
  BY <1>1, <1>2, <1>3, <1>9
<1> QED  BY <1>6, <1>8, <1>10 DEF Becomes, R

LEMMA BecomesEnd ==
  ASSUME NEW d, NEW A, Becomes(d, <<>>, A)
  PROVE  A = d
BY DEF Becomes, ToCome
-----------------------------------------------------------------------------
(* The nodes in memory and the file A: the file has an earlier copy of     *)
(* each, or the same one when the node is not dirty; and each node is in   *)
(* the table of its parent, once it has a place.                           *)
NodeSynced(A, x) ==
  x.loaded => IF x.seek = 0 THEN x.dirty
              ELSE /\ x.seek \in 1 .. Len(A.nodes) /\ Below(A.nodes[x.seek], x.buf)
                   /\ x.dirty \/ A.nodes[x.seek] = x.buf

InTables(m) ==
  /\ m.chan.loaded => m.chan.seek = m.root
  /\ \A i \in YearIndex : m.years[i].loaded => m.chan.buf.table[i] = m.years[i].seek
  /\ \A d \in Days : m.days[d].loaded =>
       m.years[YearAt(m, d)].buf.table[d % YearDays] = m.days[d].seek

Synced(A, m) ==
  /\ A \in IndexFile /\ m.eof = Len(A.nodes)
  /\ A.root = 0 \/ A.root = m.root
  /\ m.rootDirty \/ A.root = m.root
  /\ NodeSynced(A, m.chan)
  /\ \A i \in YearIndex : NodeSynced(A, m.years[i])
  /\ \A d \in Days : NodeSynced(A, m.days[d])
  /\ InTables(m)

\* The write of another node.
LEMMA OtherSynced ==
  ASSUME NEW A, NEW x, NodeSynced(A, x), NEW P, NEW at, Len(A.nodes) \in Nat, Len(P.nodes) \in Nat,
         Len(A.nodes) <= Len(P.nodes),
         \A a \in 1 .. Len(A.nodes) : a # at => P.nodes[a] = A.nodes[a],
         x.loaded => x.seek # at
  PROVE  NodeSynced(P, x)
BY DEF NodeSynced

\* The write of the node itself.
LEMMA SelfSynced ==
  ASSUME NEW P, NEW at, at \in 1 .. Len(P.nodes), NEW x, x.seek = at, P.nodes[at] = x.buf
  PROVE  NodeSynced(P, x)
<1>1. at # 0
  OBVIOUS
<1> QED  BY <1>1, BelowSelf DEF NodeSynced

\* A node that gets more entries.
LEMMA GrownSynced ==
  ASSUME NEW A, NEW x, NodeSynced(A, x), x.loaded, NEW r, r.loaded, r.dirty, r.seek = x.seek, Below(x.buf, r.buf)
  PROVE  NodeSynced(A, r)
BY BelowOn DEF NodeSynced

\* Where a node is written that is dirty.
Target(m, x) == IF x.seek > 0 THEN x.seek ELSE m.eof + 1

LEMMA WriteGrows ==
  ASSUME NEW A, NEW m, Synced(A, m), NEW x, x.loaded, x.seek \in Nat, x.buf \in Buffer, NodeSynced(A, x)
  PROVE  LET at == Target(m, x)
             P == Put(A, [at |-> at, buf |-> x.buf])
         IN /\ P \in IndexFile /\ P.root = A.root /\ P.nodes[at] = x.buf /\ at \in 1 .. Len(P.nodes) /\ at \in Nat \ {0}
            /\ Len(P.nodes) = IF x.seek > 0 THEN Len(A.nodes) ELSE Len(A.nodes) + 1
            /\ Len(A.nodes) \in Nat /\ Len(P.nodes) \in Nat /\ Len(A.nodes) <= Len(P.nodes)
            /\ \A a \in 1 .. Len(A.nodes) : a # at => P.nodes[a] = A.nodes[a]
            /\ FileGrows(A, P)
<1> DEFINE at == Target(m, x)
           P == Put(A, [at |-> at, buf |-> x.buf])
<1>1. A \in IndexFile /\ Len(A.nodes) \in Nat /\ m.eof = Len(A.nodes)
  BY DEF Synced, IndexFile
<1>2. at \in 1 .. Len(A.nodes) + 1 /\ (at <= Len(A.nodes) <=> x.seek > 0)
  BY <1>1 DEF Target, NodeSynced
<1>3. at <= Len(A.nodes) => Below(A.nodes[at], x.buf)
  BY <1>2 DEF Target, NodeSynced
<1> HIDE DEF at
<1>4. /\ P \in IndexFile /\ P.root = A.root /\ P.nodes[at] = x.buf
      /\ Len(P.nodes) = IF at <= Len(A.nodes) THEN Len(A.nodes) ELSE Len(A.nodes) + 1
      /\ \A a \in 1 .. Len(A.nodes) : a # at => P.nodes[a] = A.nodes[a]
      /\ FileGrows(A, P)
  BY <1>1, <1>2, <1>3, PutNode
<1> HIDE DEF P
<1>5. /\ at \in 1 .. Len(P.nodes) /\ at \in Nat \ {0} /\ Len(P.nodes) \in Nat /\ Len(A.nodes) <= Len(P.nodes)
      /\ Len(P.nodes) = IF x.seek > 0 THEN Len(A.nodes) ELSE Len(A.nodes) + 1
  BY <1>1, <1>2, <1>4
<1> QED  BY <1>1, <1>4, <1>5 DEF P, at

\* The places of the nodes in memory differ.
LEMMA PlacesDiffer ==
  ASSUME NEW K, NEW D, NEW m, MemoryOK(K, D, m)
  PROVE  /\ \A i \in YearIndex : m.years[i].loaded /\ m.years[i].seek # 0 =>
              /\ m.chan.seek # m.years[i].seek
              /\ \A j \in YearIndex : j # i /\ m.years[j].loaded => m.years[j].seek # m.years[i].seek
              /\ \A d \in Days : m.days[d].loaded => m.days[d].seek # m.years[i].seek
         /\ \A d \in Days : m.days[d].loaded /\ m.days[d].seek # 0 =>
              /\ m.chan.seek # m.days[d].seek
              /\ \A e \in Days : e # d /\ m.days[e].loaded => m.days[e].seek # m.days[d].seek
<1>1. ASSUME NEW i \in YearIndex, m.years[i].loaded, m.years[i].seek # 0
      PROVE  m.chan.loaded /\ K[m.years[i].seek] = <<"year", m.chan.buf.base + i>> /\ m.chan.buf.base \in Nat
  <2>1. m.chan.loaded /\ LeadsTo(K, m.years[i].seek, YearNo(m.chan.buf.base + i))
    BY <1>1 DEF MemoryOK, NodeOK
  <2>2. m.chan.buf.base \in Nat
    BY <2>1, ChannelFits DEF MemoryOK, NodeOK, ChannelBuffer
  <2> QED  BY <1>1, <2>1, <2>2 DEF LeadsTo, Is, YearNo
<1>2. ASSUME NEW d \in Days, m.days[d].loaded, m.days[d].seek # 0
      PROVE  m.chan.loaded /\ K[m.days[d].seek] = <<"day", d>>
  <2>1. m.chan.loaded /\ LeadsTo(K, m.days[d].seek, DayNo(d))
    BY <1>2 DEF MemoryOK, NodeOK
  <2> QED  BY <1>2, <2>1 DEF LeadsTo, Is, DayNo
<1>3. m.chan.loaded /\ m.chan.seek # 0 => K[m.chan.seek] = <<"channel", 0>>
  BY DEF MemoryOK, NodeOK, LeadsTo, Is, Channel
<1>4. ASSUME NEW i \in YearIndex, m.years[i].loaded, m.years[i].seek # 0
      PROVE  /\ m.chan.seek # m.years[i].seek
             /\ \A j \in YearIndex : j # i /\ m.years[j].loaded => m.years[j].seek # m.years[i].seek
             /\ \A d \in Days : m.days[d].loaded => m.days[d].seek # m.years[i].seek
  <2>1. m.chan.seek # m.years[i].seek
    BY <1>1, <1>3, <1>4
  <2>2. ASSUME NEW j \in YearIndex, j # i, m.years[j].loaded PROVE m.years[j].seek # m.years[i].seek
    BY <1>1, <1>4, <2>2, <1>1 DEF YearIndex
  <2>3. ASSUME NEW d \in Days, m.days[d].loaded PROVE m.days[d].seek # m.years[i].seek
    BY <1>1, <1>2, <1>4, <2>3
  <2> QED  BY <2>1, <2>2, <2>3
<1>5. ASSUME NEW d \in Days, m.days[d].loaded, m.days[d].seek # 0
      PROVE  /\ m.chan.seek # m.days[d].seek
             /\ \A e \in Days : e # d /\ m.days[e].loaded => m.days[e].seek # m.days[d].seek
  BY <1>2, <1>3, <1>5
<1> QED  BY <1>4, <1>5

\* The recorder's memory is the one of the file d, once its writes are done.
Follows(d, m) == \E A : Becomes(d, m.writes, A) /\ Synced(A, m)

LEMMA UpdateRootFollows ==
  ASSUME NEW d, NEW m \in Memory, m.open, Follows(d, m)
  PROVE  LET n == UpdateRoot(m) IN
         /\ Follows(d, n) /\ ~n.rootDirty
         /\ n.chan = m.chan /\ n.years = m.years /\ n.days = m.days /\ n.root = m.root
<1> DEFINE n == UpdateRoot(m)
           w == [at |-> 0, buf |-> m.root]
<1>1. PICK A : Becomes(d, m.writes, A) /\ Synced(A, m)
  BY DEF Follows
<1>2. CASE ~m.rootDirty
  BY <1>2 DEF UpdateRoot
<1>3. CASE m.rootDirty
  <2>1. /\ n.writes = Append(m.writes, w) /\ n.root = m.root /\ n.eof = m.eof /\ ~n.rootDirty
        /\ n.chan = m.chan /\ n.years = m.years /\ n.days = m.days
    BY <1>3 DEF UpdateRoot, Written, Memory
  <2> HIDE DEF n
  <2> DEFINE P == Put(A, w)
  <2>2. A \in IndexFile /\ m.root \in Nat /\ (A.root = 0 \/ A.root = m.root)
    BY <1>1, MemoryParts DEF Synced
  <2>3. P \in IndexFile /\ P.root = m.root /\ P.nodes = A.nodes /\ FileGrows(A, P)
    BY <2>2, PutRoot
  <2>4. Becomes(d, n.writes, P)
    BY <1>1, <2>1, <2>3, BecomesMore, MemoryParts
  <2> HIDE DEF P
  <2>5. Synced(P, n)
    <3>1. InTables(n)
      BY <1>1, <2>1, Zenon DEF Synced, InTables, YearAt
    <3> QED  BY <1>1, <2>1, <2>3, <3>1 DEF Synced, NodeSynced
  <2> QED  BY <2>1, <2>4, <2>5 DEF Follows, n
<1> QED  BY <1>2, <1>3

LEMMA UpdateChannelFollows ==
  ASSUME NEW K, NEW D, NEW F \in Nat, NEW m, Holds(K, D, F, m), m.open, NEW d, Follows(d, m)
  PROVE  LET n == UpdateChannel(m) IN
         /\ Follows(d, n) /\ ~n.chan.dirty
         /\ n.chan.buf = m.chan.buf /\ (n.chan.loaded <=> m.chan.loaded)
         /\ n.years = m.years /\ n.days = m.days
<1> DEFINE n == UpdateChannel(m)
           y == m.chan
           at == Target(m, y)
           w == [at |-> at, buf |-> y.buf]
<1>1. PICK A : Becomes(d, m.writes, A) /\ Synced(A, m)
  BY DEF Follows
<1>2. m \in Memory /\ MemoryOK(K, D, m) /\ y \in Node(ChannelBuffer) /\ m.eof \in Nat /\ y.seek \in Nat
  BY MemoryParts DEF Holds, MemoryOK, Node
<1>3. CASE ~y.dirty
  BY <1>3 DEF UpdateChannel
<1>4. CASE y.dirty
  <2>1. y.loaded /\ y.buf \in ChannelBuffer
    BY <1>2, <1>4, ChannelFits DEF MemoryOK, NodeOK
  <2> DEFINE P == Put(A, w)
  <2>2. /\ P \in IndexFile /\ P.root = A.root /\ P.nodes[at] = y.buf /\ at \in 1 .. Len(P.nodes) /\ at \in Nat \ {0}
        /\ Len(P.nodes) = IF y.seek > 0 THEN Len(A.nodes) ELSE Len(A.nodes) + 1
        /\ Len(A.nodes) \in Nat /\ Len(P.nodes) \in Nat /\ Len(A.nodes) <= Len(P.nodes)
        /\ \A a \in 1 .. Len(A.nodes) : a # at => P.nodes[a] = A.nodes[a]
        /\ FileGrows(A, P)
    <3>1. NodeSynced(A, y) /\ y.buf \in Buffer
      BY <1>1, <2>1 DEF Synced, Buffer
    <3> HIDE DEF y
    <3> QED  BY <1>1, <1>2, <2>1, <3>1, WriteGrows
  <2>3. /\ n.writes = Append(m.writes, w) /\ n.years = m.years /\ n.days = m.days
        /\ n.chan.buf = y.buf /\ n.chan.loaded /\ ~n.chan.dirty /\ n.chan.seek = at
        /\ n.root = (IF y.seek > 0 THEN m.root ELSE at) /\ n.eof = (IF y.seek > 0 THEN m.eof ELSE at)
        /\ (y.seek > 0 => n.rootDirty = m.rootDirty) /\ (~(y.seek > 0) => n.rootDirty = TRUE)
    <3>1. CASE y.seek > 0
      BY <1>2, <1>4, <2>1, <3>1 DEF UpdateChannel, Written, Memory, Node, Target
    <3>2. CASE ~(y.seek > 0)
      BY <1>2, <1>4, <2>1, <3>2 DEF UpdateChannel, Written, NewPlace, Memory, Node, Target
    <3> QED  BY <3>1, <3>2
  <2> HIDE DEF n
  <2>4. Becomes(d, n.writes, P)
    BY <1>1, <1>2, <2>2, <2>3, BecomesMore, MemoryParts
  <2> HIDE DEF P
  <2>5. Synced(P, n)
    <3>1. m.eof = Len(A.nodes) /\ (A.root = 0 \/ A.root = m.root) /\ (m.rootDirty \/ A.root = m.root) /\ y.seek = m.root
      BY <1>1, <2>1 DEF Synced, InTables
    <3>2. n.eof = Len(P.nodes) /\ (P.root = 0 \/ P.root = n.root) /\ (n.rootDirty \/ P.root = n.root)
      BY <1>2, <2>2, <2>3, <3>1 DEF Target
    <3>3. NodeSynced(P, n.chan)
      BY <2>2, <2>3, SelfSynced
    <3>4. ASSUME NEW i \in YearIndex PROVE NodeSynced(P, n.years[i])
      <4>1. NodeSynced(A, m.years[i])
        BY <1>1 DEF Synced
      <4>2. m.years[i].loaded => m.years[i].seek # at
        BY <1>2, <2>2, <3>1, <4>1, PlacesDiffer DEF Target, NodeSynced
      <4> HIDE DEF at, y
      <4>3. NodeSynced(P, m.years[i])
        BY <2>2, <4>1, <4>2, OtherSynced
      <4> QED  BY <2>3, <4>3
    <3>5. ASSUME NEW e \in Days PROVE NodeSynced(P, n.days[e])
      <4>1. NodeSynced(A, m.days[e])
        BY <1>1 DEF Synced
      <4>2. m.days[e].loaded => m.days[e].seek # at
        BY <1>2, <2>2, <3>1, <4>1, PlacesDiffer DEF Target, NodeSynced
      <4> HIDE DEF at, y
      <4>3. NodeSynced(P, m.days[e])
        BY <2>2, <4>1, <4>2, OtherSynced
      <4> QED  BY <2>3, <4>3
    <3>6. InTables(n)
      <4>1. n.chan.seek = n.root
        BY <2>2, <2>3, <3>1 DEF Target
      <4> QED  BY <1>1, <2>3, <4>1, Zenon DEF Synced, InTables, YearAt
    <3> QED  BY <2>2, <3>2, <3>3, <3>4, <3>5, <3>6 DEF Synced
  <2> QED  BY <2>1, <2>3, <2>4, <2>5 DEF Follows, n
<1> QED  BY <1>3, <1>4

\* A table of the channel or of a year with one entry more, for i in I.
OneEntryMore(x, r, I, i, at) ==
  /\ (r.loaded <=> x.loaded) /\ r.dirty /\ r.seek = x.seek /\ Below(x.buf, r.buf)
  /\ r.buf.table[i] = at
  /\ \A j \in I : j # i => r.buf.table[j] = x.buf.table[j]

LEMMA ChannelTableGrows ==
  ASSUME NEW x \in Node(ChannelBuffer), x.buf \in ChannelBuffer, NEW i \in YearIndex, NEW at, x.buf.table[i] = 0
  PROVE  /\ OneEntryMore(x, SetTable(x, i, at), YearIndex, i, at)
         /\ SetTable(x, i, at).buf.base = x.buf.base
<1> DEFINE r == SetTable(x, i, at)
<1>1. /\ r.loaded = x.loaded /\ r.dirty = TRUE /\ r.seek = x.seek
      /\ r.buf.kind = x.buf.kind /\ r.buf.base = x.buf.base
      /\ r.buf.table = [x.buf.table EXCEPT ![i] = at]
  BY DEF SetTable, Node, ChannelBuffer
<1>2. x.buf.kind = "channel" /\ DOMAIN x.buf.table = YearIndex
  BY DEF ChannelBuffer
<1> HIDE DEF r
<1>3. r.buf.table[i] = at /\ \A j \in YearIndex : j # i => r.buf.table[j] = x.buf.table[j]
  BY <1>1, <1>2
<1>4. Below(x.buf, r.buf)
  BY <1>1, <1>2, <1>3 DEF Below
<1> QED  BY <1>1, <1>3, <1>4 DEF r, OneEntryMore

LEMMA YearTableGrows ==
  ASSUME NEW x \in Node(YearBuffer), x.buf \in YearBuffer, NEW i \in DayIndex, NEW at, x.buf.table[i] = 0
  PROVE  OneEntryMore(x, SetTable(x, i, at), DayIndex, i, at)
<1> DEFINE r == SetTable(x, i, at)
<1>1. /\ r.loaded = x.loaded /\ r.dirty = TRUE /\ r.seek = x.seek
      /\ r.buf.kind = x.buf.kind
      /\ r.buf.table = [x.buf.table EXCEPT ![i] = at]
  BY DEF SetTable, Node, YearBuffer
<1>2. x.buf.kind = "year" /\ DOMAIN x.buf.table = DayIndex
  BY DEF YearBuffer
<1> HIDE DEF r
<1>3. r.buf.table[i] = at /\ \A j \in DayIndex : j # i => r.buf.table[j] = x.buf.table[j]
  BY <1>1, <1>2
<1>4. Below(x.buf, r.buf)
  BY <1>1, <1>2, <1>3 DEF Below
<1> QED  BY <1>1, <1>3, <1>4 DEF r, OneEntryMore

LEMMA UpdateYearFollows ==
  ASSUME NEW K, NEW D, NEW F \in Nat, NEW m, Holds(K, D, F, m), m.open, NEW d, Follows(d, m), NEW i \in YearIndex
  PROVE  LET n == UpdateYear(m, i) IN
         /\ Follows(d, n) /\ ~n.years[i].dirty
         /\ n.days = m.days
<1> DEFINE n == UpdateYear(m, i)
           y == m.years[i]
           at == Target(m, y)
           w == [at |-> at, buf |-> y.buf]
<1>1. PICK A : Becomes(d, m.writes, A) /\ Synced(A, m)
  BY DEF Follows
<1>2. /\ m \in Memory /\ MemoryOK(K, D, m) /\ m.eof \in Nat /\ y \in Node(YearBuffer) /\ y.seek \in Nat
      /\ m.chan \in Node(ChannelBuffer)
  BY MemoryParts DEF Holds, MemoryOK, Node
<1>3. CASE ~y.dirty
  BY <1>3 DEF UpdateYear
<1>4. CASE y.dirty
  <2>1. y.loaded /\ y.buf \in YearBuffer /\ m.chan.loaded /\ m.chan.buf \in ChannelBuffer
    BY <1>2, <1>4, YearFits, ChannelFits DEF MemoryOK, NodeOK
  <2> DEFINE P == Put(A, w)
  <2>2. /\ P \in IndexFile /\ P.root = A.root /\ P.nodes[at] = y.buf /\ at \in 1 .. Len(P.nodes) /\ at \in Nat \ {0}
        /\ Len(P.nodes) = IF y.seek > 0 THEN Len(A.nodes) ELSE Len(A.nodes) + 1
        /\ Len(A.nodes) \in Nat /\ Len(P.nodes) \in Nat /\ Len(A.nodes) <= Len(P.nodes)
        /\ \A a \in 1 .. Len(A.nodes) : a # at => P.nodes[a] = A.nodes[a]
        /\ FileGrows(A, P)
    <3>1. NodeSynced(A, y) /\ y.buf \in Buffer
      BY <1>1, <2>1 DEF Synced, Buffer
    <3> HIDE DEF y
    <3> QED  BY <1>1, <1>2, <2>1, <3>1, WriteGrows
  <2> DEFINE z == [y EXCEPT !.dirty = FALSE, !.seek = at]
             c == IF y.seek > 0 THEN m.chan ELSE SetTable(m.chan, i, at)
  <2>3. z.buf = y.buf /\ z.loaded /\ ~z.dirty /\ z.seek = at
    BY <1>2, <2>1 DEF Node
  <2>4. /\ (n.chan.loaded <=> m.chan.loaded) /\ n.chan.seek = m.chan.seek /\ n.chan = c
        /\ n.chan.buf.base = m.chan.buf.base /\ NodeSynced(A, n.chan) /\ n.chan.buf.table[i] = at
        /\ \A j \in YearIndex : j # i => n.chan.buf.table[j] = m.chan.buf.table[j]
        /\ n.writes = Append(m.writes, w) /\ n.days = m.days /\ n.root = m.root /\ n.rootDirty = m.rootDirty
        /\ n.eof = (IF y.seek > 0 THEN m.eof ELSE at)
        /\ n.years[i] = z /\ (\A k \in YearIndex \ {i} : n.years[k] = m.years[k])
    <3>1. NodeSynced(A, m.chan) /\ m.chan.buf.table[i] = y.seek
      BY <1>1, <2>1 DEF Synced, InTables
    <3>2. CASE y.seek > 0
      <4>1. z = [y EXCEPT !.dirty = FALSE]
        BY <1>2, <3>2 DEF Node, Target
      <4>2. n = [m EXCEPT !.years[i] = z, !.writes = Append(m.writes, w)]
        BY <1>2, <1>4, <3>2, <4>1 DEF UpdateYear, Written, Memory, Target
      <4> HIDE DEF n, z, w
      <4>3. /\ n.chan = m.chan /\ n.root = m.root /\ n.rootDirty = m.rootDirty /\ n.eof = m.eof /\ n.days = m.days
            /\ n.writes = Append(m.writes, w) /\ n.years[i] = z /\ (\A k \in YearIndex \ {i} : n.years[k] = m.years[k])
        BY <1>2, <4>2 DEF Memory
      <4> QED  BY <3>1, <3>2, <4>3 DEF Target
    <3>3. CASE ~(y.seek > 0)
      <4> DEFINE r == SetTable(m.chan, i, at)
      <4>1. at = m.eof + 1 /\ y.seek = 0
        BY <1>2, <3>3 DEF Target
      <4>2. n = [m EXCEPT !.years[i] = z, !.chan = r, !.eof = at, !.writes = Append(m.writes, w)]
        BY <1>2, <1>4, <3>3, <4>1 DEF UpdateYear, Written, Memory, NewPlace
      <4>3. OneEntryMore(m.chan, r, YearIndex, i, at) /\ r.buf.base = m.chan.buf.base
        <5>1. m.chan.buf.table[i] = 0
          BY <3>1, <4>1
        <5> HIDE DEF at, y
        <5> QED  BY <1>2, <2>1, <5>1, ChannelTableGrows
      <4> HIDE DEF n, z, w, r
      <4>4. /\ n.chan = r /\ n.root = m.root /\ n.rootDirty = m.rootDirty /\ n.eof = at /\ n.days = m.days
            /\ n.writes = Append(m.writes, w) /\ n.years[i] = z /\ (\A k \in YearIndex \ {i} : n.years[k] = m.years[k])
        BY <1>2, <4>2 DEF Memory
      <4>5. NodeSynced(A, r)
        BY <2>1, <3>1, <4>3, GrownSynced DEF OneEntryMore
      <4>6. c = r
        BY <3>3 DEF r
      <4> HIDE DEF c
      <4> QED  BY <3>3, <4>3, <4>4, <4>5, <4>6 DEF OneEntryMore
    <3> QED  BY <3>2, <3>3
  <2> HIDE DEF n, c, z
  <2>5. Becomes(d, n.writes, P)
    BY <1>1, <1>2, <2>2, <2>4, BecomesMore, MemoryParts
  <2> HIDE DEF P
  <2>6. Synced(P, n)
    <3>1. m.eof = Len(A.nodes) /\ (A.root = 0 \/ A.root = m.root) /\ (m.rootDirty \/ A.root = m.root)
      BY <1>1 DEF Synced
    <3>2. n.eof = Len(P.nodes) /\ (P.root = 0 \/ P.root = n.root) /\ (n.rootDirty \/ P.root = n.root)
      BY <1>2, <2>2, <2>4, <3>1 DEF Target
    <3>3. NodeSynced(P, n.chan)
      <4>1. n.chan.loaded => n.chan.seek # at
        BY <1>2, <2>1, <2>2, <2>4, <3>1, PlacesDiffer DEF Target, NodeSynced
      <4>2. NodeSynced(A, n.chan)
        BY <2>4
      <4> HIDE DEF at, y
      <4> QED  BY <2>2, <4>1, <4>2, OtherSynced
    <3>4. ASSUME NEW k \in YearIndex PROVE NodeSynced(P, n.years[k])
      <4>1. CASE k = i
        BY <2>2, <2>3, <2>4, <4>1, SelfSynced
      <4>2. CASE k # i
        <5>1. NodeSynced(A, m.years[k])
          BY <1>1 DEF Synced
        <5>2. m.years[k].loaded => m.years[k].seek # at
          BY <1>2, <2>1, <2>2, <3>1, <4>2, <5>1, PlacesDiffer DEF Target, NodeSynced
        <5> HIDE DEF at, y
        <5>3. NodeSynced(P, m.years[k])
          BY <2>2, <5>1, <5>2, OtherSynced
        <5> QED  BY <2>4, <4>2, <5>3
      <4> QED  BY <4>1, <4>2
    <3>5. ASSUME NEW e \in Days PROVE NodeSynced(P, n.days[e])
      <4>1. NodeSynced(A, m.days[e])
        BY <1>1 DEF Synced
      <4>2. m.days[e].loaded => m.days[e].seek # at
        BY <1>2, <2>1, <2>2, <3>1, <4>1, PlacesDiffer DEF Target, NodeSynced
      <4> HIDE DEF at, y
      <4>3. NodeSynced(P, m.days[e])
        BY <2>2, <4>1, <4>2, OtherSynced
      <4> QED  BY <2>4, <4>3
    <3>6. InTables(n)
      <4>1. InTables(m)
        BY <1>1 DEF Synced
      <4>2. n.chan.loaded => n.chan.seek = n.root
        BY <2>4, <4>1 DEF InTables
      <4>3. ASSUME NEW k \in YearIndex, n.years[k].loaded PROVE n.chan.buf.table[k] = n.years[k].seek
        BY <2>3, <2>4, <4>1, <4>3 DEF InTables
      <4>4. ASSUME NEW e \in Days, n.days[e].loaded
            PROVE  n.years[YearAt(n, e)].buf.table[e % YearDays] = n.days[e].seek
        <5>1. YearAt(n, e) = YearAt(m, e) /\ n.days[e] = m.days[e]
          BY <2>4 DEF YearAt
        <5>2. YearAt(m, e) \in YearIndex
          BY <1>2, <4>4, <5>1 DEF MemoryOK
        <5>3. n.years[YearAt(m, e)].buf = m.years[YearAt(m, e)].buf
          BY <2>3, <2>4, <5>2
        <5> QED  BY <4>1, <4>4, <5>1, <5>3 DEF InTables
      <4> QED  BY <4>2, <4>3, <4>4 DEF InTables
    <3> QED  BY <2>2, <3>2, <3>3, <3>4, <3>5, <3>6 DEF Synced
  <2> QED  BY <2>3, <2>4, <2>5, <2>6 DEF Follows, n
<1> QED  BY <1>3, <1>4

\* The day of a place in the table of a year is one only.
LEMMA DaysOfYear ==
  ASSUME NEW m, m.chan.buf.base \in Nat, NEW e \in Days, NEW g \in Days, e # g, YearAt(m, e) = YearAt(m, g)
  PROVE  e % YearDays # g % YearDays
<1>1. e \in Nat /\ g \in Nat
  BY DaysAreNumbers
<1>2. /\ YearOfDay(e) \in Nat /\ e = (YearOfDay(e) - 1) * YearDays + (e % YearDays)
      /\ YearOfDay(g) \in Nat /\ g = (YearOfDay(g) - 1) * YearDays + (g % YearDays)
  BY <1>1, DayInYear
<1>3. YearOfDay(e) = YearOfDay(g)
  BY <1>2 DEF YearAt
<1> QED  BY <1>2, <1>3

LEMMA UpdateDayFollows ==
  ASSUME NEW K, NEW D, NEW F \in Nat, NEW m, Holds(K, D, F, m), m.open, NEW d, Follows(d, m), NEW e \in Days
  PROVE  LET n == UpdateDay(m, e) IN Follows(d, n) /\ ~n.days[e].dirty
<1> DEFINE n == UpdateDay(m, e)
           y == m.days[e]
           at == Target(m, y)
           w == [at |-> at, buf |-> y.buf]
           i == YearAt(m, e)
           j == e % YearDays
<1>1. PICK A : Becomes(d, m.writes, A) /\ Synced(A, m)
  BY DEF Follows
<1>2. /\ m \in Memory /\ MemoryOK(K, D, m) /\ m.eof \in Nat /\ y \in Node(DayBuffer) /\ y.seek \in Nat
      /\ m.chan \in Node(ChannelBuffer)
  BY MemoryParts DEF Holds, MemoryOK, Node
<1>3. CASE ~y.dirty
  BY <1>3 DEF UpdateDay
<1>4. CASE y.dirty
  <2>1. /\ y.loaded /\ y.buf \in DayBuffer /\ m.chan.loaded /\ m.chan.buf.base \in Nat
        /\ i \in YearIndex /\ m.years[i] \in Node(YearBuffer) /\ m.years[i].loaded /\ m.years[i].buf \in YearBuffer
        /\ j \in DayIndex
    <3>1. y.loaded /\ y.buf \in DayBuffer
      BY <1>2, <1>4, DayFits DEF MemoryOK, NodeOK
    <3>2. m.chan.loaded /\ i \in YearIndex /\ m.years[i].loaded
      BY <1>2, <3>1 DEF MemoryOK
    <3>3. m.years[i] \in Node(YearBuffer) /\ m.years[i].buf \in YearBuffer
      BY <1>2, <3>2, YearFits, MemoryParts DEF MemoryOK, NodeOK
    <3>4. m.chan.buf.base \in Nat
      BY <1>2, <3>2, ChannelFits DEF MemoryOK, NodeOK, ChannelBuffer
    <3>5. j \in DayIndex
      BY DaysAreNumbers, DayInYear
    <3> QED  BY <3>1, <3>2, <3>3, <3>4, <3>5
  <2> DEFINE P == Put(A, w)
  <2>2. /\ P \in IndexFile /\ P.root = A.root /\ P.nodes[at] = y.buf /\ at \in 1 .. Len(P.nodes) /\ at \in Nat \ {0}
        /\ Len(P.nodes) = IF y.seek > 0 THEN Len(A.nodes) ELSE Len(A.nodes) + 1
        /\ Len(A.nodes) \in Nat /\ Len(P.nodes) \in Nat /\ Len(A.nodes) <= Len(P.nodes)
        /\ \A a \in 1 .. Len(A.nodes) : a # at => P.nodes[a] = A.nodes[a]
        /\ FileGrows(A, P)
    <3>1. NodeSynced(A, y) /\ y.buf \in Buffer
      BY <1>1, <2>1 DEF Synced, Buffer
    <3> HIDE DEF y
    <3> QED  BY <1>1, <1>2, <2>1, <3>1, WriteGrows
  <2> DEFINE z == [y EXCEPT !.dirty = FALSE, !.seek = at]
             c == IF y.seek > 0 THEN m.years[i] ELSE SetTable(m.years[i], j, at)
  <2>3. z.buf = y.buf /\ z.loaded /\ ~z.dirty /\ z.seek = at
    BY <1>2, <2>1 DEF Node
  <2>4. /\ n.chan = m.chan /\ n.years[i] = c /\ (\A k \in YearIndex \ {i} : n.years[k] = m.years[k])
        /\ (n.years[i].loaded <=> m.years[i].loaded) /\ n.years[i].seek = m.years[i].seek
        /\ NodeSynced(A, n.years[i]) /\ n.years[i].buf.table[j] = at
        /\ \A k \in DayIndex : k # j => n.years[i].buf.table[k] = m.years[i].buf.table[k]
        /\ n.writes = Append(m.writes, w) /\ n.root = m.root /\ n.rootDirty = m.rootDirty
        /\ n.eof = (IF y.seek > 0 THEN m.eof ELSE at)
        /\ n.days[e] = z /\ (\A k \in Days \ {e} : n.days[k] = m.days[k])
    <3>1. NodeSynced(A, m.years[i]) /\ m.years[i].buf.table[j] = y.seek
      BY <1>1, <2>1 DEF Synced, InTables
    <3>2. CASE y.seek > 0
      <4>1. z = [y EXCEPT !.dirty = FALSE]
        BY <1>2, <3>2 DEF Node, Target
      <4>2. n = [m EXCEPT !.days[e] = z, !.writes = Append(m.writes, w)]
        BY <1>2, <1>4, <3>2, <4>1 DEF UpdateDay, Written, Memory, Target
      <4>3. c = m.years[i]
        BY <3>2
      <4> HIDE DEF n, z, w, c
      <4>4. /\ n.chan = m.chan /\ n.root = m.root /\ n.rootDirty = m.rootDirty /\ n.eof = m.eof /\ n.years = m.years
            /\ n.writes = Append(m.writes, w) /\ n.days[e] = z /\ (\A k \in Days \ {e} : n.days[k] = m.days[k])
        BY <1>2, <4>2 DEF Memory
      <4> QED  BY <3>1, <3>2, <4>3, <4>4 DEF Target
    <3>3. CASE ~(y.seek > 0)
      <4> DEFINE r == SetTable(m.years[i], j, at)
      <4>1. at = m.eof + 1 /\ y.seek = 0
        BY <1>2, <3>3 DEF Target
      <4>2. n = [m EXCEPT !.days[e] = z, !.years[i] = r, !.eof = at, !.writes = Append(m.writes, w)]
        BY <1>2, <1>4, <3>3, <4>1, ZenonT(40) DEF UpdateDay, Written, Memory, NewPlace
      <4>3. OneEntryMore(m.years[i], r, DayIndex, j, at)
        <5>1. m.years[i].buf.table[j] = 0
          BY <3>1, <4>1
        <5> HIDE DEF at, y, i, j
        <5> QED  BY <1>2, <2>1, <5>1, YearTableGrows
      <4>4. c = r
        BY <3>3 DEF r
      <4> HIDE DEF n, z, w, r, c, i
      <4>5. /\ n.chan = m.chan /\ n.root = m.root /\ n.rootDirty = m.rootDirty /\ n.eof = at
            /\ n.years[i] = r /\ (\A k \in YearIndex \ {i} : n.years[k] = m.years[k])
            /\ n.writes = Append(m.writes, w) /\ n.days[e] = z /\ (\A k \in Days \ {e} : n.days[k] = m.days[k])
        BY <1>2, <2>1, <4>2 DEF Memory
      <4>6. NodeSynced(A, r)
        BY <2>1, <3>1, <4>3, GrownSynced DEF OneEntryMore
      <4> HIDE DEF j, at
      <4> QED  BY <3>3, <4>3, <4>4, <4>5, <4>6 DEF OneEntryMore
    <3> QED  BY <3>2, <3>3, Zenon
  <2> HIDE DEF n, c, z
  <2>5. Becomes(d, n.writes, P)
    BY <1>1, <1>2, <2>2, <2>4, BecomesMore, MemoryParts
  <2> HIDE DEF P
  <2>6. Synced(P, n)
    <3>1. m.eof = Len(A.nodes) /\ (A.root = 0 \/ A.root = m.root) /\ (m.rootDirty \/ A.root = m.root)
      BY <1>1 DEF Synced
    <3>2. n.eof = Len(P.nodes) /\ (P.root = 0 \/ P.root = n.root) /\ (n.rootDirty \/ P.root = n.root)
      BY <1>2, <2>2, <2>4, <3>1 DEF Target
    <3>3. NodeSynced(P, n.chan)
      <4>1. NodeSynced(A, m.chan)
        BY <1>1 DEF Synced
      <4>2. m.chan.loaded => m.chan.seek # at
        BY <1>2, <2>1, <2>2, <3>1, <4>1, PlacesDiffer DEF Target, NodeSynced
      <4> HIDE DEF at, y, i
      <4>3. NodeSynced(P, m.chan)
        BY <2>2, <4>1, <4>2, OtherSynced
      <4> QED  BY <2>4, <4>3
    <3>4. ASSUME NEW k \in YearIndex PROVE NodeSynced(P, n.years[k])
      <4>1. NodeSynced(A, n.years[k]) /\ n.years[k].seek = m.years[k].seek /\ (n.years[k].loaded <=> m.years[k].loaded)
        <5>1. CASE k = i
          BY <2>4, <5>1
        <5>2. CASE k # i
          BY <1>1, <2>4, <5>2 DEF Synced
        <5> QED  BY <5>1, <5>2
      <4>2. n.years[k].loaded => n.years[k].seek # at
        <5>1. NodeSynced(A, m.years[k])
          BY <1>1 DEF Synced
        <5>2. m.years[k].loaded => m.years[k].seek # at
          BY <1>2, <2>1, <2>2, <3>1, <5>1, PlacesDiffer DEF Target, NodeSynced
        <5> QED  BY <4>1, <5>2
      <4> HIDE DEF at, y, i
      <4> QED  BY <2>2, <4>1, <4>2, OtherSynced
    <3>5. ASSUME NEW g \in Days PROVE NodeSynced(P, n.days[g])
      <4>1. CASE g = e
        BY <2>2, <2>3, <2>4, <4>1, SelfSynced
      <4>2. CASE g # e
        <5>1. NodeSynced(A, m.days[g])
          BY <1>1 DEF Synced
        <5>2. m.days[g].loaded => m.days[g].seek # at
          BY <1>2, <2>1, <2>2, <3>1, <4>2, <5>1, PlacesDiffer DEF Target, NodeSynced
        <5> HIDE DEF at, y, i
        <5>3. NodeSynced(P, m.days[g])
          BY <2>2, <5>1, <5>2, OtherSynced
        <5> QED  BY <2>4, <4>2, <5>3
      <4> QED  BY <4>1, <4>2
    <3>6. InTables(n)
      <4>1. InTables(m)
        BY <1>1 DEF Synced
      <4>2. n.chan.loaded => n.chan.seek = n.root
        BY <2>4, <4>1 DEF InTables
      <4>3. ASSUME NEW k \in YearIndex, n.years[k].loaded PROVE n.chan.buf.table[k] = n.years[k].seek
        <5>1. CASE k = i
          BY <2>1, <2>4, <4>1, <4>3, <5>1 DEF InTables
        <5>2. CASE k # i
          BY <2>4, <4>1, <4>3, <5>2 DEF InTables
        <5> QED  BY <5>1, <5>2
      <4>4. ASSUME NEW g \in Days, n.days[g].loaded
            PROVE  n.years[YearAt(n, g)].buf.table[g % YearDays] = n.days[g].seek
        <5>1. YearAt(n, g) = YearAt(m, g)
          BY <2>4, Zenon DEF YearAt
        <5>2. CASE g = e
          BY <2>3, <2>4, <5>1, <5>2
        <5>3. CASE g # e
          <6>1. n.days[g] = m.days[g] /\ m.days[g].loaded
            BY <2>4, <4>4, <5>3
          <6>2. YearAt(m, g) \in YearIndex /\ g % YearDays \in DayIndex
            BY <1>2, <6>1, DaysAreNumbers, DayInYear DEF MemoryOK
          <6>3. m.years[YearAt(m, g)].buf.table[g % YearDays] = m.days[g].seek
            BY <4>1, <6>1 DEF InTables
          <6>4. CASE YearAt(m, g) = i
            <7>1. g % YearDays # j
              BY <2>1, <5>3, <6>4, DaysOfYear
            <7> HIDE DEF i, j
            <7> QED  BY <2>4, <5>1, <6>1, <6>2, <6>3, <6>4, <7>1
          <6>5. CASE YearAt(m, g) # i
            BY <2>4, <5>1, <6>1, <6>2, <6>3, <6>5
          <6> QED  BY <6>4, <6>5
        <5> QED  BY <5>2, <5>3
      <4> QED  BY <4>2, <4>3, <4>4 DEF InTables
    <3> QED  BY <2>2, <3>2, <3>3, <3>4, <3>5, <3>6 DEF Synced
  <2> QED  BY <2>3, <2>4, <2>5, <2>6 DEF Follows, n
<1> QED  BY <1>3, <1>4

\* The root and the channel, or the nodes of a day too, are as on the disk.
TopSaved(m) == ~m.rootDirty /\ ~m.chan.dirty
DaySaved(m, e) == TopSaved(m) /\ ~m.days[e].dirty /\ ~m.years[YearAt(m, e)].dirty

LEMMA SaveChannelFollows ==
  ASSUME NEW K, NEW D, NEW F \in Nat, NEW m, Holds(K, D, F, m), m.open, NEW d, Follows(d, m)
  PROVE  LET n == UpdateRoot(UpdateChannel(m)) IN
         /\ Follows(d, n) /\ TopSaved(n) /\ n.chan.buf = m.chan.buf /\ n.years = m.years /\ n.days = m.days
<1> DEFINE r == UpdateChannel(m)
<1>1. Follows(d, r) /\ ~r.chan.dirty /\ r.years = m.years /\ r.days = m.days /\ r.chan.buf = m.chan.buf
  BY UpdateChannelFollows
<1>2. r \in Memory /\ r.open
  BY UpdateChannelHolds DEF Holds, MemoryOK, Keeps
<1> HIDE DEF r
<1>3. /\ Follows(d, UpdateRoot(r)) /\ ~UpdateRoot(r).rootDirty
      /\ UpdateRoot(r).chan = r.chan /\ UpdateRoot(r).years = r.years /\ UpdateRoot(r).days = r.days
  BY <1>1, <1>2, UpdateRootFollows
<1> QED  BY <1>1, <1>3 DEF r, TopSaved

LEMMA SaveTreeFollows ==
  ASSUME NEW K, NEW D, NEW F \in Nat, NEW m, Holds(K, D, F, m), m.open, NEW d, Follows(d, m),
         NEW e \in Days, m.days[e].loaded
  PROVE  LET n == SaveTree(m, e) IN Follows(d, n) /\ DaySaved(n, e)
<1> DEFINE p == UpdateDay(m, e)
           q == UpdateYear(p, YearAt(m, e))
           r == UpdateRoot(UpdateChannel(q))
<1>0. m.chan.loaded /\ YearAt(m, e) \in YearIndex
  BY LoadedDay
<1>1. Follows(d, p) /\ ~p.days[e].dirty
  BY UpdateDayFollows
<1>2. PICK L \in Seq(Owner) : Holds(L, D, F, p) /\ Keeps(m, p)
  BY UpdateDayHolds
<1>3. p.open /\ YearAt(p, e) = YearAt(m, e)
  BY <1>2 DEF Keeps, YearAt
<1> HIDE DEF p
<1>4. Follows(d, q) /\ ~q.years[YearAt(m, e)].dirty /\ q.days = p.days
  BY <1>0, <1>1, <1>2, <1>3, UpdateYearFollows
<1>5. PICK M \in Seq(Owner) : Holds(M, D, F, q) /\ Keeps(p, q)
  BY <1>0, <1>2, UpdateYearHolds
<1>6. q.open /\ YearAt(q, e) = YearAt(m, e)
  BY <1>3, <1>5 DEF Keeps, YearAt
<1> HIDE DEF q
<1>7. Follows(d, r) /\ TopSaved(r) /\ r.chan.buf = q.chan.buf /\ r.years = q.years /\ r.days = q.days
  BY <1>4, <1>5, <1>6, SaveChannelFollows
<1>8. YearAt(r, e) = YearAt(m, e)
  BY <1>6, <1>7 DEF YearAt
<1> HIDE DEF r
<1>9. SaveTree(m, e) = r
  BY <1>3 DEF SaveTree, p, q, r
<1> QED  BY <1>1, <1>4, <1>7, <1>8, <1>9 DEF DaySaved

LEMMA UpdateLastDayFollows ==
  ASSUME NEW K, NEW D, NEW F \in Nat, NEW m, Holds(K, D, F, m), m.open, NEW d, Follows(d, m), NEW e,
         NEW last, last.day \in Days, m.days[last.day].loaded
  PROVE  Follows(d, UpdateLastDay(m, last, e))
<1> DEFINE n == UpdateDay(m, last.day)
           i == YearAt(m, last.day)
<1>1. Follows(d, n) /\ i \in YearIndex
  BY UpdateDayFollows, LoadedDay
<1>2. PICK L \in Seq(Owner) : Holds(L, D, F, n) /\ Keeps(m, n)
  BY UpdateDayHolds
<1>3. n.open
  BY <1>2 DEF Keeps
<1> HIDE DEF n
<1>4. Follows(d, UpdateYear(n, i))
  BY <1>1, <1>2, <1>3, UpdateYearFollows
<1> QED  BY <1>1, <1>4 DEF UpdateLastDay, n

-----------------------------------------------------------------------------
(* Nodes that are loaded, made or changed in memory.  A node is only       *)
(* loaded while nothing is to be written.                                  *)
LEMMA FollowsSame ==
  ASSUME NEW d, NEW m, Follows(d, m), NEW n, n.writes = m.writes, n.eof = m.eof, n.root = m.root,
         n.rootDirty = m.rootDirty, n.chan = m.chan, n.years = m.years, n.days = m.days
  PROVE  Follows(d, n)
<1>1. PICK A : Becomes(d, m.writes, A) /\ Synced(A, m)
  BY DEF Follows
<1>2. Synced(A, n)
  BY <1>1, Zenon DEF Synced, InTables, YearAt
<1> QED  BY <1>1, <1>2 DEF Follows

\* The node at the place "at", as the table has it: as on the disk, or new.
AsOnDisk(d, m, x, at) ==
  /\ x.loaded /\ x.seek = at
  /\ at = 0 => x.dirty
  /\ at # 0 => m.writes = <<>> /\ at \in 1 .. Len(d.nodes) /\ d.nodes[at] = x.buf

LEMMA LoadedSynced ==
  ASSUME NEW d, NEW m, NEW A, Becomes(d, m.writes, A), NEW x, NEW at, AsOnDisk(d, m, x, at)
  PROVE  NodeSynced(A, x)
<1>1. CASE at = 0
  BY <1>1 DEF AsOnDisk, NodeSynced
<1>2. CASE at # 0
  <2>1. A = d
    BY <1>2, BecomesEnd DEF AsOnDisk
  <2> QED  BY <1>2, <2>1, BelowSelf DEF AsOnDisk, NodeSynced
<1> QED  BY <1>1, <1>2

LEMMA SetYearFollows ==
  ASSUME NEW K, NEW D, NEW m, MemoryOK(K, D, m), NEW d, Follows(d, m), NEW i \in YearIndex, ~m.years[i].loaded,
         NEW y, AsOnDisk(d, m, y, m.chan.buf.table[i])
  PROVE  LET n == WithYear(m, i, y) IN Follows(d, n) /\ n.writes = m.writes
<1> DEFINE n == WithYear(m, i, y)
<1>1. PICK A : Becomes(d, m.writes, A) /\ Synced(A, m)
  BY DEF Follows
<1>2. /\ n.writes = m.writes /\ n.eof = m.eof /\ n.root = m.root /\ n.rootDirty = m.rootDirty
      /\ n.chan = m.chan /\ n.days = m.days /\ n.years[i] = y /\ \A k \in YearIndex : k # i => n.years[k] = m.years[k]
  BY DEF MemoryOK, Memory, WithYear
<1> HIDE DEF n
<1>3. \A k \in YearIndex : NodeSynced(A, n.years[k])
  <2>1. NodeSynced(A, y)
    BY <1>1, LoadedSynced
  <2> QED  BY <1>1, <1>2, <2>1 DEF Synced
<1>4. InTables(n)
  <2>1. InTables(m)
    BY <1>1 DEF Synced
  <2>2. n.chan.loaded => n.chan.seek = n.root
    BY <1>2, <2>1 DEF InTables
  <2>3. \A k \in YearIndex : n.years[k].loaded => n.chan.buf.table[k] = n.years[k].seek
    BY <1>2, <2>1 DEF InTables, AsOnDisk
  <2>4. ASSUME NEW e \in Days, n.days[e].loaded
        PROVE  n.years[YearAt(n, e)].buf.table[e % YearDays] = n.days[e].seek
    <3>1. YearAt(n, e) = YearAt(m, e) /\ n.days[e] = m.days[e]
      BY <1>2 DEF YearAt
    <3>2. YearAt(m, e) \in YearIndex /\ m.years[YearAt(m, e)].loaded
      BY <2>4, <3>1 DEF MemoryOK
    <3> QED  BY <1>2, <2>1, <2>4, <3>1, <3>2 DEF InTables
  <2> QED  BY <2>2, <2>3, <2>4 DEF InTables
<1>5. Synced(A, n)
  BY <1>1, <1>2, <1>3, <1>4 DEF Synced
<1> QED  BY <1>1, <1>2, <1>5 DEF Follows, n

LEMMA SetDayFollows ==
  ASSUME NEW K, NEW D, NEW m, MemoryOK(K, D, m), NEW d, Follows(d, m), NEW e \in Days,
         NEW z, AsOnDisk(d, m, z, m.years[YearAt(m, e)].buf.table[e % YearDays])
  PROVE  LET n == WithDay(m, e, z) IN Follows(d, n) /\ n.writes = m.writes
<1> DEFINE n == WithDay(m, e, z)
<1>1. PICK A : Becomes(d, m.writes, A) /\ Synced(A, m)
  BY DEF Follows
<1>2. /\ n.writes = m.writes /\ n.eof = m.eof /\ n.root = m.root /\ n.rootDirty = m.rootDirty
      /\ n.chan = m.chan /\ n.years = m.years /\ n.days[e] = z /\ \A k \in Days : k # e => n.days[k] = m.days[k]
  BY DEF MemoryOK, Memory, WithDay
<1> HIDE DEF n
<1>3. \A k \in Days : NodeSynced(A, n.days[k])
  <2>1. NodeSynced(A, z)
    BY <1>1, LoadedSynced
  <2> QED  BY <1>1, <1>2, <2>1 DEF Synced
<1>4. InTables(n)
  <2>1. InTables(m)
    BY <1>1 DEF Synced
  <2>2. n.chan.loaded => n.chan.seek = n.root
    BY <1>2, <2>1, Zenon DEF InTables
  <2>3. \A k \in YearIndex : n.years[k].loaded => n.chan.buf.table[k] = n.years[k].seek
    BY <1>2, <2>1, Zenon DEF InTables
  <2>4. ASSUME NEW g \in Days, n.days[g].loaded
        PROVE  n.years[YearAt(n, g)].buf.table[g % YearDays] = n.days[g].seek
    <3>1. YearAt(n, g) = YearAt(m, g)
      BY <1>2, Zenon DEF YearAt
    <3>2. CASE g = e
      BY <1>2, <3>1, <3>2, Zenon DEF AsOnDisk
    <3>3. CASE g # e
      BY <1>2, <2>1, <2>4, <3>1, <3>3, Zenon DEF InTables
    <3> QED  BY <3>2, <3>3
  <2> QED  BY <2>2, <2>3, <2>4, Zenon DEF InTables
<1>5. Synced(A, n)
  BY <1>1, <1>2, <1>3, <1>4 DEF Synced
<1> QED  BY <1>1, <1>2, <1>5 DEF Follows, n

LEMMA SetChannelFollows ==
  ASSUME NEW K, NEW D, NEW m, MemoryOK(K, D, m), NEW d, Follows(d, m), ~m.chan.loaded,
         NEW c, AsOnDisk(d, m, c, m.root)
  PROVE  LET n == WithChannel(m, c) IN Follows(d, n) /\ n.writes = m.writes
<1> DEFINE n == WithChannel(m, c)
<1>1. PICK A : Becomes(d, m.writes, A) /\ Synced(A, m)
  BY DEF Follows
<1>2. /\ n.writes = m.writes /\ n.eof = m.eof /\ n.root = m.root /\ n.rootDirty = m.rootDirty
      /\ n.chan = c /\ n.years = m.years /\ n.days = m.days
  BY DEF MemoryOK, Memory, WithChannel
<1> HIDE DEF n
<1>3. NodeSynced(A, c)
  BY <1>1, LoadedSynced
<1>4. (\A i \in YearIndex : ~m.years[i].loaded) /\ \A e \in Days : ~m.days[e].loaded
  BY DEF MemoryOK
<1>5. InTables(n)
  BY <1>2, <1>4 DEF InTables, AsOnDisk
<1>6. Synced(A, n)
  BY <1>1, <1>2, <1>3, <1>5 DEF Synced
<1> QED  BY <1>1, <1>2, <1>6 DEF Follows, n

LEMMA SetBaseFollows ==
  ASSUME NEW K, NEW D, NEW m, MemoryOK(K, D, m), m.chan.loaded, NEW d, Follows(d, m), NEW t
  PROVE  LET n == SetBase(m, t) IN
         /\ Follows(d, n) /\ n.writes = m.writes /\ n.years = m.years /\ n.days = m.days
         /\ n.chan.buf.table = m.chan.buf.table
<1> DEFINE n == SetBase(m, t)
           b == [m.chan.buf EXCEPT !.base = Year(t)]
           c == [m.chan EXCEPT !.buf = b, !.dirty = TRUE]
<1>1. PICK A : Becomes(d, m.writes, A) /\ Synced(A, m)
  BY DEF Follows
<1>2. CASE m.chan.buf.base # 0
  BY <1>2 DEF SetBase
<1>3. CASE m.chan.buf.base = 0
  <2>1. m \in Memory /\ m.chan \in Node(ChannelBuffer) /\ m.chan.buf \in ChannelBuffer
    BY ChannelFits, MemoryParts DEF MemoryOK, NodeOK
  <2>2. b.base = Year(t) /\ b.table = m.chan.buf.table /\ b.kind = "channel" /\ m.chan.buf.kind = "channel"
    BY <2>1 DEF ChannelBuffer
  <2>3. n = [m EXCEPT !.chan = c]
    BY <1>3, <2>1 DEF SetBase, Memory, Node
  <2> HIDE DEF b
  <2>4. c.loaded = m.chan.loaded /\ c.dirty = TRUE /\ c.seek = m.chan.seek /\ c.buf = b
    BY <2>1 DEF Node
  <2> HIDE DEF c, n
  <2>5. /\ n.writes = m.writes /\ n.eof = m.eof /\ n.root = m.root /\ n.rootDirty = m.rootDirty
        /\ n.chan = c /\ n.years = m.years /\ n.days = m.days
    BY <2>1, <2>3 DEF Memory
  <2>6. Below(m.chan.buf, c.buf)
    BY <1>3, <2>2, <2>4 DEF Below
  <2>7. NodeSynced(A, c)
    BY <1>1, <2>4, <2>6, GrownSynced DEF Synced
  <2>8. (\A i \in YearIndex : ~m.years[i].loaded) /\ \A e \in Days : ~m.days[e].loaded
    BY <1>3 DEF MemoryOK
  <2>9. InTables(n)
    BY <1>1, <2>4, <2>5, <2>8 DEF Synced, InTables
  <2>10. Synced(A, n)
    BY <1>1, <2>5, <2>7, <2>9 DEF Synced
  <2> QED  BY <1>1, <2>2, <2>4, <2>5, <2>10 DEF Follows, n
<1> QED  BY <1>2, <1>3

-----------------------------------------------------------------------------
(* The nodes for a file.  When the first file creates the channel, nothing *)
(* of the tree is read from the disk.                                      *)
NothingThere(m) == \A i \in YearIndex : m.chan.buf.table[i] = 0 /\ ~m.years[i].loaded

LEMMA GetYearNodeFollows ==
  ASSUME NEW K, NEW D, NEW m, FileOK(K, D, Flushed), OnlyChannelNew(K, Len(Flushed.nodes)),
         Holds(K, D, Len(Flushed.nodes), m), m.open, m.chan.loaded, m.chan.buf.base # 0, NEW i \in YearIndex,
         Follows(Flushed, m), m.writes = <<>> \/ NothingThere(m)
  PROVE  LET n == GetYearNode(m, i) IN
         /\ Follows(Flushed, n) /\ n.writes = m.writes
         /\ n.writes = <<>> \/ \A j \in DayIndex : n.years[i].buf.table[j] = 0
<1> DEFINE F == Len(Flushed.nodes)
           at == m.chan.buf.table[i]
           node == IF at # 0 THEN LoadedNode(at, OnDisk(at)) ELSE NewNode(NewYearBuffer)
           n == WithYear(m, i, node)
<1>1. m \in Memory /\ MemoryOK(K, D, m) /\ m.chan.buf \in ChannelBuffer /\ Fits(K, D, Channel, m.chan.buf)
  BY ChannelFits DEF Holds, MemoryOK, NodeOK
<1>2. CASE m.years[i].loaded
  BY <1>2 DEF GetYearNode, NothingThere
<1>3. CASE ~m.years[i].loaded
  <2>1. GetYearNode(m, i) = n
    BY <1>3 DEF GetYearNode, WithYear
  <2>2. AsOnDisk(Flushed, m, node, at)
    <3>1. CASE at = 0
      BY <3>1 DEF AsOnDisk, NewNode
    <3>2. CASE at # 0
      <4>1. Is(K, at, YearNo(m.chan.buf.base + i))
        BY <1>1, <3>2, ChannelFits DEF LeadsTo
      <4>2. at \in 1 .. F
        BY <4>1, YearInFile, Zenon
      <4>3. m.writes = <<>>
        BY <3>2 DEF NothingThere
      <4> QED  BY <3>2, <4>2, <4>3 DEF AsOnDisk, LoadedNode, OnDisk
    <3> QED  BY <3>1, <3>2
  <2>3. n.years[i] = node
    BY <1>1 DEF WithYear, Memory
  <2>4. m.writes = <<>> \/ \A j \in DayIndex : node.buf.table[j] = 0
    BY Zenon DEF NothingThere, NewNode, NewYearBuffer
  <2> HIDE DEF node, at
  <2>5. Follows(Flushed, n) /\ n.writes = m.writes
    <3>1. AsOnDisk(Flushed, m, node, m.chan.buf.table[i])
      BY <2>2 DEF at
    <3> QED  BY <1>1, <1>3, <3>1, SetYearFollows
  <2> HIDE DEF n
  <2> QED  BY <2>1, <2>3, <2>4, <2>5
<1> QED  BY <1>2, <1>3

LEMMA GetDateNodeFollows ==
  ASSUME NEW K, NEW D, NEW m, FileOK(K, D, Flushed), OnlyChannelNew(K, Len(Flushed.nodes)),
         Holds(K, D, Len(Flushed.nodes), m), m.open, m.chan.loaded, m.chan.buf.base # 0,
         NEW d \in Days, d \in D, YearAt(m, d) \in YearIndex, m.years[YearAt(m, d)].loaded,
         Follows(Flushed, m), m.writes = <<>> \/ m.years[YearAt(m, d)].buf.table[d % YearDays] = 0
  PROVE  Follows(Flushed, GetDateNode(m, d))
<1> DEFINE F == Len(Flushed.nodes)
           i == YearAt(m, d)
           at == m.years[i].buf.table[d % YearDays]
           y == m.chan.buf.base + i
           node == IF at # 0 THEN LoadedNode(at, OnDisk(at)) ELSE NewNode(NewDayBuffer)
           n == WithDay(m, d, node)
<1>1. /\ m \in Memory /\ MemoryOK(K, D, m) /\ m.chan.buf \in ChannelBuffer /\ F \in Nat
      /\ m.years[i].buf \in YearBuffer /\ Fits(K, D, YearNo(y), m.years[i].buf)
  <2> HIDE DEF node, n, at
  <2> QED  BY ChannelFits, YearFits DEF Holds, MemoryOK, NodeOK, FileOK
<1>2. y = YearOfDay(d) /\ d % YearDays \in DayIndex /\ d = (y - 1) * YearDays + (d % YearDays)
  <2>1. d \in Nat
    BY DaysAreNumbers
  <2>2. YearOfDay(d) \in Nat /\ m.chan.buf.base \in Nat
    BY <1>1, <2>1, DayInYear DEF ChannelBuffer
  <2>3. y = YearOfDay(d)
    <3> HIDE DEF node, n, at
    <3> QED  BY <2>2 DEF YearAt
  <2> QED  BY <2>1, <2>3, DayInYear
<1>3. CASE m.days[d].loaded
  BY <1>3 DEF GetDateNode
<1>4. CASE ~m.days[d].loaded
  <2>1. GetDateNode(m, d) = IF at # 0 THEN n ELSE UpdateDay(n, d)
    BY <1>4 DEF GetDateNode, WithDay
  <2>2. AsOnDisk(Flushed, m, node, at) /\ node \in Node(DayBuffer) /\ node.loaded /\ NodeOK(K, D, DayNo(d), node)
    <3>1. CASE at = 0
      <4>1. AsOnDisk(Flushed, m, node, at)
        BY <3>1 DEF AsOnDisk, NewNode
      <4>2. node = NewNode(NewDayBuffer)
        BY <3>1
      <4> HIDE DEF node
      <4> QED  BY <4>1, <4>2, NewBuffers, NewNodeIs
    <3>2. CASE at # 0
      <4>1. Is(K, at, DayNo(d))
        <5>1. LeadsTo(K, at, DayNo((y - 1) * YearDays + (d % YearDays)))
          BY <1>1, <1>2, YearFits
        <5> QED  BY <1>2, <3>2, <5>1 DEF LeadsTo
      <4>2. at \in 1 .. F
        BY <4>1, DayInFile, Zenon
      <4>3. m.writes = <<>>
        BY <3>2
      <4>4. AsOnDisk(Flushed, m, node, at)
        BY <3>2, <4>2, <4>3 DEF AsOnDisk, LoadedNode, OnDisk
      <4>5. node = LoadedNode(at, OnDisk(at))
        BY <3>2
      <4> HIDE DEF at, node
      <4>6. Fits(K, D, DayNo(d), OnDisk(at)) /\ OnDisk(at) \in DayBuffer /\ at \in Nat
        BY <4>1, <4>2, ReadBack, DayFits
      <4> QED  BY <4>1, <4>4, <4>5, <4>6, LoadedNodeIs
    <3> QED  BY <3>1, <3>2, Zenon
  <2> HIDE DEF node
  <2>3. Holds(K, D, F, n) /\ (n.open <=> m.open)
    BY <2>2, SetDay
  <2> HIDE DEF at
  <2>4. Follows(Flushed, n)
    <3>1. AsOnDisk(Flushed, m, node, m.years[YearAt(m, d)].buf.table[d % YearDays])
      BY <2>2 DEF at
    <3> QED  BY <1>1, <3>1, SetDayFollows, Zenon
  <2> HIDE DEF n
  <2>5. Follows(Flushed, UpdateDay(n, d))
    BY <1>1, <2>3, <2>4, UpdateDayFollows
  <2> QED  BY <2>1, <2>4, <2>5
<1> QED  BY <1>3, <1>4

LEMMA WithNodesFollows ==
  ASSUME NEW K, NEW D, NEW m, FileOK(K, D, Flushed), OnlyChannelNew(K, Len(Flushed.nodes)),
         Holds(K, D, Len(Flushed.nodes), m), m.open, m.chan.loaded, m.chan.buf.base # 0,
         NEW c \in Clips, Day(c.start) \in D, HasYear(m, c.start),
         Follows(Flushed, m), m.writes = <<>> \/ NothingThere(m)
  PROVE  Follows(Flushed, WithNodes(m, c))
<1> DEFINE F == Len(Flushed.nodes)
           d == Day(c.start)
           i == Year(c.start) - m.chan.buf.base
           n == GetYearNode(m, i)
<1>1. d \in Days /\ d \in D /\ i \in YearIndex /\ i = YearAt(m, d) /\ d % YearDays \in DayIndex
  BY ClipFacts, DayInYear DEF HasYear, YearAt
<1>2. WithNodes(m, c) = GetDateNode(n, d)
  BY DEF WithNodes
<1> HIDE DEF i, d
<1>3. Holds(K, D, F, n) /\ n.years[i].loaded /\ Grows(m, n)
  BY <1>1, GetYearNodeHolds
<1>4. Follows(Flushed, n) /\ (n.writes = <<>> \/ \A j \in DayIndex : n.years[i].buf.table[j] = 0)
  BY <1>1, GetYearNodeFollows
<1> HIDE DEF n
<1>5. YearAt(n, d) = i /\ n.chan.loaded /\ n.chan.buf.base # 0 /\ n.open
  BY <1>1, <1>3 DEF Grows, YearAt
<1>6. n.writes = <<>> \/ n.years[YearAt(n, d)].buf.table[d % YearDays] = 0
  BY <1>1, <1>4, <1>5
<1>7. Follows(Flushed, GetDateNode(n, d))
  <2>1. YearAt(n, d) \in YearIndex /\ n.years[YearAt(n, d)].loaded
    BY <1>1, <1>3, <1>5
  <2> QED  BY <1>1, <1>3, <1>4, <1>5, <1>6, <2>1, GetDateNodeFollows, Zenon
<1> QED  BY <1>2, <1>7

\* A day with a file in its slot, that was empty or of the file itself.
LEMMA SetFileFollows ==
  ASSUME NEW K, NEW D, NEW m, MemoryOK(K, D, m), NEW d, Follows(d, m),
         NEW e \in Days, m.days[e].loaded, m.days[e].seek > 0,
         NEW f \in File, NEW prev \in Nat, NEW next \in Nat,
         Day(f.start) = e => m.days[e].buf.slot[Slot(f.start)].start \in {0, f.start}
  PROVE  Follows(d, SetFile(m, e, f, prev, next))
<1> DEFINE y == m.days[e]
           place == Entry(y.seek, Slot(f.start))
           b == SetSlot(y.buf, place, f, prev, next)
           z == [y EXCEPT !.dirty = TRUE, !.buf = b]
           n == [m EXCEPT !.days[e] = z]
<1>1. m \in Memory /\ y \in Node(DayBuffer) /\ y.buf \in DayBuffer /\ f.start \in Nat
  BY MemoryParts, DayFits DEF MemoryOK, NodeOK, File
<1>2. CASE Day(f.start) # e
  BY <1>2 DEF SetFile
<1>3. CASE Day(f.start) = e
  <2>1. SetFile(m, e, f, prev, next) = n
    BY <1>3 DEF SetFile, PlaceOf
  <2>2. Slot(f.start) \in SlotIndex /\ y.seek \in Nat \ {0} /\ place \in Nat \ {0}
    <3>1. Slot(f.start) \in SlotIndex /\ y.seek \in Nat \ {0}
      BY <1>1, DayFacts DEF Node
    <3> QED  BY <3>1, EntryFacts
  <2>3. b.kind = y.buf.kind /\ y.buf.kind = "day"
    BY <1>1 DEF SetSlot, DayBuffer
  <2>4. /\ b.slot[Slot(f.start)].start = f.start
        /\ \A j \in SlotIndex \ {Slot(f.start)} : b.slot[j] = y.buf.slot[j]
    <3> HIDE DEF place, y
    <3> DEFINE s == [start |-> f.start, end |-> f.end,
                     prev |-> IF prev > 0 THEN prev ELSE y.buf.slot[Slot(f.start)].prev,
                     next |-> IF next > 0 THEN next ELSE y.buf.slot[Slot(f.start)].next]
    <3>1. b.slot[Slot(f.start)] = s /\ \A j \in SlotIndex \ {Slot(f.start)} : b.slot[j] = y.buf.slot[j]
      BY <1>1, <2>2, SetSlotIs
    <3> QED  BY <3>1
  <2>5. Below(y.buf, b)
    <3>1. \A j \in SlotIndex : y.buf.slot[j].start = 0 \/ b.slot[j].start = y.buf.slot[j].start
      BY <1>3, <2>4, Zenon
    <3> QED  BY <2>3, <3>1, Zenon DEF Below
  <2> HIDE DEF b
  <2>6. z.loaded = y.loaded /\ z.dirty = TRUE /\ z.seek = y.seek /\ z.buf = b
    BY <1>1 DEF Node
  <2> HIDE DEF z
  <2>7. /\ n.writes = m.writes /\ n.eof = m.eof /\ n.root = m.root /\ n.rootDirty = m.rootDirty
        /\ n.chan = m.chan /\ n.years = m.years /\ n.days[e] = z /\ \A k \in Days \ {e} : n.days[k] = m.days[k]
    BY <1>1 DEF Memory
  <2> HIDE DEF n
  <2>8. PICK A : Becomes(d, m.writes, A) /\ Synced(A, m)
    BY DEF Follows
  <2>9. \A k \in Days : NodeSynced(A, n.days[k])
    <3>1. NodeSynced(A, z)
      <4>1. NodeSynced(A, y) /\ y.loaded /\ z.loaded /\ z.dirty
        BY <2>6, <2>8 DEF Synced
      <4> HIDE DEF y
      <4> QED  BY <2>5, <2>6, <4>1, GrownSynced
    <3> QED  BY <2>7, <2>8, <3>1 DEF Synced
  <2>10. InTables(n)
    <3>1. InTables(m)
      BY <2>8 DEF Synced
    <3>2. \A k \in Days : n.days[k].seek = m.days[k].seek /\ (n.days[k].loaded <=> m.days[k].loaded) /\ YearAt(n, k) = YearAt(m, k)
      BY <2>6, <2>7 DEF YearAt
    <3> QED  BY <2>7, <3>1, <3>2 DEF InTables
  <2>11. Synced(A, n)
    BY <2>7, <2>8, <2>9, <2>10 DEF Synced
  <2> QED  BY <2>1, <2>7, <2>8, <2>11 DEF Follows
<1> QED  BY <1>2, <1>3

-----------------------------------------------------------------------------
(* The channel that is read from the file, or created.                     *)
LEMMA LoadLastFileFollows ==
  ASSUME NEW m \in Memory, NEW d, Follows(d, m), NEW e, NEW node
  PROVE  LET n == LoadLastFile(m, e, node) IN Follows(d, n) /\ (n.rootDirty <=> m.rootDirty)
<1> DEFINE n == LoadLastFile(m, e, node)
<1>1. /\ n.writes = m.writes /\ n.eof = m.eof /\ n.root = m.root
      /\ n.rootDirty = m.rootDirty /\ n.chan = m.chan /\ n.years = m.years /\ n.days = m.days
  BY DEF LoadLastFile, Memory
<1> HIDE DEF n
<1> QED  BY <1>1, FollowsSame DEF n

LEMMA LoadLastDayFollows ==
  ASSUME NEW K, NEW D, D \subseteq Days, NEW m, m.open, FileOK(K, D, Flushed),
         DOMAIN K \subseteq 1 .. Len(Flushed.nodes),
         Holds(K, D, Len(Flushed.nodes), m), m.chan.loaded, m.last = NoFile,
         NEW i \in YearIndex, m.years[i].loaded, m.writes = <<>>, Follows(Flushed, m)
  PROVE  LET n == LoadLastDay(m, i) IN Follows(Flushed, n) /\ (n.rootDirty <=> m.rootDirty)
<1> DEFINE F == Len(Flushed.nodes)
           year == m.years[i].buf
           y == m.chan.buf.base + i
           at == year.table[year.last]
           d == (m.chan.buf.base + i - 1) * YearDays + year.last
           node == LoadedNode(at, OnDisk(at))
           n == WithDay(m, d, node)
<1>1. CASE year.last = -1 \/ at = 0
  BY <1>1, Zenon DEF LoadLastDay
<1>2. CASE ~(year.last = -1 \/ at = 0)
  <2>1. MemoryOK(K, D, m) /\ m \in Memory
    BY DEF Holds, MemoryOK
  <2>2. m.chan.buf \in ChannelBuffer /\ m.chan.buf.base # 0 /\ Fits(K, D, YearNo(y), year)
    BY <2>1, ChannelFits DEF MemoryOK, NodeOK
  <2>3. year \in YearBuffer /\ year.last \in DayIndex /\ Is(K, at, DayNo((y - 1) * YearDays + year.last))
    BY <1>2, <2>2, YearFits DEF YearBuffer, LeadsTo
  <2>4. y \in Nat \ {0} /\ m.chan.buf.base \in Nat
    BY <2>2 DEF ChannelBuffer, YearIndex
  <2>5. d = (y - 1) * YearDays + year.last
    <3>1. m.chan.buf.base + i - 1 = y - 1
      BY <2>4, SMTT(30) DEF YearIndex
    <3> QED  BY <3>1
  <2>6. AsOnDisk(Flushed, m, node, at)
    <3>1. at \in 1 .. F
      BY <2>3 DEF Is
    <3> QED  BY <1>2, <3>1, Zenon DEF AsOnDisk, LoadedNode, OnDisk
  <2> HIDE DEF y, at, year
  <2>7. d \in Nat /\ YearOfDay(d) = y
    BY <2>3, <2>4, <2>5, DayOfIndex
  <2>8. d \in Days /\ d % YearDays = year.last
    <3>1. d \in D
      BY <2>3, <2>5 DEF Holds, Owners, Is, DayNo
    <3> HIDE DEF d
    <3>2. d = (y - 1) * YearDays + (d % YearDays) /\ d % YearDays \in DayIndex
      BY <2>7, DayInYear
    <3>3. d % YearDays \in Int /\ year.last \in Int
      BY <2>3, <3>2 DEF DayIndex
    <3>4. (y - 1) * YearDays \in Int
      BY <2>4, PositiveSizes
    <3> QED  BY <2>5, <3>1, <3>2, <3>3, <3>4
  <2>9. YearAt(m, d) = i
    BY <2>4, <2>7 DEF YearAt, y, YearIndex
  <2>10. at = m.years[YearAt(m, d)].buf.table[d % YearDays]
    BY <2>8, <2>9, Zenon DEF at, year
  <2> HIDE DEF node, d
  <2>11. Follows(Flushed, n)
    <3>1. AsOnDisk(Flushed, m, node, m.years[YearAt(m, d)].buf.table[d % YearDays])
      BY <2>6, <2>10
    <3> QED  BY <2>1, <2>8, <3>1, SetDayFollows
  <2>12. n \in Memory /\ n.rootDirty = m.rootDirty
    <3>1. node \in Node(DayBuffer)
      <4>1. at \in 1 .. F /\ Is(K, at, DayNo((y - 1) * YearDays + year.last))
        BY <2>3 DEF Is
      <4> DEFINE o == DayNo((y - 1) * YearDays + year.last)
      <4>2. Is(K, at, o) /\ at \in Nat
        BY <4>1
      <4>3. Fits(K, D, o, OnDisk(at)) /\ OnDisk(at) \in DayBuffer
        BY <4>1, ReadBack, DayFits
      <4> HIDE DEF o
      <4> QED  BY <4>2, <4>3, LoadedNodeIs DEF node
    <3> QED  BY <2>1, <3>1 DEF WithDay, Memory
  <2> HIDE DEF n
  <2>13. LET r == LoadLastFile(n, d, node) IN Follows(Flushed, r) /\ (r.rootDirty <=> n.rootDirty)
    BY <2>11, <2>12, LoadLastFileFollows
  <2>14. LoadLastDay(m, i) = LoadLastFile(n, d, node)
    BY <1>2, Zenon DEF LoadLastDay, WithDay, n, node, at, d, year
  <2> QED  BY <2>12, <2>13, <2>14
<1> QED  BY <1>1, <1>2

LEMMA LoadLastYearFollows ==
  ASSUME NEW K, NEW D, D \subseteq Days, NEW m, m.open, FileOK(K, D, Flushed),
         DOMAIN K \subseteq 1 .. Len(Flushed.nodes),
         Holds(K, D, Len(Flushed.nodes), m), m.chan.loaded, m.last = NoFile,
         \A i \in YearIndex : ~m.years[i].loaded, m.writes = <<>>, Follows(Flushed, m)
  PROVE  LET n == LoadLastYear(m) IN Follows(Flushed, n) /\ (n.rootDirty <=> m.rootDirty)
<1> DEFINE F == Len(Flushed.nodes)
           channel == m.chan.buf
           at == channel.table[channel.last]
           i == channel.last
           node == LoadedNode(at, OnDisk(at))
           n == WithYear(m, i, node)
<1>1. CASE channel.base = 0 \/ channel.last = -1 \/ at = 0
  BY <1>1 DEF LoadLastYear
<1>2. CASE ~(channel.base = 0 \/ channel.last = -1 \/ at = 0)
  <2>1. MemoryOK(K, D, m) /\ m \in Memory
    BY DEF Holds, MemoryOK
  <2>2. channel \in ChannelBuffer /\ channel.base # 0 /\ Fits(K, D, Channel, channel)
    BY <1>2, <2>1, ChannelFits DEF MemoryOK, NodeOK
  <2>3. i \in YearIndex /\ Is(K, at, YearNo(channel.base + i))
    BY <1>2, <2>2, ChannelFits DEF ChannelBuffer, LeadsTo
  <2>4. AsOnDisk(Flushed, m, node, m.chan.buf.table[i])
    <3>1. at \in 1 .. F
      BY <2>3 DEF Is
    <3> QED  BY <1>2, <3>1 DEF AsOnDisk, LoadedNode, OnDisk
  <2> HIDE DEF i, at
  <2>5. at \in Nat /\ Fits(K, D, YearNo(channel.base + i), OnDisk(at)) /\ OnDisk(at) \in YearBuffer
    <3>1. at \in 1 .. Len(Flushed.nodes)
      BY <2>3 DEF Is
    <3> QED  BY <2>3, <3>1, ReadBack, YearFits
  <2>6. node \in Node(YearBuffer) /\ node.loaded
    BY <2>3, <2>5, LoadedNodeIs
  <2>7. NodeOK(K, D, YearNo(channel.base + i), node)
    BY <2>3, <2>5, LoadedNodeIs, ZenonT(30)
  <2> HIDE DEF node
  <2>8. /\ Holds(K, D, F, n) /\ n.years[i] = node /\ (n.open <=> m.open) /\ n.chan = m.chan
        /\ n.last = m.last /\ n.prevDay = m.prevDay /\ n.writes = m.writes
    BY <2>2, <2>3, <2>6, <2>7, SetYear
  <2>9. Follows(Flushed, n)
    BY <2>1, <2>3, <2>4, SetYearFollows
  <2>10. n.rootDirty = m.rootDirty
    BY <2>1, <2>3, <2>6 DEF WithYear, Memory
  <2> HIDE DEF n
  <2>11. LET r == LoadLastDay(n, i) IN Follows(Flushed, r) /\ (r.rootDirty <=> n.rootDirty)
    BY <2>3, <2>6, <2>8, <2>9, LoadLastDayFollows
  <2>12. LoadLastYear(m) = LoadLastDay(n, i)
    BY <1>2 DEF LoadLastYear, WithYear, n, node, at, i
  <2> QED  BY <2>10, <2>11, <2>12
<1> QED  BY <1>1, <1>2

LEMMA GetChannelNodeFollows ==
  ASSUME NEW K, NEW D, D \subseteq Days, NEW m, FileOK(K, D, Flushed), m.open, m.writes = <<>>,
         DOMAIN K \subseteq 1 .. Len(Flushed.nodes),
         Holds(K, D, Len(Flushed.nodes), m), Follows(Flushed, m), TopSaved(m)
  PROVE  LET n == GetChannelNode(m) IN
         /\ Follows(Flushed, n) /\ TopSaved(n)
         /\ n.writes = <<>> \/ (NothingThere(n) /\ n.chan.buf.base = 0)
<1> DEFINE F == Len(Flushed.nodes)
           disked == LoadedNode(m.root, OnDisk(m.root))
           new == WithChannel(m, NewNode(NewChannelBuffer))
           old == WithChannel(m, disked)
<1>0. F \in Nat /\ K \in Seq(Owner) /\ MemoryOK(K, D, m) /\ m \in Memory /\ m.root \in Nat
  BY DEF FileOK, Holds, Owners, MemoryOK, Memory
<1>1. CASE m.chan.loaded
  <2>1. GetChannelNode(m) = m
    BY <1>1 DEF GetChannelNode
  <2> QED  BY <2>1
<1>2. CASE ~m.chan.loaded /\ m.root # 0
  <2>1. Is(K, m.root, Channel) /\ m.last = NoFile /\ \A i \in YearIndex : ~m.years[i].loaded
    BY <1>0, <1>2 DEF MemoryOK, LeadsTo
  <2>2. m.root \in 1 .. F
    BY <2>1 DEF Is
  <2>3. Fits(K, D, Channel, OnDisk(m.root)) /\ OnDisk(m.root) \in ChannelBuffer
    BY <2>1, <2>2, ReadBack, ChannelFits
  <2>4. disked \in Node(ChannelBuffer) /\ disked.loaded /\ NodeOK(K, D, Channel, disked) /\ ~disked.dirty
    <3>1. disked.loaded /\ ~disked.dirty
      BY DEF LoadedNode
    <3>2. disked \in Node(ChannelBuffer) /\ NodeOK(K, D, Channel, disked)
      BY <1>0, <2>1, <2>3, LoadedNodeIs
    <3> QED  BY <3>1, <3>2
  <2>5. AsOnDisk(Flushed, m, disked, m.root)
    BY <1>2, <2>2 DEF AsOnDisk, LoadedNode, OnDisk
  <2> HIDE DEF disked
  <2>6. Holds(K, D, F, old) /\ (old.open <=> m.open) /\ old.chan = disked /\ old.last = m.last
    BY <1>2, <2>4, SetChannel
  <2>7. Follows(Flushed, old) /\ old.writes = <<>>
    BY <1>0, <1>2, <2>5, SetChannelFollows
  <2>8. old.rootDirty = m.rootDirty /\ old.years = m.years
    BY <1>0 DEF WithChannel, Memory
  <2>9. GetChannelNode(m) = LoadLastYear(old)
    BY <1>2 DEF GetChannelNode, WithChannel, disked
  <2> HIDE DEF old
  <2>10. old.chan.loaded /\ old.last = NoFile /\ old.open /\ \A i \in YearIndex : ~old.years[i].loaded
    BY <2>1, <2>4, <2>6, <2>8
  <2>11. LET n == LoadLastYear(old) IN Follows(Flushed, n) /\ (n.rootDirty <=> old.rootDirty)
    BY <2>6, <2>7, <2>10, LoadLastYearFollows
  <2>12. LET n == LoadLastYear(old) IN n.chan = old.chan /\ n.writes = old.writes
    BY <2>6, <2>10, LoadLastYearHolds
  <2> DEFINE n == LoadLastYear(old)
  <2>13. Follows(Flushed, n) /\ ~n.rootDirty /\ ~n.chan.dirty /\ n.writes = <<>>
    <3>1. ~m.rootDirty
      BY DEF TopSaved
    <3>2. Follows(Flushed, n) /\ (n.rootDirty <=> old.rootDirty) /\ n.chan = old.chan /\ n.writes = old.writes
      BY <2>11, <2>12
    <3> HIDE DEF n
    <3> QED  BY <2>4, <2>6, <2>7, <2>8, <3>1, <3>2
  <2> QED  BY <2>9, <2>13 DEF TopSaved
<1>3. CASE ~m.chan.loaded /\ ~(m.root # 0)
  <2> DEFINE x == NewNode(NewChannelBuffer)
  <2>1. /\ x \in Node(ChannelBuffer) /\ x.loaded /\ NodeOK(K, D, Channel, x)
        /\ x.buf.base = 0 /\ (\A i \in YearIndex : x.buf.table[i] = 0) /\ AsOnDisk(Flushed, m, x, m.root)
    <3>1. x \in Node(ChannelBuffer) /\ x.loaded /\ NodeOK(K, D, Channel, x)
      BY NewBuffers, NewNodeIs
    <3>2. x.buf.base = 0 /\ (\A i \in YearIndex : x.buf.table[i] = 0) /\ AsOnDisk(Flushed, m, x, m.root)
      BY <1>3 DEF NewNode, NewChannelBuffer, AsOnDisk
    <3> QED  BY <3>1, <3>2
  <2> HIDE DEF x
  <2>2. /\ Holds(K, D, F, new) /\ (new.open <=> m.open) /\ new.chan = x
    BY <1>3, <2>1, SetChannel DEF x
  <2>3. Follows(Flushed, new)
    BY <1>0, <1>3, <2>1, SetChannelFollows DEF x
  <2>4. new.years = m.years /\ \A i \in YearIndex : ~m.years[i].loaded
    BY <1>0, <1>3 DEF WithChannel, Memory, MemoryOK
  <2>5. GetChannelNode(m) = UpdateRoot(UpdateChannel(new))
    BY <1>3 DEF GetChannelNode, WithChannel
  <2> HIDE DEF new
  <2>6. LET n == UpdateRoot(UpdateChannel(new)) IN
        Follows(Flushed, n) /\ TopSaved(n) /\ n.chan.buf = new.chan.buf /\ n.years = new.years /\ n.days = new.days
    BY <1>0, <2>2, <2>3, SaveChannelFollows
  <2> QED  BY <2>1, <2>2, <2>4, <2>5, <2>6 DEF NothingThere
<1> QED  BY <1>1, <1>2, <1>3

-----------------------------------------------------------------------------
(* A file that gets an entry, or a file before that gets a link, is        *)
(* written: the queue is not empty then.                                   *)
LEMMA MoreWrites ==
  ASSUME NEW m \in Memory
  PROVE  /\ UpdateRoot(m).writes = <<>> => m.writes = <<>>
         /\ UpdateChannel(m).writes = <<>> => m.writes = <<>>
         /\ \A i : UpdateYear(m, i).writes = <<>> => m.writes = <<>>
         /\ \A e : UpdateDay(m, e).writes = <<>> => m.writes = <<>> /\ (~m.days[e].dirty \/ ~m.open)
<1>1. m.writes \in Seq(Write) /\ \A w : Append(m.writes, w) # <<>>
  BY DEF Memory
<1>2. UpdateRoot(m) # m => \E w : UpdateRoot(m).writes = Append(m.writes, w)
  BY DEF UpdateRoot, Written, Memory
<1>3. UpdateChannel(m) # m => \E w : UpdateChannel(m).writes = Append(m.writes, w)
  BY DEF UpdateChannel, Written, Memory
<1>4. ASSUME NEW i, UpdateYear(m, i) # m PROVE \E w : UpdateYear(m, i).writes = Append(m.writes, w)
  BY <1>4 DEF UpdateYear, Written, Memory
<1>5. ASSUME NEW e, ~(~m.days[e].dirty \/ ~m.open) PROVE \E w : UpdateDay(m, e).writes = Append(m.writes, w)
  BY <1>5 DEF UpdateDay, Written, Memory
<1>6. ASSUME NEW e, ~m.days[e].dirty \/ ~m.open PROVE UpdateDay(m, e) = m
  BY <1>6 DEF UpdateDay
<1> QED  BY <1>1, <1>2, <1>3, <1>4, <1>5, <1>6

LEMMA SaveTreeWrites ==
  ASSUME NEW K, NEW D, NEW F \in Nat, NEW m, Holds(K, D, F, m), m.open,
         NEW e \in Days, m.days[e].loaded, SaveTree(m, e).writes = <<>>
  PROVE  ~m.days[e].dirty
<1> DEFINE p == UpdateDay(m, e)
           q == UpdateYear(p, YearAt(m, e))
           r == UpdateChannel(q)
<1>0. m.chan.loaded /\ YearAt(m, e) \in YearIndex
  BY LoadedDay
<1>1. PICK L \in Seq(Owner) : Holds(L, D, F, p) /\ Keeps(m, p)
  BY UpdateDayHolds
<1>2. p.open /\ YearAt(p, e) = YearAt(m, e)
  BY <1>1 DEF Keeps, YearAt
<1>3. p.writes = <<>> => ~m.days[e].dirty
  BY MoreWrites DEF Holds, MemoryOK
<1> HIDE DEF p
<1>4. PICK M \in Seq(Owner) : Holds(M, D, F, q) /\ Keeps(p, q)
  BY <1>0, <1>1, <1>2, UpdateYearHolds
<1>5. q.writes = <<>> => p.writes = <<>>
  BY <1>1, MoreWrites DEF Holds, MemoryOK
<1> HIDE DEF q
<1>6. r \in Memory
  BY <1>4, UpdateChannelHolds DEF Holds, MemoryOK
<1>7. r.writes = <<>> => q.writes = <<>>
  BY <1>4, MoreWrites DEF Holds, MemoryOK
<1> HIDE DEF r
<1>8. UpdateRoot(r).writes = <<>> => r.writes = <<>>
  BY <1>6, MoreWrites
<1>9. SaveTree(m, e) = UpdateRoot(r)
  BY <1>2 DEF SaveTree, p, q, r
<1> QED  BY <1>3, <1>5, <1>7, <1>8, <1>9

LEMMA SetFileDays ==
  ASSUME NEW m \in Memory, NEW e \in Days, NEW f, NEW prev, NEW next
  PROVE  LET n == SetFile(m, e, f, prev, next) IN
         /\ \A k \in Days \ {e} : n.days[k] = m.days[k]
         /\ m.days[e].dirty \/ Day(f.start) = e => n.days[e].dirty
<1>1. CASE Day(f.start) # e
  BY <1>1 DEF SetFile
<1>2. CASE Day(f.start) = e
  <2> DEFINE b == SetSlot(m.days[e].buf, PlaceOf(m, e, f), f, prev, next)
             z == [m.days[e] EXCEPT !.dirty = TRUE, !.buf = b]
  <2>1. SetFile(m, e, f, prev, next) = [m EXCEPT !.days[e] = z]
    BY <1>2 DEF SetFile
  <2> HIDE DEF b
  <2>2. z.dirty
    BY DEF Memory, Node
  <2> HIDE DEF z
  <2>3. [m EXCEPT !.days[e] = z].days[e] = z /\ \A k \in Days \ {e} : [m EXCEPT !.days[e] = z].days[k] = m.days[k]
    BY DEF Memory
  <2> QED  BY <2>1, <2>2, <2>3
<1> QED  BY <1>1, <1>2

-----------------------------------------------------------------------------
(* A file that is inserted: the memory is the one of the file on the disk  *)
(* after the writes, and so are the nodes for the day of the file.         *)
LEMMA FreshDay ==
  ASSUME NEW K, NEW D, NEW F, NEW m, NEW X, Linked(K, D, F, X, m), m.open, NEW c \in Clips, Fresh(X, c),
         NEW d \in Days, d = Day(c.start), m.days[d].loaded
  PROVE  m.days[d].seek > 0 /\ m.days[d].buf.slot[Slot(c.start)].start = 0
<1>1. /\ m.days[d].seek \in Nat \ {0} /\ m.days[d].seek > 0 /\ Is(K, m.days[d].seek, DayNo(d))
      /\ m.days[d].buf \in DayBuffer /\ EntriesOK(K, X, m.days[d].seek, m.days[d].buf)
  BY LoadedLinks
<1>2. m.days[d].buf.slot[Slot(c.start)] = EmptySlot
  BY <1>1, FreshSlot
<1> QED  BY <1>1, <1>2 DEF EmptySlot

LEMMA InsertFirstFollows ==
  ASSUME NEW K, NEW D, D \subseteq Days, NEW m, FileOK(K, D, Flushed), NEW X, FileLinks(K, X, Flushed),
         m.open, OnlyChannelNew(K, Len(Flushed.nodes)),
         Linked(K, D, Len(Flushed.nodes), X, m), m.chan.loaded,
         NEW c \in Clips, Day(c.start) \in D, Fresh(X, c),
         Follows(Flushed, m), TopSaved(m), m.writes = <<>> \/ (NothingThere(m) /\ m.chan.buf.base = 0)
  PROVE  LET n == InsertFirst(m, c) IN
         /\ Follows(Flushed, n)
         /\ HasYear(SetBase(m, c.start), c.start) => DaySaved(n, Day(c.start)) /\ n.writes # <<>>
         /\ ~HasYear(SetBase(m, c.start), c.start) => TopSaved(n) /\ n.chan = m.chan /\ n.writes = <<>> /\ m.chan.buf.base # 0
<1> DEFINE F == Len(Flushed.nodes)
           d == Day(c.start)
           b == SetBase(m, c.start)
           n == WithNodes(b, c)
           g == NewFile(c)
           f == [g EXCEPT !.day = d, !.seek = PlaceOf(n, d, g)]
           s == SetFile(n, d, f, 0, 0)
           r == [s EXCEPT !.last = f]
<1>0. /\ F \in Nat /\ K \in Seq(Owner) /\ c.start \in Nat /\ c.end \in Nat /\ d \in Days
      /\ Holds(K, D, F, m) /\ MemoryOK(K, D, m) /\ m \in Memory
  BY ClipFacts, LinkedOwners DEF FileOK
<1>1. /\ Holds(K, D, F, b) /\ b.chan.loaded /\ b.chan.buf.base # 0
      /\ (b.open <=> m.open) /\ b.last = m.last /\ b.prevDay = m.prevDay
  BY <1>0, SetBaseHolds
<1>2. Linked(K, D, F, X, b)
  BY <1>0, SetBaseLinks
<1>3. Follows(Flushed, b) /\ (b.writes = <<>> \/ NothingThere(b))
  <2>1. /\ Follows(Flushed, b) /\ b.writes = m.writes /\ b.years = m.years /\ b.days = m.days
        /\ b.chan.buf.table = m.chan.buf.table
    BY <1>0, SetBaseFollows
  <2> HIDE DEF b
  <2> QED  BY <2>1 DEF NothingThere
<1>4. /\ g.start = c.start /\ g.end = c.end /\ g.seek = 0 /\ g.day = -1 /\ g \in File
  BY <1>0 DEF NewFile, File, EntryNo
<1>5. CASE HasYear(b, c.start)
  <2>1. InsertFirst(m, c) = SaveTree(r, d)
    BY <1>5 DEF InsertFirst
  <2> HIDE DEF b
  <2>2. PICK L \in Seq(Owner) : Extends(K, L) /\ Linked(L, D, F, X, n)
    BY <1>1, <1>2, <1>5, WithNodesLinks
  <2>3. n.days[d].loaded /\ Grows(b, n)
    BY <1>1, <1>5, WithNodesHolds
  <2>4. n.open /\ Holds(L, D, F, n) /\ MemoryOK(L, D, n) /\ n \in Memory
    BY <1>1, <2>2, <2>3, LinkedOwners DEF Grows
  <2>5. Follows(Flushed, n)
    BY <1>1, <1>3, <1>5, WithNodesFollows
  <2> HIDE DEF n, g
  <2>6. f.start = c.start /\ f.end = c.end /\ f.day = d /\ f \in File
    <3>1. PlaceOf(n, d, g) \in EntryNo
      BY <1>0, <1>4, <2>4, PlaceIsEntry DEF EntryNo
    <3> QED  BY <1>0, <1>4, <3>1 DEF File
  <2> HIDE DEF f
  <2>7. Follows(Flushed, s)
    <3>1. n.days[d].seek > 0 /\ n.days[d].buf.slot[Slot(c.start)].start = 0
      BY <1>0, <2>2, <2>3, <2>4, FreshDay
    <3>2. Day(f.start) = d => n.days[d].buf.slot[Slot(f.start)].start \in {0, f.start}
      BY <2>6, <3>1
    <3> QED  BY <1>0, <2>3, <2>4, <2>5, <2>6, <3>1, <3>2, SetFileFollows
  <2>8. Holds(L, D, F, s) /\ Grows(n, s)
    BY <1>0, <2>3, <2>4, <2>6, SetFileHolds DEF File
  <2>81. s.days[d].dirty
    BY <1>0, <2>4, <2>6, SetFileDays
  <2> HIDE DEF s
  <2>9. s \in Memory /\ s.open /\ s.chan.loaded /\ s.days[d].loaded /\ s.prevDay \in Days \cup {-1}
    BY <1>0, <2>3, <2>4, <2>8 DEF Grows, Holds, MemoryOK, Memory
  <2>10. /\ r.writes = s.writes /\ r.eof = s.eof /\ r.root = s.root
         /\ r.rootDirty = s.rootDirty /\ r.chan = s.chan /\ r.years = s.years /\ r.days = s.days
         /\ r = WithLast(s, f, s.prevDay)
    BY <2>9 DEF Memory, WithLast
  <2>11. Holds(L, D, F, r) /\ (r.open <=> s.open)
    <3>1. f.day \in D /\ s.days[f.day].loaded
      BY <2>6, <2>9
    <3>2. LET q == WithLast(s, f, s.prevDay) IN
          /\ Holds(L, D, F, q) /\ (q.open <=> s.open) /\ q.chan = s.chan
          /\ q.years = s.years /\ q.days = s.days
          /\ q.last = f /\ q.prevDay = s.prevDay /\ q.writes = s.writes
      BY <2>6, <2>8, <2>9, <3>1, SetLast
    <3> HIDE DEF r
    <3> QED  BY <2>10, <3>2
  <2> HIDE DEF r, d
  <2>12. Follows(Flushed, r)
    BY <2>7, <2>10, FollowsSame
  <2>13. r.open /\ r.days[d].loaded
    BY <2>9, <2>10, <2>11
  <2>14. Follows(Flushed, SaveTree(r, d)) /\ DaySaved(SaveTree(r, d), d)
    BY <1>0, <2>11, <2>12, <2>13, SaveTreeFollows
  <2>15. SaveTree(r, d).writes # <<>>
    BY <1>0, <2>10, <2>11, <2>13, <2>81, SaveTreeWrites
  <2> QED  BY <1>5, <2>1, <2>14, <2>15 DEF b, d
<1>6. CASE ~HasYear(b, c.start)
  <2> DEFINE h == [m EXCEPT !.last = g]
  <2>1. m.chan.buf.base # 0
    <3> SUFFICES ASSUME m.chan.buf.base = 0 PROVE FALSE
      OBVIOUS
    <3>1. b.chan.buf.base = Year(c.start)
      BY <1>0, SetBaseHolds
    <3>2. Year(c.start) - Year(c.start) = 0 /\ 0 \in YearIndex
      BY ClipFacts, PositiveSizes DEF YearIndex
    <3> HIDE DEF b
    <3> QED  BY <1>6, <3>1, <3>2 DEF HasYear
  <2>2. b = m
    BY <2>1 DEF SetBase
  <2>3. /\ h.writes = m.writes /\ h.eof = m.eof /\ h.root = m.root /\ h.rootDirty = m.rootDirty
        /\ h.chan = m.chan /\ h.years = m.years /\ h.days = m.days
    BY <1>0 DEF Memory
  <2>4. InsertFirst(m, c) = UpdateRoot(UpdateChannel(h))
    BY <1>6, <2>2 DEF InsertFirst
  <2> HIDE DEF h
  <2>5. UpdateRoot(UpdateChannel(h)) = h
    <3>1. UpdateChannel(h) = h
      BY <2>3 DEF UpdateChannel, TopSaved
    <3> QED  BY <2>3, <3>1 DEF UpdateRoot, TopSaved
  <2>6. Follows(Flushed, h)
    BY <2>3, FollowsSame
  <2> QED  BY <1>6, <2>1, <2>3, <2>4, <2>5, <2>6 DEF TopSaved
<1> QED  BY <1>5, <1>6

LEMMA UpdateLastDayDays ==
  ASSUME NEW m \in Memory, NEW last, NEW e \in Days, last.day \in Days
  PROVE  UpdateLastDay(m, last, e).days[e] = m.days[e]
<1> DEFINE n == UpdateDay(m, last.day)
<1>1. CASE last.day = e
  BY <1>1 DEF UpdateLastDay
<1>2. CASE last.day # e
  <2>1. n.days[e] = m.days[e]
    BY <1>2 DEF UpdateDay, Written, Memory
  <2>2. \A i : UpdateYear(n, i).days = n.days
    BY DEF UpdateYear, Written
  <2> HIDE DEF n
  <2> QED  BY <1>2, <2>1, <2>2 DEF UpdateLastDay, n
<1> QED  BY <1>1, <1>2

LEMMA PutLinked ==
  ASSUME NEW K, NEW D, D \subseteq Days, NEW F, NEW m, NEW X, Linked(K, D, F, X, m), m.open,
         NEW d \in Days, m.days[d].loaded, NEW c \in Clips, Fresh(X, c), Day(c.start) = d,
         NEW f \in File, f.start = c.start, f.end = c.end, NEW prev \in Nat,
         PrevInOrder(K, m.days[d].seek, prev)
  PROVE  \E Y : Linked(K, D, F, Y, SetFile(m, d, f, prev, 0))
<1>1. EntryFits(K, D, F, X, m, d, c, f, prev)
  BY DEF EntryFits
<1>2. EntryPut(K, D, F, X, m, d, c, f, prev)
  BY <1>1, PutFirst
<1> QED  BY <1>2 DEF EntryPut

EntryAndLinkFollow(file, n, d, c, f) ==
  LET linked == SetFile(SetFile(n, d, f, n.last.seek, 0), n.last.day, n.last, 0, f.seek) IN
  /\ Follows(file, linked)
  /\ (Day(c.start) = d \/ (n.last.day = d /\ Day(n.last.start) = d)) => linked.days[d].dirty

LEMMA EntryAndLinkFollows ==
  ASSUME NEW K, NEW D, NEW F, NEW n, NEW X, NEW d, NEW c, NEW f, AfterLast(K, D, F, X, n, d, c, f),
         NEW file, Follows(file, n)
  PROVE  EntryAndLinkFollow(file, n, d, c, f)
<1> SUFFICES ASSUME D \subseteq Days, Linked(K, D, F, X, n), n.open,
                    d \in Days, n.days[d].loaded, n.last.day \in Days, n.days[n.last.day].loaded, n.last.day <= d,
                    c \in Clips, Fresh(X, c), f \in File, f.start = c.start, f.end = c.end, f.day = d
             PROVE  EntryAndLinkFollow(file, n, d, c, f)
  BY DEF AfterLast
<1> DEFINE last == n.last
           placed == SetFile(n, d, f, last.seek, 0)
           linked == SetFile(placed, last.day, last, 0, f.seek)
<1>1. /\ K \in Seq(Owner) /\ n \in Memory /\ Holds(K, D, F, n) /\ MemoryOK(K, D, n) /\ last \in File
  BY LinkedOwners, MemoryParts
<1>2. last.seek \in EntryNo /\ last.seek \in Nat /\ f.seek \in EntryNo /\ f.seek \in Nat /\ f.start \in Nat /\ f.end \in Nat
  BY <1>1, EntryNoFacts DEF File
<1>3. n.days[d].seek > 0
  BY LoadedLinks
<1>4. Day(f.start) = d => n.days[d].buf.slot[Slot(f.start)].start \in {0, f.start}
  BY FreshDay
<1>5. Follows(file, placed)
  BY <1>1, <1>2, <1>3, <1>4, SetFileFollows
<1>6. Grows(n, placed) /\ Holds(K, D, F, placed)
  BY <1>1, <1>2, SetFileHolds
<1>7. placed.open /\ placed.last = last /\ placed.days[last.day].loaded /\ placed \in Memory /\ MemoryOK(K, D, placed)
  BY <1>6, Zenon DEF Grows, Holds, MemoryOK
<1>8. \E Y : Linked(K, D, F, Y, placed)
  <2>1. CASE Day(c.start) = d
    <3>1. PrevInOrder(K, n.days[d].seek, last.seek)
      BY LastInOrder
    <3> QED  BY <1>2, <2>1, <3>1, PutLinked
  <2>2. CASE Day(c.start) # d
    BY <2>2 DEF SetFile
  <2> QED  BY <2>1, <2>2
<1>9. PICK Y : Linked(K, D, F, Y, placed)
  BY <1>8
<1>10. (Day(f.start) = d => placed.days[d].dirty) /\ (placed.days[d].dirty \/ (last.day = d /\ Day(last.start) = d) => linked.days[d].dirty)
  <2>1. Day(f.start) = d => placed.days[d].dirty
    BY <1>1, SetFileDays
  <2> HIDE DEF placed
  <2>2. placed.days[d].dirty \/ (last.day = d /\ Day(last.start) = d) => linked.days[d].dirty
    <3>1. /\ \A k \in Days \ {last.day} : linked.days[k] = placed.days[k]
          /\ placed.days[last.day].dirty \/ Day(last.start) = last.day => linked.days[last.day].dirty
      BY <1>7, SetFileDays
    <3> QED  BY <3>1
  <2> QED  BY <2>1, <2>2
<1> HIDE DEF placed
<1>11. placed.days[last.day].seek > 0
  BY <1>7, <1>9, LoadedLinks
<1>12. Day(last.start) = last.day => placed.days[last.day].buf.slot[Slot(last.start)].start \in {0, last.start}
  <2>1. LastIn(placed.days, placed.last)
    BY <1>7, <1>9, LinkedOwners DEF Links, MemoryLinks, LastOK
  <2>2. last.day # -1
    BY DaysAreNumbers
  <2> HIDE DEF last
  <2> QED  BY <1>7, <2>1, <2>2, Zenon DEF LastIn
<1>13. Follows(file, linked)
  <2> HIDE DEF last
  <2>1. last.day \in Days
    BY DEF last
  <2> QED  BY <1>1, <1>2, <1>5, <1>7, <1>11, <1>12, <2>1, SetFileFollows, Zenon
<1> QED  BY <1>10, <1>13 DEF placed, EntryAndLinkFollow

\* The last file has no entry: it came when the table of years did not reach it.
OutOfTree(m) == m.last.day = -1 \/ Day(m.last.start) # m.last.day

LEMMA InsertAfterFollows ==
  ASSUME NEW K, NEW D, D \subseteq Days, NEW m, FileOK(K, D, Flushed), NEW X, FileLinks(K, X, Flushed),
         m.open, OnlyChannelNew(K, Len(Flushed.nodes)),
         Linked(K, D, Len(Flushed.nodes), X, m), m.last.day # -1,
         NEW c \in Clips, Day(c.start) \in D, Fresh(X, c), \A k \in D : k <= Day(c.start),
         Follows(Flushed, m), m.writes = <<>>
  PROVE  LET e == InsertAfter(m, c) IN
         /\ Follows(Flushed, e)
         /\ DaySaved(e, IF HasYear(m, c.start) THEN Day(c.start) ELSE m.last.day)
         /\ e.writes = <<>> => ~HasYear(m, c.start) /\ OutOfTree(m)
<1> DEFINE F == Len(Flushed.nodes)
           has == HasYear(m, c.start)
           last == m.last
           n == IF has THEN WithNodes(m, c) ELSE m
           d == IF has THEN Day(c.start) ELSE last.day
           g == NewFile(c)
           seek == IF Day(c.start) = d THEN PlaceOf(n, d, g) ELSE 0
           f == [g EXCEPT !.day = d, !.seek = seek]
           linked == SetFile(SetFile(n, d, f, last.seek, 0), last.day, last, 0, f.seek)
           r == WithLast(linked, f, last.day)
           u == UpdateLastDay(r, last, d)
           e == SaveTree(u, d)
<1>1. /\ F \in Nat /\ K \in Seq(Owner) /\ c.start \in Nat /\ c.end \in Nat /\ Day(c.start) \in Days
      /\ m \in Memory /\ MemoryOK(K, D, m) /\ Holds(K, D, F, m)
  BY ClipFacts, LinkedOwners DEF FileOK
<1>2. /\ last.day \in Days /\ last.day \in D /\ m.days[last.day].loaded
      /\ m.chan.loaded /\ m.chan.buf.base # 0
  <2>1. last \in File /\ last.day \in D /\ m.days[last.day].loaded
    BY <1>1 DEF Memory, MemoryOK
  <2>2. last.day \in Days
    BY <2>1
  <2>3. m.chan.loaded /\ YearAt(m, last.day) \in YearIndex /\ m.years[YearAt(m, last.day)].loaded
    BY <1>1, <2>1, <2>2 DEF MemoryOK
  <2> QED  BY <1>1, <2>1, <2>2, <2>3 DEF MemoryOK
<1>3. /\ g.start = c.start /\ g.end = c.end /\ g.seek = 0 /\ g.day = -1 /\ g \in File
  BY <1>1 DEF NewFile, File, EntryNo
<1>4. InsertAfter(m, c) = SaveTree(UpdateLastDay([linked EXCEPT !.last = f, !.prevDay = last.day], last, d), d)
  BY DEF InsertAfter
<1>5. d \in Days /\ d \in D
  BY <1>1, <1>2
<1>6. n.days[d].loaded /\ Grows(m, n)
  <2>1. CASE has
    BY <1>1, <1>2, <2>1, WithNodesHolds
  <2>2. CASE ~has
    <3>1. Grows(m, m)
      BY <1>2 DEF Grows
    <3> QED  BY <1>1, <1>2, <2>2, <3>1
  <2> QED  BY <2>1, <2>2
<1>7. PICK L \in Seq(Owner) : Extends(K, L) /\ Linked(L, D, F, X, n)
  <2>1. CASE has
    BY <1>1, <1>2, <2>1, WithNodesLinks
  <2>2. CASE ~has
    BY <1>1, <2>2, ExtendsSelf
  <2> QED  BY <2>1, <2>2
<1>71. Follows(Flushed, n)
  <2>1. CASE has
    BY <1>1, <1>2, <2>1, WithNodesFollows
  <2>2. CASE ~has
    BY <2>2
  <2> QED  BY <2>1, <2>2
<1>8. n \in Memory /\ Holds(L, D, F, n) /\ n.open /\ n.last = last /\ n.days[last.day].loaded
  BY <1>2, <1>6, <1>7, LinkedOwners DEF Grows
<1>81. (has => Day(c.start) = d) /\ (~has => last.day = d)
  OBVIOUS
<1> HIDE DEF n
<1>9. f.start = c.start /\ f.end = c.end /\ f.day = d /\ f.seek = seek /\ f \in File
  <2> HIDE DEF d, g
  <2>1. seek \in EntryNo
    BY <1>1, <1>3, <1>5, <1>8, PlaceIsEntry DEF EntryNo
  <2> HIDE DEF seek
  <2> QED  BY <1>3, <1>5, <2>1 DEF File
<1> HIDE DEF f, d, has, last
<1>10. /\ Follows(Flushed, linked)
       /\ (Day(c.start) = d \/ (last.day = d /\ Day(last.start) = d)) => linked.days[d].dirty
  <2>1. EntryAndLinkFollow(Flushed, n, d, c, f)
    <3>0. D \subseteq Days /\ Fresh(X, c) /\ c \in Clips
      OBVIOUS
    <3>1. d \in Days /\ n.days[d].loaded /\ Linked(L, D, F, X, n) /\ n.open /\ n.last.day \in Days /\ n.days[n.last.day].loaded
      BY <1>2, <1>5, <1>6, <1>7, <1>8
    <3>2. n.last.day <= d
      <4>1. n.last.day \in Nat /\ n.last.day <= Day(c.start)
        BY <1>1, <1>2, <1>8, DaysAreNumbers
      <4> QED  BY <1>8, <1>81, <4>1
    <3> HIDE DEF F
    <3>3. AfterLast(L, D, F, X, n, d, c, f)
      BY <1>9, <3>0, <3>1, <3>2, Zenon DEF AfterLast
    <3> QED  BY <1>71, <3>3, EntryAndLinkFollows, Zenon
  <2> QED  BY <1>8, <2>1 DEF EntryAndLinkFollow
<1>11. Holds(L, D, F, linked) /\ Grows(n, linked)
  <2> DEFINE placed == SetFile(n, d, f, last.seek, 0)
  <2>0. last \in File
    BY <1>1, MemoryParts DEF last
  <2>1. /\ f.seek \in EntryNo /\ f.seek \in Nat /\ last.seek \in EntryNo /\ last.seek \in Nat
        /\ last.start \in Nat /\ last.end \in Nat /\ f.start \in Nat /\ f.end \in Nat
    BY <1>9, <2>0, EntryNoFacts DEF File
  <2>2. Holds(L, D, F, placed) /\ Grows(n, placed)
    BY <1>5, <1>6, <1>8, <2>1, SetFileHolds
  <2>3. placed.days[last.day].loaded
    BY <1>2, <1>8, <2>2 DEF Grows
  <2> HIDE DEF placed
  <2>4. LET q == SetFile(placed, last.day, last, 0, f.seek) IN Holds(L, D, F, q) /\ Grows(placed, q)
    BY <1>2, <2>1, <2>2, <2>3, SetFileHolds
  <2>5. linked = SetFile(placed, last.day, last, 0, f.seek)
    BY DEF placed
  <2> HIDE DEF linked
  <2> QED  BY <2>2, <2>4, <2>5, GrowsOn
<1> HIDE DEF linked
<1>12. linked.days[d].loaded /\ linked.days[last.day].loaded /\ linked.chan.loaded /\ linked.open
  BY <1>2, <1>5, <1>6, <1>8, <1>11 DEF Grows
<1>13. [linked EXCEPT !.last = f, !.prevDay = last.day] = r
  BY DEF WithLast
<1>14. /\ Holds(L, D, F, r) /\ (r.open <=> linked.open) /\ r.chan = linked.chan
       /\ r.years = linked.years /\ r.days = linked.days /\ r.writes = linked.writes
  <2>1. f.day \in D /\ linked.days[f.day].loaded
    BY <1>5, <1>9, <1>12
  <2> QED  BY <1>2, <1>9, <1>11, <1>12, <2>1, SetLast
<1>15. r.eof = linked.eof /\ r.root = linked.root /\ r.rootDirty = linked.rootDirty
  BY DEF WithLast
<1> HIDE DEF r
<1>16. Follows(Flushed, r)
  BY <1>10, <1>14, <1>15, FollowsSame
<1>17. r.days[d].loaded /\ r.days[last.day].loaded /\ r.open /\ r \in Memory
  BY <1>12, <1>14 DEF Holds, MemoryOK
<1>18. Follows(Flushed, u)
  BY <1>1, <1>2, <1>14, <1>16, <1>17, UpdateLastDayFollows
<1>19. /\ \E M \in Seq(Owner) : Extends(L, M) /\ Holds(M, D, F, u)
       /\ Keeps(r, u)
  BY <1>1, <1>2, <1>5, <1>14, <1>17, UpdateLastDayHolds
<1>20. PICK M \in Seq(Owner) : Holds(M, D, F, u)
  BY <1>19
<1>21. u.days[d].loaded /\ u.open
  BY <1>5, <1>17, <1>19 DEF Keeps
<1>22. u.days[d] = r.days[d]
  BY <1>2, <1>5, <1>17, UpdateLastDayDays
<1> HIDE DEF u
<1>23. Follows(Flushed, e) /\ DaySaved(e, d)
  BY <1>1, <1>5, <1>18, <1>20, <1>21, SaveTreeFollows
<1>24. e.writes = <<>> => ~u.days[d].dirty
  BY <1>1, <1>5, <1>20, <1>21, SaveTreeWrites
<1>25. e.writes = <<>> => ~has /\ OutOfTree(m)
  BY <1>10, <1>14, <1>22, <1>24, <1>81 DEF OutOfTree, last
<1>26. InsertAfter(m, c) = e
  BY <1>4, <1>13 DEF u
<1> HIDE DEF e
<1> QED  BY <1>23, <1>25, <1>26 DEF d, has, last

-----------------------------------------------------------------------------
(* A file is found through the tables, or it is of a year that the table   *)
(* of the channel does not reach; and what is found in a file is found in  *)
(* it when it has grown.                                                   *)
Based(d) == d.root # 0 /\ d.nodes[d.root].base # 0
Beyond(d, c) == Based(d) /\ Year(c.start) - d.nodes[d.root].base \notin YearIndex
Found(d, c) == Beyond(d, c) \/ c.start \in TreeFiles(d)

LEMMA BasedGrows ==
  ASSUME NEW K, NEW D, NEW d, FileOK(K, D, d), NEW e, FileGrows(d, e), Based(d)
  PROVE  Based(e) /\ e.root = d.root /\ e.nodes[e.root].base = d.nodes[d.root].base
<1>1. d.root \in 1 .. Len(d.nodes) /\ d.nodes[d.root].kind = "channel"
  BY TreeNodes DEF Based, IsNode
<1>2. e.root = d.root /\ Below(d.nodes[d.root], e.nodes[d.root])
  BY <1>1 DEF FileGrows, Based
<1> QED  BY <1>1, <1>2 DEF Based, Below

LEMMA FoundGrows ==
  ASSUME NEW K, NEW D, NEW d, FileOK(K, D, d), NEW e, FileGrows(d, e), NEW c, Found(d, c)
  PROVE  Found(e, c)
<1>1. CASE Beyond(d, c)
  <2>1. Beyond(e, c)
    BY <1>1, BasedGrows DEF Beyond
  <2> QED  BY <2>1 DEF Found
<1>2. CASE c.start \in TreeFiles(d)
  <2>1. PICK a \in DaysOf(d) : \E i \in SlotIndex : d.nodes[a].slot[i].start = c.start
    BY <1>2 DEF TreeFiles
  <2>2. PICK i \in SlotIndex : d.nodes[a].slot[i].start = c.start
    BY <2>1
  <2>3. PICK y \in YearsOf(d) : a \in {d.nodes[y].table[j] : j \in DayIndex} \ {0}
    BY DEF DaysOf
  <2>4. PICK j \in DayIndex : d.nodes[y].table[j] = a
    BY <2>3
  <2>5. d.root # 0 /\ y # 0 /\ a # 0 /\ c.start # 0
    <3>1. c.start # 0
      BY <1>2 DEF TreeFiles
    <3>2. d.root # 0 /\ y # 0
      BY DEF YearsOf
    <3> QED  BY <2>3, <3>1, <3>2
  <2>6. PICK k \in YearIndex : d.nodes[d.root].table[k] = y
    BY <2>5 DEF YearsOf
  <2>7. /\ d.root \in 1 .. Len(d.nodes) /\ d.nodes[d.root].kind = "channel"
        /\ y \in 1 .. Len(d.nodes) /\ d.nodes[y].kind = "year"
        /\ a \in 1 .. Len(d.nodes) /\ d.nodes[a].kind = "day"
    BY <2>5, TreeNodes DEF IsNode
  <2>8. e.root = d.root /\ Below(d.nodes[d.root], e.nodes[d.root]) /\ Below(d.nodes[y], e.nodes[y]) /\ Below(d.nodes[a], e.nodes[a])
    BY <2>5, <2>7 DEF FileGrows
  <2>9. e.nodes[e.root].table[k] = y /\ e.nodes[y].table[j] = a /\ e.nodes[a].slot[i].start = c.start
    BY <2>2, <2>4, <2>5, <2>6, <2>7, <2>8 DEF Below
  <2>10. y \in YearsOf(e)
    BY <2>5, <2>8, <2>9 DEF YearsOf
  <2>11. a \in DaysOf(e)
    BY <2>5, <2>9, <2>10 DEF DaysOf
  <2>12. c.start \in TreeFiles(e)
    <3>1. c.start \in {e.nodes[a].slot[n].start : n \in SlotIndex}
      BY <2>9
    <3> QED  BY <2>5, <2>11, <3>1 DEF TreeFiles
  <2> QED  BY <2>12 DEF Found
<1> QED  BY <1>1, <1>2 DEF Found

LEMMA SavedChannel ==
  ASSUME NEW A, NEW m, Synced(A, m), m.chan.loaded, TopSaved(m)
  PROVE  A.root # 0 /\ A.root = m.root /\ A.nodes[A.root] = m.chan.buf
BY DEF Synced, InTables, NodeSynced, TopSaved

LEMMA SavedBeyond ==
  ASSUME NEW A, NEW m, Synced(A, m), m.chan.loaded, TopSaved(m), m.chan.buf.base # 0
  PROVE  Based(A) /\ \A c : ~HasYear(m, c.start) => Beyond(A, c)
BY SavedChannel DEF Based, Beyond, HasYear

LEMMA BeyondBefore ==
  ASSUME NEW K, NEW D, NEW d, FileOK(K, D, d), NEW e, FileGrows(d, e), Based(d), NEW c, Beyond(e, c)
  PROVE  Beyond(d, c)
BY BasedGrows DEF Beyond

LEMMA SavedFound ==
  ASSUME NEW K, NEW D, D \subseteq Days, NEW F, NEW X, NEW m, Linked(K, D, F, X, m), m.open, NEW A, Synced(A, m),
         NEW c, m.last.start = c.start, m.last.day = Day(c.start), Day(c.start) \in Days, DaySaved(m, Day(c.start))
  PROVE  Found(A, c)
<1> DEFINE e == Day(c.start)
           i == YearAt(m, e)
           j == e % YearDays
           z == m.days[e]
           y == m.years[i]
<1>1. MemoryOK(K, D, m) /\ LastIn(m.days, m.last)
  BY LinkedOwners DEF Links, MemoryLinks, LastOK
<1>2. e # -1 /\ e \in Nat
  <2>1. e \in Nat
    BY DaysAreNumbers
  <2> HIDE DEF e
  <2> QED  BY <2>1
<1>3. z.loaded /\ m.chan.loaded /\ i \in YearIndex /\ y.loaded
  BY <1>1, <1>2 DEF MemoryOK
<1>4. z.seek \in Nat \ {0} /\ z.buf.slot[Slot(c.start)].start = c.start /\ c.start # 0
  <2>1. z.seek \in Nat \ {0}
    BY <1>3, LoadedLinks
  <2>2. z.buf.slot[Slot(c.start)].start = c.start /\ c.start # 0
    BY <1>1, <1>2 DEF LastIn
  <2> QED  BY <2>1, <2>2
<1>5. Slot(c.start) \in SlotIndex /\ j \in DayIndex
  <2>1. m.last.start \in Nat
    BY <1>1, MemoryParts DEF MemoryOK, File
  <2>2. Slot(c.start) \in SlotIndex
    BY <2>1, DayFacts
  <2> QED  BY <1>2, <2>2, DayInYear
<1>6. /\ m.chan.buf.table[i] = y.seek /\ y.buf.table[j] = z.seek
      /\ A.root # 0 /\ A.nodes[A.root] = m.chan.buf
  <2>1. InTables(m)
    BY DEF Synced
  <2>2. m.chan.buf.table[i] = y.seek
    BY <1>3, <2>1 DEF InTables
  <2>3. y.buf.table[j] = z.seek
    BY <1>3, <2>1 DEF InTables
  <2>4. TopSaved(m)
    BY DEF DaySaved
  <2> QED  BY <1>3, <2>2, <2>3, <2>4, SavedChannel
<1>7. y.seek # 0 /\ A.nodes[y.seek] = y.buf /\ A.nodes[z.seek] = z.buf
  <2>1. NodeSynced(A, y) /\ NodeSynced(A, z)
    BY <1>3 DEF Synced
  <2>2. ~y.dirty /\ ~z.dirty
    BY DEF DaySaved
  <2> QED  BY <1>3, <1>4, <2>1, <2>2 DEF NodeSynced
<1>8. y.seek \in YearsOf(A)
  BY <1>3, <1>6, <1>7, Zenon DEF YearsOf
<1>9. z.seek \in DaysOf(A)
  <2>1. z.seek = A.nodes[y.seek].table[j] /\ z.seek # 0
    BY <1>4, <1>6, <1>7
  <2>2. y.seek \in YearsOf(A) /\ j \in DayIndex
    BY <1>5, <1>8
  <2> HIDE DEF y, z, j
  <2> QED  BY <2>1, <2>2 DEF DaysOf
<1>10. c.start \in TreeFiles(A)
  <2>1. c.start \in {A.nodes[z.seek].slot[n].start : n \in SlotIndex}
    BY <1>4, <1>5, <1>7, Zenon
  <2> HIDE DEF z
  <2> QED  BY <1>4, <1>9, <2>1 DEF TreeFiles
<1> QED  BY <1>10 DEF Found

-----------------------------------------------------------------------------
(* InsertIndex as a whole, while the index file is open.                   *)
LEMMA InsertedFollows ==
  ASSUME NEW K, NEW D, D \subseteq Days, NEW m, FileOK(K, D, Flushed), m.writes = <<>>, m.open,
         NEW X, FileLinks(K, X, Flushed), Linked(K, D, Len(Flushed.nodes), X, m),
         NEW c \in Clips, Day(c.start) \in D, Fresh(X, c), \A k \in D : k <= Day(c.start),
         Follows(Flushed, m), TopSaved(m)
  PROVE  LET n == GetChannelNode(m)
             r == Inserted(n, c)
         IN /\ Follows(Flushed, r) /\ TopSaved(r) /\ r.chan.loaded /\ r.open
            /\ n.last = NoFile =>
                 IF HasYear(SetBase(n, c.start), c.start)
                 THEN DaySaved(r, Day(c.start)) /\ r.writes # <<>>
                 ELSE r.writes = <<>> /\ r.chan = n.chan /\ n.chan.buf.base # 0
            /\ n.last # NoFile /\ n.last.day # -1 =>
                 /\ Based(Flushed) /\ r.chan.buf.base = n.chan.buf.base /\ n.chan.buf.base # 0
                 /\ HasYear(n, c.start) => DaySaved(r, Day(c.start))
                 /\ r.writes = <<>> => ~HasYear(n, c.start) /\ OutOfTree(n)
<1> DEFINE F == Len(Flushed.nodes)
           n == GetChannelNode(m)
           r == Inserted(n, c)
<1>1. F \in Nat /\ K \in Seq(Owner) /\ Holds(K, D, F, m)
  BY LinkedOwners DEF FileOK
<1>2. DOMAIN K \subseteq 1 .. F
  BY <1>1, NothingToWrite
<1>3. PICK L \in Seq(Owner) : Extends(K, L) /\ Linked(L, D, F, X, n)
                              /\ (\A a \in DOMAIN L : a \in DOMAIN K \/ L[a] = Channel)
  BY <1>2, GetChannelNodeLinks
<1>4. n.chan.loaded /\ n.open
  BY <1>1, <1>2, GetChannelNodeHolds
<1>5. Follows(Flushed, n) /\ TopSaved(n) /\ (n.writes = <<>> \/ (NothingThere(n) /\ n.chan.buf.base = 0))
  BY <1>1, <1>2, GetChannelNodeFollows
<1> HIDE DEF n
<1>6. OnlyChannelNew(L, F)
  BY <1>2, <1>3 DEF OnlyChannelNew
<1>7. FileOK(L, D, Flushed) /\ FileLinks(L, X, Flushed) /\ Holds(L, D, F, n) /\ MemoryOK(L, D, n)
  BY <1>1, <1>3, FileOn, FileLinksOn, LinkedOwners
<1>8. CASE n.last = NoFile
  <2>1. r = InsertFirst(n, c)
    BY <1>8 DEF Inserted
  <2> HIDE DEF r
  <2>2. /\ Follows(Flushed, r)
        /\ HasYear(SetBase(n, c.start), c.start) => DaySaved(r, Day(c.start)) /\ r.writes # <<>>
        /\ ~HasYear(SetBase(n, c.start), c.start) => TopSaved(r) /\ r.chan = n.chan /\ r.writes = <<>> /\ n.chan.buf.base # 0
    BY <1>3, <1>4, <1>5, <1>6, <1>7, <2>1, InsertFirstFollows
  <2>3. r.chan.loaded /\ r.open
    BY <1>4, <1>6, <1>7, <2>1, InsertFirstHolds
  <2> QED  BY <1>8, <2>2, <2>3 DEF DaySaved, r, n
<1>9. CASE n.last # NoFile /\ n.last.day = -1
  <2>1. r = n
    BY <1>9 DEF Inserted
  <2> QED  BY <1>4, <1>5, <1>9, <2>1 DEF r, n
<1>10. CASE n.last # NoFile /\ n.last.day # -1
  <2>1. r = InsertAfter(n, c)
    BY <1>10 DEF Inserted
  <2> HIDE DEF r
  <2>2. n.last.day \in Days /\ n.days[n.last.day].loaded
    BY <1>7, <1>10 DEF MemoryOK
  <2>3. n.chan.buf.base # 0 /\ YearAt(n, n.last.day) \in YearIndex /\ n.years[YearAt(n, n.last.day)].loaded
    BY <1>7, <2>2 DEF MemoryOK
  <2>4. n.writes = <<>>
    BY <1>5, <2>3
  <2>5. /\ Follows(Flushed, r)
        /\ DaySaved(r, IF HasYear(n, c.start) THEN Day(c.start) ELSE n.last.day)
        /\ r.writes = <<>> => ~HasYear(n, c.start) /\ OutOfTree(n)
    BY <1>3, <1>4, <1>5, <1>6, <1>7, <1>10, <2>1, <2>4, InsertAfterFollows
  <2>6. r.chan.loaded /\ r.chan.buf.base = n.chan.buf.base /\ r.open
    BY <1>4, <1>6, <1>7, <1>10, <2>1, InsertAfterHolds
  <2>7. Based(Flushed)
    <3>1. PICK A : Becomes(Flushed, n.writes, A) /\ Synced(A, n)
      BY <1>5 DEF Follows
    <3>2. A = Flushed
      BY <2>4, <3>1, BecomesEnd
    <3> QED  BY <1>4, <1>5, <2>3, <3>1, <3>2, SavedBeyond
  <2>8. TopSaved(r)
    BY <2>5 DEF DaySaved
  <2> QED  BY <1>10, <2>3, <2>5, <2>6, <2>7, <2>8 DEF r, n
<1> QED  BY <1>8, <1>9, <1>10

-----------------------------------------------------------------------------
(* The invariant: what the recorder holds is what the file is to become,   *)
(* and what is found in the file when it is flushed is found in it now,    *)
(* all but one file.                                                       *)
NotReached(base, S) == \E x \in S : Year(x.start) - base >= YearCap

InMemory ==
  mem.open =>
    /\ TopSaved(mem)
    /\ mem.last = NoFile => pending = <<>> /\ mem.writes = <<>>
    /\ mem.last # NoFile /\ OutOfTree(mem) => Based(Flushed) /\ (mem.writes = <<>> => Based(disk))
    /\ mem.last # NoFile /\ mem.last.day = -1 =>
         /\ mem.writes = <<>> /\ mem.chan.loaded /\ mem.chan.buf.base # 0
         /\ NotReached(mem.chan.buf.base, AddedFiles)
    /\ \E A : /\ Becomes(Flushed, mem.writes, A) /\ Synced(A, mem)
              /\ \A c \in InHand : Found(A, c)

\* The files that are not found are Lost; when the write in the buffer is lost, e is, too.
AllButLost(Lost, e) ==
  /\ \A c \in Complete \ Lost : Found(Flushed, c)
  /\ \A c \in Complete \ (Lost \cup {e}) : Found(disk, c)
InFile ==
  /\ FileGrows(disk, Flushed)
  /\ \E Lost, e : /\ IsFiniteSet(Lost) /\ Cardinality(Lost) <= faults.crashes + faults.failures
                  /\ AllButLost(Lost, e)

LossInv == InMemory /\ InFile

\* A file that is added while the index file is open is found in the end.
LEMMA InsertFinds ==
  ASSUME LinkInv, LinkInv', IndexInv, LossInv, NEW c \in Clips, InsertIndex(c), mem.open
  PROVE  /\ TopSaved(mem') /\ mem'.last # NoFile
         /\ OutOfTree(mem') => Based(Flushed) /\ (mem'.writes = <<>> => Based(disk))
         /\ mem'.last.day = -1 =>
              /\ mem'.writes = <<>> /\ mem'.chan.loaded /\ mem'.chan.buf.base # 0
              /\ NotReached(mem'.chan.buf.base, AddedFiles')
         /\ \E A : Becomes(Flushed, mem'.writes, A) /\ Synced(A, mem') /\ Found(A, c)
         /\ mem'.writes = <<>> => Found(disk, c)
<1> DEFINE D == AddedDays
           E == AddedDays \cup {Day(c.start)}
           F == Len(Flushed.nodes)
           n == GetChannelNode(mem)
           b == n.chan.buf.base
           r == mem'
<1>1. /\ mem' = Inserted(GetChannelNode(mem), c) /\ mem.writes = <<>> /\ c \notin AddedFiles
      /\ disk' = disk /\ pending' = pending /\ added' = Append(added, c) /\ added \in Seq(Clips)
  BY DEF InsertIndex, Inserted, LinkInv
<1>2. added' \in Seq(Clips) /\ AddedDays' = E /\ AddedFiles' = AddedFiles \cup {c}
  BY <1>1, AddedMore
<1>3. E \subseteq Days /\ D \subseteq E /\ Day(c.start) \in E /\ Day(c.start) \in Days /\ c.start # 0
      /\ Day(c.start) # -1 /\ Year(c.start) \in Nat
  BY <1>1, AddedFacts, ClipFacts
<1>4. PICK K, X : /\ FileOK(K, D, disk) /\ FileOK(K, D, Flushed)
                  /\ FilesOK(X) /\ FileLinks(K, X, disk) /\ FileLinks(K, X, Flushed)
                  /\ Linked(K, D, F, X, mem)
  BY DEF LinkInv
<1>5. K \in Seq(Owner) /\ Extends(K, K) /\ Fresh(X, c)
  BY <1>1, <1>4, ExtendsSelf, LinkedOwners, NewFileFresh
<1>6. PICK L, Y : Linked(L, AddedDays', Len(Flushed'.nodes), Y, mem')
  BY DEF LinkInv
<1>7. /\ r = Inserted(n, c) /\ n.chan.loaded
      /\ (mem.chan.loaded /\ n.last = mem.last) \/ n.last = NoFile \/ (n.last.seek # 0 /\ n.last.day # -1)
      /\ IF mem.chan.loaded THEN n.last = mem.last ELSE mem.last = NoFile
      /\ SetBase(n, c.start).chan.buf.base = IF b = 0 THEN Year(c.start) ELSE b
      /\ b \in Nat /\ (b = 0 \/ b \in {YearOfDay(d) : d \in AddedDays})
  BY InsertIndexMemory
<1>8. /\ n.last = NoFile =>
           /\ r.last.start = c.start
           /\ r.last.day = IF HasYear(SetBase(n, c.start), c.start) THEN Day(c.start) ELSE -1
      /\ n.last # NoFile /\ n.last.day = -1 => r = n
      /\ n.last # NoFile /\ n.last.day # -1 =>
           /\ r.last.start = c.start
           /\ r.last.day = IF HasYear(n, c.start) THEN Day(c.start) ELSE n.last.day
  BY InsertIndexMemory
<1>17. \A k \in E : k <= Day(c.start)
  BY <1>1, DaysInOrder
<1> HIDE DEF D, E, F
<1>9. TopSaved(mem) /\ Follows(Flushed, mem) /\ FileGrows(disk, Flushed)
  BY DEF LossInv, InMemory, InFile, Follows
<1>10. /\ Follows(Flushed, r) /\ TopSaved(r) /\ r.chan.loaded /\ r.open
       /\ n.last = NoFile =>
            IF HasYear(SetBase(n, c.start), c.start)
            THEN DaySaved(r, Day(c.start)) /\ r.writes # <<>>
            ELSE r.writes = <<>> /\ r.chan = n.chan /\ n.chan.buf.base # 0
       /\ n.last # NoFile /\ n.last.day # -1 =>
            /\ Based(Flushed) /\ r.chan.buf.base = n.chan.buf.base /\ n.chan.buf.base # 0
            /\ HasYear(n, c.start) => DaySaved(r, Day(c.start))
            /\ r.writes = <<>> => ~HasYear(n, c.start) /\ OutOfTree(n)
  <2>1. FileOK(K, E, Flushed) /\ Linked(K, E, F, X, mem)
    BY <1>3, <1>4, <1>5, FileOn, MoreDays DEF Linked
  <2>2. LET y == GetChannelNode(mem)
            z == Inserted(y, c)
        IN /\ Follows(Flushed, z) /\ TopSaved(z) /\ z.chan.loaded /\ z.open
           /\ y.last = NoFile =>
                IF HasYear(SetBase(y, c.start), c.start)
                THEN DaySaved(z, Day(c.start)) /\ z.writes # <<>>
                ELSE z.writes = <<>> /\ z.chan = y.chan /\ y.chan.buf.base # 0
           /\ y.last # NoFile /\ y.last.day # -1 =>
                /\ Based(Flushed) /\ z.chan.buf.base = y.chan.buf.base /\ y.chan.buf.base # 0
                /\ HasYear(y, c.start) => DaySaved(z, Day(c.start))
                /\ z.writes = <<>> => ~HasYear(y, c.start) /\ OutOfTree(y)
    BY <1>1, <1>3, <1>4, <1>5, <1>9, <1>17, <2>1, InsertedFollows DEF F
  <2> QED  BY <1>1, <2>2
<1>11. PICK A : Becomes(Flushed, r.writes, A) /\ Synced(A, r)
  BY <1>10 DEF Follows
<1>12. r.writes = <<>> => A = Flushed
  BY <1>11, BecomesEnd
<1>13. r.open
  BY <1>10
<1> HIDE DEF n, r
<1>14. r.last.start = c.start /\ r.last.day = Day(c.start) /\ DaySaved(r, Day(c.start)) => Found(A, c)
  <2>1. AddedDays' \subseteq Days
    BY <1>2, <1>3
  <2>2. Linked(L, AddedDays', Len(Flushed'.nodes), Y, r)
    BY <1>6 DEF r
  <2> QED  BY <1>3, <1>11, <1>13, <2>1, <2>2, SavedFound
<1>15. mem.last = NoFile => disk = Flushed
  <2>1. mem.last = NoFile => pending = <<>>
    BY DEF LossInv, InMemory
  <2> QED  BY <2>1 DEF Flushed
<1>16. \A d \in AddedDays : YearOfDay(d) <= Year(c.start)
  BY <1>1, ComesAfter
<1> DEFINE Goal ==
      /\ r.last # NoFile
      /\ OutOfTree(r) => Based(Flushed) /\ (r.writes = <<>> => Based(disk))
      /\ r.last.day = -1 =>
           /\ r.writes = <<>> /\ r.chan.buf.base # 0
           /\ NotReached(r.chan.buf.base, AddedFiles')
      /\ Found(A, c)
      /\ r.writes = <<>> => Found(disk, c)
<1>30. ASSUME n.last = NoFile PROVE Goal
  <2>1. mem.last = NoFile
    BY <1>7, <1>30
  <2>2. r.last.start = c.start /\ r.last # NoFile
    BY <1>3, <1>8, <1>30 DEF NoFile
  <2>3. CASE HasYear(SetBase(n, c.start), c.start)
    <3>1. r.last.day = Day(c.start) /\ DaySaved(r, Day(c.start)) /\ r.writes # <<>>
      BY <1>8, <1>10, <1>30, <2>3
    <3> QED  BY <1>3, <1>14, <2>2, <3>1 DEF OutOfTree
  <2>4. CASE ~HasYear(SetBase(n, c.start), c.start)
    <3>1. r.last.day = -1 /\ r.writes = <<>> /\ r.chan = n.chan /\ b # 0
      BY <1>8, <1>10, <1>30, <2>4
    <3>2. Year(c.start) - b \notin YearIndex
      BY <1>7, <2>4, <3>1 DEF HasYear
    <3>3. ~HasYear(r, c.start)
      BY <3>1, <3>2 DEF HasYear
    <3>4. Based(A) /\ Beyond(A, c)
      BY <1>10, <1>11, <3>1, <3>3, SavedBeyond
    <3>5. NotReached(b, AddedFiles')
      <4>1. b <= Year(c.start)
        BY <1>7, <1>16, <3>1
      <4>2. Year(c.start) - b >= YearCap
        BY <1>3, <1>7, <3>2, <4>1, FileIndexAssumption DEF YearIndex
      <4> QED  BY <1>2, <4>2 DEF NotReached
    <3> QED  BY <1>12, <1>15, <2>1, <2>2, <3>1, <3>4, <3>5 DEF Found
  <2> QED  BY <2>3, <2>4
<1>18. ASSUME n.last # NoFile, n.last.day = -1 PROVE Goal
  <2>1. mem.chan.loaded /\ n.last = mem.last /\ n = mem /\ r = mem
    <3>1. mem.chan.loaded /\ n.last = mem.last /\ r = n
      BY <1>7, <1>8, <1>18
    <3> QED  BY <3>1 DEF n, GetChannelNode
  <2>2. mem.last # NoFile /\ mem.last.day = -1 /\ OutOfTree(mem)
    BY <1>18, <2>1 DEF OutOfTree
  <2>3. /\ Based(Flushed) /\ Based(disk)
        /\ mem.chan.buf.base # 0 /\ NotReached(mem.chan.buf.base, AddedFiles)
    BY <1>1, <2>2 DEF LossInv, InMemory
  <2>4. NotReached(mem.chan.buf.base, AddedFiles')
    BY <1>2, <2>3 DEF NotReached
  <2>5. ~HasYear(mem, c.start)
    <3>1. PICK x \in AddedFiles : Year(x.start) - b >= YearCap
      BY <2>1, <2>3 DEF NotReached
    <3>2. x \in Clips /\ Day(x.start) \in AddedDays
      BY <1>1, AddedFacts DEF AddedDays
    <3>3. Year(x.start) \in Nat /\ Year(x.start) <= Year(c.start)
      BY <1>16, <3>2, ClipFacts
    <3>4. Year(c.start) - b >= YearCap
      BY <1>3, <1>7, <3>1, <3>3, FileIndexAssumption
    <3>5. Year(c.start) - b \notin YearIndex
      BY <1>3, <1>7, <3>4, FileIndexAssumption DEF YearIndex
    <3> QED  BY <2>1, <3>5 DEF HasYear
  <2>6. Beyond(A, c) /\ A = Flushed
    <3>1. ~HasYear(r, c.start) /\ r.chan.buf.base # 0 /\ r.writes = <<>>
      BY <1>1, <2>1, <2>3, <2>5
    <3> QED  BY <1>10, <1>11, <1>12, <3>1, SavedBeyond
  <2>7. Beyond(disk, c)
    BY <1>4, <1>9, <2>3, <2>6, BeyondBefore
  <2> QED  BY <1>1, <2>1, <2>2, <2>3, <2>4, <2>6, <2>7 DEF Found
<1>19. ASSUME n.last # NoFile, n.last.day # -1 PROVE Goal
  <2>1. r.last.start = c.start /\ r.last # NoFile
    BY <1>3, <1>8, <1>19 DEF NoFile
  <2>2. CASE HasYear(n, c.start)
    <3>1. r.last.day = Day(c.start) /\ DaySaved(r, Day(c.start)) /\ r.writes # <<>>
      BY <1>8, <1>10, <1>19, <2>2
    <3> QED  BY <1>3, <1>14, <2>1, <3>1 DEF OutOfTree
  <2>3. CASE ~HasYear(n, c.start)
    <3>1. /\ Based(Flushed) /\ r.chan.buf.base = b /\ b # 0
          /\ r.writes = <<>> => OutOfTree(n)
      BY <1>10, <1>19
    <3>2. ~HasYear(r, c.start)
      BY <2>3, <3>1 DEF HasYear
    <3>3. Beyond(A, c)
      BY <1>10, <1>11, <3>1, <3>2, SavedBeyond
    <3>4. r.last.day # -1
      BY <1>8, <1>19, <2>3
    <3>5. ASSUME r.writes = <<>> PROVE Based(disk) /\ Beyond(disk, c)
      <4>1. CASE mem.last = NoFile
        BY <1>12, <1>15, <3>1, <3>3, <3>5, <4>1
      <4>2. CASE mem.last # NoFile
        <5>1. OutOfTree(mem)
          BY <1>7, <3>1, <3>5, <4>2 DEF OutOfTree
        <5>2. Based(disk)
          BY <1>1, <4>2, <5>1 DEF LossInv, InMemory
        <5> QED  BY <1>4, <1>9, <1>12, <3>3, <3>5, <5>2, BeyondBefore
      <4> QED  BY <4>1, <4>2
    <3> QED  BY <2>1, <3>1, <3>3, <3>4, <3>5 DEF Found
  <2> QED  BY <2>2, <2>3
<1>20. Goal
  BY <1>30, <1>18, <1>19
<1> QED  BY <1>10, <1>11, <1>20 DEF r

LEMMA InsertedOpen ==
  ASSUME NEW K, NEW D, D \subseteq Days, NEW m, FileOK(K, D, Flushed), m.writes = <<>>,
         Holds(K, D, Len(Flushed.nodes), m), NEW c \in Clips, Day(c.start) \in D
  PROVE  Inserted(GetChannelNode(m), c).open <=> m.open
<1> DEFINE F == Len(Flushed.nodes)
           n == GetChannelNode(m)
<1>1. F \in Nat /\ K \in Seq(Owner)
  BY DEF Holds, Owners, FileOK
<1>2. m.open => DOMAIN K \subseteq 1 .. F
  BY <1>1, NothingToWrite
<1>3. PICK L \in Seq(Owner) : Extends(K, L) /\ Holds(L, D, F, n)
                              /\ (\A a \in DOMAIN L : a \in DOMAIN K \/ L[a] = Channel)
  BY <1>2, GetChannelNodeHolds
<1>4. n.chan.loaded /\ (n.open <=> m.open)
  BY <1>2, GetChannelNodeHolds
<1> HIDE DEF n
<1>5. n.open => OnlyChannelNew(L, F)
  BY <1>2, <1>3, <1>4 DEF OnlyChannelNew
<1>6. FileOK(L, D, Flushed)
  BY <1>1, <1>3, FileOn
<1>7. InsertFirst(n, c).open <=> n.open
  BY <1>3, <1>4, <1>5, <1>6, InsertFirstHolds
<1>8. n.last.day # -1 => (InsertAfter(n, c).open <=> n.open)
  BY <1>3, <1>5, <1>6, InsertAfterHolds
<1> QED  BY <1>4, <1>7, <1>8 DEF Inserted, n

LEMMA InsertIndexLoss ==
  ASSUME LinkInv, LinkInv', IndexInv, LossInv, NEW c \in Clips, InsertIndex(c)
  PROVE  LossInv'
<1>1. /\ mem' = Inserted(GetChannelNode(mem), c) /\ mem.writes = <<>> /\ c \notin AddedFiles
      /\ disk' = disk /\ pending' = pending /\ added' = Append(added, c) /\ added \in Seq(Clips)
      /\ faults' = IF mem.open THEN faults ELSE [faults EXCEPT !.skipped = @ \cup {c}]
  BY DEF InsertIndex, Inserted, LinkInv
<1>2. AddedDays' = AddedDays \cup {Day(c.start)} /\ AddedFiles' = AddedFiles \cup {c} /\ Flushed' = Flushed
  BY <1>1, AddedMore DEF Flushed
<1>3. added'[Len(added')] = c
  BY <1>1
<1>4. PICK K : /\ FileOK(K, AddedDays, disk) /\ FileOK(K, AddedDays, Flushed)
               /\ Holds(K, AddedDays, Len(Flushed.nodes), mem)
  BY DEF IndexInv
<1>5. mem'.open <=> mem.open
  <2> DEFINE D == AddedDays
             E == AddedDays \cup {Day(c.start)}
  <2>1. E \subseteq Days /\ D \subseteq E /\ Day(c.start) \in E
    BY <1>1, AddedFacts, ClipFacts
  <2>2. K \in Seq(Owner) /\ Extends(K, K)
    BY <1>4, ExtendsSelf DEF Holds, Owners
  <2> HIDE DEF E
  <2>3. FileOK(K, E, Flushed) /\ Holds(K, E, Len(Flushed.nodes), mem)
    BY <1>4, <2>1, <2>2, FileOn, MoreDays
  <2> QED  BY <1>1, <2>1, <2>3, InsertedOpen
<1>6. InHand = {} /\ InHand' = IF mem'.writes = <<>> THEN {} ELSE {c}
  BY <1>1, <1>3 DEF InHand
<1>7. InMemory'
  <2> SUFFICES ASSUME mem.open PROVE InMemory'
    BY <1>5 DEF InMemory
  <2>1. /\ TopSaved(mem') /\ mem'.last # NoFile
        /\ OutOfTree(mem') => Based(Flushed) /\ (mem'.writes = <<>> => Based(disk))
        /\ mem'.last.day = -1 =>
             /\ mem'.writes = <<>> /\ mem'.chan.loaded /\ mem'.chan.buf.base # 0
             /\ NotReached(mem'.chan.buf.base, AddedFiles')
        /\ \E A : Becomes(Flushed, mem'.writes, A) /\ Synced(A, mem') /\ Found(A, c)
    BY InsertFinds
  <2>2. \E A : /\ Becomes(Flushed, mem'.writes, A) /\ Synced(A, mem')
               /\ \A x \in InHand' : Found(A, x)
    BY <1>6, <2>1
  <2> QED  BY <1>1, <1>2, <2>1, <2>2 DEF InMemory
<1>8. mem.open /\ mem'.writes = <<>> => Found(disk, c) /\ Found(Flushed, c)
  <2> SUFFICES ASSUME mem.open, mem'.writes = <<>> PROVE Found(disk, c) /\ Found(Flushed, c)
    OBVIOUS
  <2>1. Found(disk, c)
    BY InsertFinds
  <2>2. FileGrows(disk, Flushed)
    BY DEF LossInv, InFile
  <2> QED  BY <1>4, <2>1, <2>2, FoundGrows
<1>9. InFile'
  <2>1. PICK Lost, e : /\ IsFiniteSet(Lost) /\ Cardinality(Lost) <= faults.crashes + faults.failures
                       /\ AllButLost(Lost, e)
    BY DEF LossInv, InFile
  <2>2. ASSUME NEW x \in Complete' PROVE x \in Complete \/ (x = c /\ mem.open /\ mem'.writes = <<>>)
    <3>1. x \in AddedFiles \/ x = c
      BY <1>2 DEF Complete
    <3>2. x \notin faults.skipped
      BY <1>1 DEF Complete
    <3>3. x # c \/ (mem.open /\ mem'.writes = <<>>)
      <4> SUFFICES ASSUME x = c PROVE mem.open /\ mem'.writes = <<>>
        OBVIOUS
      <4>1. mem'.writes = <<>>
        BY <1>6 DEF Complete
      <4>2. mem.open
        <5> SUFFICES ASSUME ~mem.open PROVE FALSE
          OBVIOUS
        <5>1. faults'.skipped = faults.skipped \cup {c}
          BY <1>1
        <5> QED  BY <5>1 DEF Complete
      <4> QED  BY <4>1, <4>2
    <3> QED  BY <1>6, <3>1, <3>2, <3>3 DEF Complete
  <2>3. /\ \A x \in Complete' \ Lost : Found(Flushed, x)
        /\ \A x \in Complete' \ (Lost \cup {e}) : Found(disk, x)
    BY <1>8, <2>1, <2>2 DEF AllButLost
  <2>4. AllButLost(Lost, e)'
    BY <1>1, <1>2, <2>3 DEF AllButLost
  <2>5. faults'.crashes = faults.crashes /\ faults'.failures = faults.failures
    BY <1>1
  <2>6. FileGrows(disk', Flushed')
    BY <1>1, <1>2 DEF LossInv, InFile
  <2> QED  BY <2>1, <2>4, <2>5, <2>6 DEF InFile
<1> QED  BY <1>7, <1>9 DEF LossInv

LEMMA WriteNodeLoss ==
  ASSUME IndexInv, LossInv, WriteNode
  PROVE  LossInv'
<1> DEFINE w == Head(mem.writes)
           q == Tail(mem.writes)
           x == added[Len(added)]
<1>1. PICK K : /\ FileOK(K, AddedDays, disk) /\ FileOK(K, AddedDays, Flushed)
               /\ Holds(K, AddedDays, Len(Flushed.nodes), mem)
  BY DEF IndexInv
<1>2. /\ mem.writes # <<>> /\ mem' = [mem EXCEPT !.writes = q] /\ added' = added /\ faults' = faults
      /\ AddedFiles' = AddedFiles
  BY DEF WriteNode, AddedFiles
<1>3. mem.open /\ mem \in Memory /\ mem.writes \in Seq(Write)
  BY <1>1, <1>2, MemoryParts DEF Holds, MemoryOK
<1>4. /\ mem'.writes = q /\ mem'.open = mem.open /\ mem'.eof = mem.eof /\ mem'.root = mem.root
      /\ mem'.rootDirty = mem.rootDirty /\ mem'.chan = mem.chan /\ mem'.years = mem.years /\ mem'.days = mem.days
      /\ mem'.last = mem.last
  BY <1>2, <1>3 DEF Memory
<1>5. PICK A : Becomes(Flushed, mem.writes, A) /\ Synced(A, mem) /\ \A c \in InHand : Found(A, c)
  BY <1>3 DEF LossInv, InMemory
<1>6. FileGrows(Flushed, Put(Flushed, w)) /\ Becomes(Put(Flushed, w), q, A)
  BY <1>2, <1>3, <1>5, BecomesNext
<1>7. Flushed' = Put(Flushed, w) /\ (disk' = Flushed \/ disk' = Flushed')
  <2>1. CASE IsLarge(w)
    BY <2>1 DEF WriteNode, Flushed
  <2>2. CASE ~IsLarge(w)
    <3>1. disk' = Flushed /\ pending' = <<w>>
      BY <2>2 DEF WriteNode
    <3>2. pending' # <<>> /\ pending'[1] = w
      BY <3>1
    <3> QED  BY <3>1, <3>2 DEF Flushed
  <2> QED  BY <2>1, <2>2
<1> HIDE DEF w, q
<1>8. FileGrows(Flushed, Flushed') /\ Becomes(Flushed', mem'.writes, A)
  BY <1>4, <1>6, <1>7
<1>9. Synced(A, mem')
  BY <1>4, <1>5, Zenon DEF Synced, InTables, YearAt
<1>10. InHand = {x} /\ InHand' \subseteq {x} /\ (InHand' = {} => mem'.writes = <<>>)
  BY <1>2 DEF InHand
<1>11. IndexInv'
  BY WriteNodeKeeps
<1>12. FileGrows(disk', Flushed')
  <2>1. Flushed' \in IndexFile
    BY <1>11, FileIs DEF IndexInv
  <2> QED  BY <1>7, <1>8, <2>1, GrowsSelf
<1>13. \A c : Found(Flushed, c) => Found(Flushed', c) /\ Found(disk', c)
  BY <1>1, <1>7, <1>8, FoundGrows
<1>14. Based(Flushed) => Based(Flushed') /\ Based(disk')
  BY <1>1, <1>7, <1>8, BasedGrows
<1>15. InMemory'
  <2>2. TopSaved(mem') /\ mem'.last # NoFile /\ mem'.last.day # -1
    BY <1>2, <1>3, <1>4 DEF LossInv, InMemory, TopSaved
  <2>3. OutOfTree(mem') => Based(Flushed)
    BY <1>3, <1>4, <2>2 DEF LossInv, InMemory, OutOfTree
  <2>4. \A c \in InHand' : Found(A, c)
    BY <1>5, <1>10
  <2> QED  BY <1>8, <1>9, <1>14, <2>2, <2>3, <2>4 DEF InMemory
<1>16. InFile'
  <2>1. PICK Lost, e : /\ IsFiniteSet(Lost) /\ Cardinality(Lost) <= faults.crashes + faults.failures
                       /\ AllButLost(Lost, e)
    BY DEF LossInv, InFile
  <2>2. ASSUME NEW c \in Complete' PROVE c \in Complete \/ (c = x /\ mem'.writes = <<>>)
    BY <1>2, <1>10 DEF Complete
  <2>3. mem'.writes = <<>> => Found(Flushed', x)
    <3>1. mem'.writes = <<>> => A = Flushed'
      BY <1>8, BecomesEnd
    <3> QED  BY <1>5, <1>10, <3>1
  <2>4. /\ \A c \in Complete' \ Lost : Found(Flushed', c)
        /\ \A c \in Complete' \ (Lost \cup {x}) : Found(disk', c)
    BY <1>13, <2>1, <2>2, <2>3 DEF AllButLost
  <2> HIDE DEF x
  <2>6. \E L, k : /\ IsFiniteSet(L) /\ Cardinality(L) <= faults'.crashes + faults'.failures
                  /\ AllButLost(L, k)'
    BY <1>2, <2>1, <2>4 DEF AllButLost
  <2> QED  BY <1>12, <2>6 DEF InFile
<1> QED  BY <1>15, <1>16 DEF LossInv

LEMMA NewMemorySynced ==
  ASSUME NEW K, NEW D, NEW d, FileOK(K, D, d)
  PROVE  LET m == NewMemory(d) IN
         /\ Becomes(d, m.writes, d) /\ Synced(d, m) /\ TopSaved(m) /\ m.last = NoFile /\ m.writes = <<>> /\ m.open
BY FileIs, BecomesSelf DEF NewMemory, NoNode, Synced, NodeSynced, InTables, TopSaved

LEMMA OneMoreLost ==
  ASSUME NEW S, IsFiniteSet(S), NEW n \in Nat, Cardinality(S) <= n, NEW e
  PROVE  IsFiniteSet(S \cup {e}) /\ Cardinality(S \cup {e}) <= n + 1
<1>1. Cardinality(S) \in Nat
  BY FS_CardinalityType
<1> QED  BY <1>1, FS_AddElement

\* What has become of the write in the buffer, when the stream is gone: a file more is lost.
LEMMA NewProcessLoss ==
  ASSUME IndexInv, InFile, pending' = <<>>, disk' \in {disk, Flushed}, added' = added, InHand' = {},
         faults'.skipped = faults.skipped \cup InHand,
         faults.crashes + faults.failures \in Nat,
         \/ faults'.crashes + faults'.failures = faults.crashes + faults.failures + 1
         \/ disk' = Flushed /\ faults'.crashes + faults'.failures = faults.crashes + faults.failures
  PROVE  InFile'
<1> DEFINE n == faults.crashes + faults.failures
<1>1. PICK K : FileOK(K, AddedDays, disk) /\ FileOK(K, AddedDays, Flushed)
  BY DEF IndexInv
<1>2. Flushed' = disk' /\ AddedFiles' = AddedFiles
  BY DEF Flushed, AddedFiles
<1>3. PICK Lost, e : IsFiniteSet(Lost) /\ Cardinality(Lost) <= n /\ AllButLost(Lost, e)
  BY DEF InFile
<1>4. Complete' = Complete
  BY <1>2 DEF Complete
<1>5. FileGrows(disk, Flushed) /\ FileGrows(disk', Flushed')
  <2>1. disk' \in IndexFile
    BY <1>1, FileIs
  <2> QED  BY <1>2, <2>1, GrowsSelf DEF InFile
<1>6. CASE disk' = Flushed /\ faults'.crashes + faults'.failures = n
  <2>1. AllButLost(Lost, e)'
    BY <1>2, <1>3, <1>4, <1>6 DEF AllButLost
  <2> QED  BY <1>3, <1>5, <1>6, <2>1 DEF InFile
<1>7. CASE faults'.crashes + faults'.failures = n + 1
  <2> DEFINE S == Lost \cup {e}
  <2>1. IsFiniteSet(S) /\ Cardinality(S) <= n + 1
    BY <1>3, OneMoreLost
  <2>2. \A c \in Complete \ S : Found(disk, c) /\ Found(Flushed, c)
    BY <1>3 DEF AllButLost
  <2>3. AllButLost(S, e)'
    BY <1>2, <1>4, <2>2 DEF AllButLost
  <2> HIDE DEF S
  <2> QED  BY <1>5, <1>7, <2>1, <2>3 DEF InFile
<1> QED  BY <1>6, <1>7

LEMMA WriteFailsLoss ==
  ASSUME IndexInv, CountsInv, LossInv, WriteFails
  PROVE  LossInv'
<1>1. PICK K : Holds(K, AddedDays, Len(Flushed.nodes), mem)
  BY DEF IndexInv
<1>2. mem'.writes = <<>> /\ ~mem'.open
  <2>1. MemoryOK(K, AddedDays, mem)
    BY <1>1 DEF Holds
  <2> QED  BY <2>1, CloseFile DEF WriteFails
<1>3. /\ pending' = <<>> /\ disk' \in {disk, Flushed} /\ added' = added
      /\ faults' = [faults EXCEPT !.failures = @ + 1, !.skipped = @ \cup InHand]
  BY DEF WriteFails
<1>4. faults.crashes \in Nat /\ faults.failures \in Nat
  BY FileIndexAssumption DEF CountsInv
<1>5. /\ faults'.skipped = faults.skipped \cup InHand
      /\ faults'.crashes = faults.crashes /\ faults'.failures = faults.failures + 1
  BY <1>3 DEF CountsInv
<1>6. faults'.crashes + faults'.failures = (faults.crashes + faults.failures) + 1 /\ faults.crashes + faults.failures \in Nat
  BY <1>4, <1>5
<1>7. InHand' = {}
  BY <1>2 DEF InHand
<1>8. InFile'
  BY <1>3, <1>5, <1>6, <1>7, NewProcessLoss DEF LossInv
<1> QED  BY <1>2, <1>8 DEF LossInv, InMemory

LEMMA CrashLoss ==
  ASSUME IndexInv, CountsInv, LossInv, Crash
  PROVE  LossInv'
<1>1. PICK K : FileOK(K, AddedDays, disk)
  BY DEF IndexInv
<1>2. /\ pending' = <<>> /\ disk' = disk /\ added' = added /\ mem' = NewMemory(disk)
      /\ faults' = [faults EXCEPT !.crashes = @ + 1, !.skipped = @ \cup InHand]
  BY DEF Crash
<1>3. faults.crashes \in Nat /\ faults.failures \in Nat
  BY FileIndexAssumption DEF CountsInv
<1>4. /\ faults'.skipped = faults.skipped \cup InHand
      /\ faults'.crashes = faults.crashes + 1 /\ faults'.failures = faults.failures
  BY <1>2 DEF CountsInv
<1>5. faults'.crashes + faults'.failures = (faults.crashes + faults.failures) + 1 /\ faults.crashes + faults.failures \in Nat
  BY <1>3, <1>4
<1>6. Becomes(disk, mem'.writes, disk) /\ Synced(disk, mem') /\ TopSaved(mem') /\ mem'.last = NoFile /\ mem'.writes = <<>>
  BY <1>1, <1>2, NewMemorySynced
<1>7. InHand' = {} /\ Flushed' = disk
  BY <1>2, <1>6 DEF InHand, Flushed
<1>8. InFile'
  BY <1>2, <1>4, <1>5, <1>7, NewProcessLoss DEF LossInv
<1>9. InMemory'
  BY <1>2, <1>6, <1>7 DEF InMemory
<1> QED  BY <1>8, <1>9 DEF LossInv

LEMMA ExitLoss ==
  ASSUME IndexInv, CountsInv, LossInv, Exit
  PROVE  LossInv'
<1>1. PICK K : FileOK(K, AddedDays, Flushed)
  BY DEF IndexInv
<1>2. /\ pending' = <<>> /\ disk' = Flushed /\ added' = added /\ mem' = NewMemory(Flushed)
      /\ faults' = faults /\ mem.writes = <<>>
  BY DEF Exit
<1>3. faults.crashes \in Nat /\ faults.failures \in Nat
  BY FileIndexAssumption DEF CountsInv
<1>4. faults.crashes + faults.failures \in Nat /\ InHand = {}
  BY <1>2, <1>3 DEF InHand
<1>5. /\ Becomes(Flushed, mem'.writes, Flushed) /\ Synced(Flushed, mem') /\ TopSaved(mem') /\ mem'.last = NoFile
      /\ mem'.writes = <<>>
  BY <1>1, <1>2, NewMemorySynced
<1>6. InHand' = {} /\ Flushed' = Flushed
  BY <1>2, <1>5 DEF InHand, Flushed
<1>7. InFile'
  <2>1. faults'.skipped = faults.skipped \cup InHand
    BY <1>2, <1>4
  <2> QED  BY <1>2, <1>4, <1>6, <2>1, NewProcessLoss DEF LossInv
<1>8. InMemory'
  BY <1>2, <1>5, <1>6 DEF InMemory
<1> QED  BY <1>7, <1>8 DEF LossInv

LEMMA InitLoss == Init => LossInv
<1> SUFFICES ASSUME Init PROVE LossInv
  OBVIOUS
<1>1. IndexInv
  BY InitIndex
<1>2. PICK K : FileOK(K, AddedDays, disk)
  BY <1>1 DEF IndexInv
<1>3. /\ pending = <<>> /\ Flushed = disk /\ mem = NewMemory(disk) /\ added = <<>>
      /\ faults.crashes = 0 /\ faults.failures = 0
  BY DEF Init, Flushed
<1>4. Becomes(disk, mem.writes, disk) /\ Synced(disk, mem) /\ TopSaved(mem) /\ mem.last = NoFile /\ mem.writes = <<>>
  BY <1>2, <1>3, NewMemorySynced
<1>5. InHand = {} /\ AddedFiles = {} /\ Complete = {}
  BY <1>3, <1>4 DEF InHand, AddedFiles, Complete
<1>6. InFile
  <2>1. FileGrows(disk, Flushed)
    BY <1>2, <1>3, FileIs, GrowsSelf
  <2>2. AllButLost({}, 0)
    BY <1>5 DEF AllButLost
  <2>3. IsFiniteSet({}) /\ Cardinality({}) = 0
    BY FS_EmptySet
  <2> QED  BY <1>3, <2>1, <2>2, <2>3 DEF InFile
<1>7. InMemory
  BY <1>3, <1>4, <1>5 DEF InMemory
<1> QED  BY <1>6, <1>7 DEF LossInv

LEMMA NextLoss == LinkInv /\ LinkInv' /\ IndexInv /\ CountsInv /\ LossInv /\ [Next]_vars => LossInv'
<1> SUFFICES ASSUME LinkInv, LinkInv', IndexInv, CountsInv, LossInv, [Next]_vars PROVE LossInv'
  OBVIOUS
<1>1. CASE \E c \in Clips : InsertIndex(c)
  BY <1>1, InsertIndexLoss
<1>2. CASE WriteNode
  BY <1>2, WriteNodeLoss
<1>3. CASE WriteFails
  BY <1>3, WriteFailsLoss
<1>4. CASE Crash
  BY <1>4, CrashLoss
<1>5. CASE Exit
  BY <1>5, ExitLoss
<1>6. CASE Restart \/ UNCHANGED vars
  <2>1. disk' = disk /\ pending' = pending /\ mem' = mem /\ added' = added /\ faults' = faults
    BY <1>6 DEF Restart, vars
  <2>2. Flushed' = Flushed /\ AddedFiles' = AddedFiles /\ InHand' = InHand /\ Complete' = Complete
    BY <2>1 DEF Flushed, AddedFiles, InHand, Complete
  <2>3. InMemory'
    BY <2>1, <2>2 DEF LossInv, InMemory
  <2>4. InFile'
    BY <2>1, <2>2 DEF LossInv, InFile, AllButLost
  <2> QED  BY <2>3, <2>4 DEF LossInv
<1> QED  BY <1>1, <1>2, <1>3, <1>4, <1>5, <1>6 DEF Next

(* A crash, or a write that fails, costs at most one of the files whose    *)
(* insertion was complete: all others are found through the tables of the  *)
(* index file.                                                             *)
THEOREM CrashCostsAtMostOne == Spec => []CrashLosesAtMostOne
<1>1. Spec => [](IndexInv /\ CountsInv /\ LinkInv /\ LossInv)
  BY InitIndex, NextIndex, InitCounts, NextCounts, InitLinks, NextLinks, InitLoss, NextLoss, PTL DEF Spec
<1>2. CountsInv /\ LossInv => CrashLosesAtMostOne
  <2> SUFFICES ASSUME CountsInv, LossInv PROVE CrashLosesAtMostOne
    OBVIOUS
  <2> DEFINE M == {c \in Complete : InTable(c) /\ c.start \notin TreeFiles(Flushed)}
  <2>1. PICK Lost, e : /\ IsFiniteSet(Lost) /\ Cardinality(Lost) <= faults.crashes + faults.failures
                       /\ AllButLost(Lost, e)
    BY DEF LossInv, InFile
  <2>2. M \subseteq Lost
    <3> SUFFICES ASSUME NEW c \in Complete, c \notin Lost, InTable(c), c.start \notin TreeFiles(Flushed) PROVE FALSE
      OBVIOUS
    <3>1. Beyond(Flushed, c)
      BY <2>1 DEF AllButLost, Found
    <3> QED  BY <3>1 DEF Beyond, Based, InTable
  <2>3. Cardinality(M) \in Nat /\ Cardinality(M) <= Cardinality(Lost) /\ Cardinality(Lost) \in Nat
    <3> HIDE DEF M
    <3>1. IsFiniteSet(M) /\ Cardinality(M) <= Cardinality(Lost)
      BY <2>1, <2>2, FS_Subset
    <3> QED  BY <2>1, <3>1, FS_CardinalityType
  <2>4. faults.crashes + faults.failures \in Nat
    BY FileIndexAssumption DEF CountsInv
  <2> HIDE DEF M
  <2>5. Cardinality(M) <= faults.crashes + faults.failures
    BY <2>1, <2>3, <2>4
  <2> QED  BY <2>5 DEF M, CrashLosesAtMostOne
<1> QED  BY <1>1, <1>2, PTL
=============================================================================
