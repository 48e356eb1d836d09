---------------------------- MODULE PbReaderProofs ----------------------------
(***************************************************************************)
(* The reader plays what was recorded, for any files and any time asked    *)
(* for.  The demuxer is always one frame behind the last one that was sent *)
(* (AtCursor), so each frame follows the one before, and a new file begins *)
(* at its first frame: no cue lies before the second in which it starts.   *)
(* Backwards, what is left of the file is what comes next in reverse.      *)
(***************************************************************************)
EXTENDS PbReader, FiniteSetTheorems, TLAPS

-----------------------------------------------------------------------------
(* Induction, by sets: a set of numbers that has 0 and the successors of   *)
(* its elements has them all.  (Were m not in S, taking one from each      *)
(* number up to m that is not in S would be a one-to-one function from     *)
(* these numbers into fewer of them.)                                      *)
LEMMA SetInduction ==
  ASSUME NEW S, 0 \in S, \A n \in Nat : n \in S => n + 1 \in S
  PROVE  Nat \subseteq S
<1> SUFFICES ASSUME NEW m \in Nat, m \notin S PROVE FALSE
  OBVIOUS
<1> DEFINE T == (0 .. m) \ S
           pred == [k \in T |-> k - 1]
<1>1. IsFiniteSet(T) /\ m \in T
  <2>1. IsFiniteSet(0 .. m)
    BY FS_Interval
  <2> QED  BY <2>1, FS_Subset
<1>2. \A k \in T : k - 1 \in T \ {m}
  <2> SUFFICES ASSUME NEW k \in T PROVE k - 1 \in T \ {m}
    OBVIOUS
  <2>1. k - 1 \in Nat /\ k - 1 + 1 = k
    OBVIOUS
  <2> QED  BY <2>1
<1>3. pred \in [T -> T \ {m}]
  BY <1>2
<1>4. /\ IsFiniteSet(T \ {m}) /\ Cardinality(T \ {m}) = Cardinality(T) - 1
      /\ Cardinality(T) \in Nat
  BY <1>1, FS_RemoveElement, FS_CardinalityType
<1>5. PICK x \in T, y \in T : x # y /\ pred[x] = pred[y]
  <2> HIDE DEF pred, T
  <2>1. Cardinality(T \ {m}) < Cardinality(T)
    BY <1>4
  <2> QED  BY <1>1, <1>3, <1>4, <2>1, FS_PigeonHole
<1> QED  BY <1>5

LEMMA LeastNumber ==
  ASSUME NEW S \in SUBSET Nat, S # {}
  PROVE  \E n \in S : \A k \in S : n <= k
<1> SUFFICES ASSUME \A n \in S : \E k \in S : k < n PROVE FALSE
  OBVIOUS
<1> DEFINE B == {n \in Nat : \A k \in S : n <= k}
<1>1. 0 \in B
  OBVIOUS
<1>2. \A n \in Nat : n \in B => n + 1 \in B
  <2> SUFFICES ASSUME NEW n \in Nat, n \in B, NEW k \in S PROVE n + 1 <= k
    OBVIOUS
  <2>1. n <= k /\ k \in Nat
    OBVIOUS
  <2>2. CASE n = k
    <3>1. PICK j \in S : j < n
      BY <2>2
    <3> QED  BY <3>1
  <2> QED  BY <2>1, <2>2
<1>3. Nat \subseteq B
  <2> HIDE DEF B
  <2> QED  BY <1>1, <1>2, SetInduction
<1>4. PICK s \in S : TRUE
  OBVIOUS
<1>5. s \in Nat /\ s + 1 \in Nat
  OBVIOUS
<1>6. s + 1 <= s
  BY <1>3, <1>5
<1> QED  BY <1>5, <1>6

LEMMA GreatestNumber ==
  ASSUME NEW S \in SUBSET Nat, S # {}, NEW b \in Nat, \A k \in S : k <= b
  PROVE  \E n \in S : \A k \in S : n >= k
<1> DEFINE D == {b - k : k \in S}
<1>1. D \in SUBSET Nat /\ D # {}
  <2>1. \A k \in S : b - k \in Nat
    OBVIOUS
  <2> QED  BY <2>1
<1>2. PICK d \in D : \A e \in D : d <= e
  <2> HIDE DEF D
  <2> QED  BY <1>1, LeastNumber
<1>3. PICK n \in S : d = b - n
  OBVIOUS
<1>4. \A k \in S : n >= k
  <2> SUFFICES ASSUME NEW k \in S PROVE n >= k
    OBVIOUS
  <2>1. b - n <= b - k
    BY <1>2, <1>3
  <2>2. n \in Nat /\ k \in Nat
    OBVIOUS
  <2> QED  BY <2>1, <2>2
<1> QED  BY <1>4

LEMMA MinIs ==
  ASSUME NEW S \in SUBSET Nat, S # {}
  PROVE  Min(S) \in S /\ \A k \in S : Min(S) <= k
BY LeastNumber DEF Min

LEMMA MaxIs ==
  ASSUME NEW S \in SUBSET Nat, S # {}, NEW b \in Nat, \A k \in S : k <= b
  PROVE  Max(S) \in S /\ \A k \in S : Max(S) >= k
BY GreatestNumber DEF Max

-----------------------------------------------------------------------------
(* The files and their cues.                                               *)
LEMMA SeqFacts ==
  ASSUME NEW T, NEW s \in Seq(T)
  PROVE  Len(s) \in Nat /\ DOMAIN s = 1 .. Len(s) /\ \A i \in 1 .. Len(s) : s[i] \in T
OBVIOUS

LEMMA AppendFacts ==
  ASSUME NEW T, NEW s \in Seq(T), NEW q \in T
  PROVE  LET r == Append(s, q) IN
         /\ r \in Seq(T) /\ r # <<>> /\ Len(r) = Len(s) + 1 /\ Len(s) \in Nat /\ r[Len(r)] = q
         /\ \A n \in 1 .. Len(s) : r[n] = s[n]
         /\ s = <<>> => r[1] = q
         /\ s # <<>> => r[1] = s[1]
<1> DEFINE r == Append(s, q)
<1>1. /\ r \in Seq(T) /\ Len(r) = Len(s) + 1 /\ Len(s) \in Nat /\ r[Len(r)] = q
      /\ \A n \in 1 .. Len(s) : r[n] = s[n]
  OBVIOUS
<1>2. r # <<>> /\ (s = <<>> => r[1] = q)
  OBVIOUS
<1>3. s # <<>> => 1 \in 1 .. Len(s)
  OBVIOUS
<1> HIDE DEF r
<1>4. s # <<>> => r[1] = s[1]
  BY <1>1, <1>3
<1> QED  BY <1>1, <1>2, <1>4 DEF r

LEMMA FileFacts ==
  ASSUME NEW f \in FileNumbers
  PROVE  /\ LastIndex(f) \in Nat /\ LastIndex(f) >= 1 /\ DOMAIN Frames(f) = 1 .. LastIndex(f)
         /\ \A i \in 1 .. LastIndex(f) : Time(f, i) \in Nat /\ Time(f, i) > 0
         /\ Files[f].clusters \subseteq 1 .. LastIndex(f)
         /\ 1 \in Files[f].clusters
<1> DEFINE FrameSet == [time : Nat \ {0}, kind : Kinds]
           FileSet == [clusters : SUBSET Nat, frames : Seq(FrameSet)]
<1>1. Files \in Seq(FileSet)
  BY DemuxerAssumption
<1>2. Files[f] \in FileSet
  <2> HIDE DEF FileSet
  <2> QED  BY <1>1, SeqFacts DEF FileNumbers
<1>3. Frames(f) \in Seq(FrameSet)
  <2> HIDE DEF FrameSet
  <2> QED  BY <1>2 DEF Frames
<1>4. /\ LastIndex(f) \in Nat /\ DOMAIN Frames(f) = 1 .. LastIndex(f)
      /\ \A i \in 1 .. LastIndex(f) : Frames(f)[i] \in FrameSet
  <2> HIDE DEF FrameSet
  <2> QED  BY <1>3, SeqFacts DEF LastIndex
<1>5. 1 \in Files[f].clusters /\ Files[f].clusters \subseteq DOMAIN Frames(f)
  BY DemuxerAssumption
<1>6. \A i \in 1 .. LastIndex(f) : Time(f, i) \in Nat /\ Time(f, i) > 0
  BY <1>4 DEF Time
<1> QED  BY <1>4, <1>5, <1>6

LEMMA TimesGrow ==
  ASSUME NEW f \in FileNumbers, NEW i \in 1 .. LastIndex(f), NEW j \in i .. LastIndex(f)
  PROVE  Time(f, i) <= Time(f, j)
<1> DEFINE S == {n \in Nat : i + n <= LastIndex(f) => Time(f, i) <= Time(f, i + n)}
<1> USE FileFacts
<1>1. 0 \in S
  OBVIOUS
<1>2. ASSUME NEW n \in Nat, n \in S PROVE n + 1 \in S
  <2> SUFFICES ASSUME i + (n + 1) <= LastIndex(f)
               PROVE  Time(f, i) <= Time(f, i + (n + 1))
    OBVIOUS
  <2> DEFINE k == i + n
  <2>1. k \in 1 .. LastIndex(f) - 1 /\ i + (n + 1) = k + 1 /\ k + 1 \in 1 .. LastIndex(f)
    OBVIOUS
  <2>2. Time(f, k) <= Time(f, k + 1)
    BY <2>1, DemuxerAssumption
  <2>3. Time(f, i) <= Time(f, k)
    BY <1>2
  <2>4. Time(f, i) \in Nat /\ Time(f, k) \in Nat /\ Time(f, k + 1) \in Nat
    BY <2>1
  <2> QED  BY <2>1, <2>2, <2>3, <2>4
<1>3. Nat \subseteq S
  <2> HIDE DEF S
  <2> QED  BY <1>1, <1>2, SetInduction
<1>4. j - i \in S /\ i + (j - i) = j
  BY <1>3
<1> QED  BY <1>4

\* A cluster ends within its file, and begins before the time of its cue.
LEMMA CueFacts ==
  ASSUME NEW f \in FileNumbers, NEW c \in Cued(f)
  PROVE  c \in 1 .. LastIndex(f) /\ c \in Files[f].clusters
         /\ CueTime(f, c) \in Nat /\ Time(f, c) <= CueTime(f, c)
<1> DEFINE ends == {b \in Files[f].clusters : b > c} \cup {LastIndex(f) + 1}
<1>1. c \in Files[f].clusters /\ c \in 1 .. LastIndex(f)
  BY FileFacts DEF Cued
<1>2. ends \in SUBSET Nat /\ ends # {}
  BY FileFacts
<1>3. Min(ends) <= LastIndex(f) + 1 /\ Min(ends) \in Nat
  <2> HIDE DEF ends
  <2>1. Min(ends) \in ends /\ \A k \in ends : Min(ends) <= k
    BY <1>2, MinIs
  <2>2. LastIndex(f) + 1 \in ends
    BY DEF ends
  <2> QED  BY <1>2, <2>1, <2>2
<1>4. ClusterEnd(f, c) = Min(ends) - 1
  BY DEF ClusterEnd
<1>5. VideoIn(f, c) \subseteq c .. LastIndex(f) /\ VideoIn(f, c) # {}
  <2> HIDE DEF ends
  <2> QED  BY <1>1, <1>3, <1>4, FileFacts DEF VideoIn, Cued
<1>6. VideoIn(f, c) \in SUBSET Nat
  BY <1>1, <1>5
<1>7. Min(VideoIn(f, c)) \in c .. LastIndex(f)
  BY <1>5, <1>6, MinIs
<1> HIDE DEF ends
<1>8. Min(VideoIn(f, c)) \in 1 .. LastIndex(f)
  BY <1>1, <1>7
<1>9. CueTime(f, c) \in Nat
  BY <1>8, FileFacts DEF CueTime
<1> QED  BY <1>1, <1>7, <1>9, TimesGrow DEF CueTime

\* Where a demuxer starts: at the beginning, or at a cluster that begins before t.
StartsAt(f, t, n) == n = 1 \/ (n \in Files[f].clusters /\ Time(f, n) <= t)

LEMMA StartFacts ==
  ASSUME NEW f \in FileNumbers, NEW t \in Nat
  PROVE  LET d == StartDemuxing(Stopped, f, t) IN
         \/ d = Stopped
         \/ /\ d.state = "STARTED" /\ d.file = f
            /\ d.next \in 1 .. LastIndex(f) /\ StartsAt(f, t, d.next)
            /\ t = 0 => d.next = 1
<1> DEFINE before == {c \in Cued(f) : CueTime(f, c) < t}
           at == GetTimecodePosition(f, t)
<1>1. at = 0 \/ (at \in 1 .. LastIndex(f) /\ StartsAt(f, t, at))
  <2>1. CASE before = {}
    BY <2>1 DEF GetTimecodePosition
  <2>2. CASE before # {}
    <3>1. \A c \in before : c \in 1 .. LastIndex(f)
      BY CueFacts
    <3>2. before \in SUBSET Nat /\ LastIndex(f) \in Nat /\ \A c \in before : c <= LastIndex(f)
      BY <3>1, FileFacts
    <3>3. at = Max(before)
      BY <2>2 DEF GetTimecodePosition
    <3>4. at \in before
      <4> HIDE DEF before, at
      <4> QED  BY <2>2, <3>2, <3>3, MaxIs
    <3>5. at \in Cued(f) /\ CueTime(f, at) < t
      BY <3>4
    <3> HIDE DEF at, before
    <3>6. at \in 1 .. LastIndex(f) /\ at \in Files[f].clusters /\ Time(f, at) <= CueTime(f, at)
      BY <3>5, CueFacts
    <3>7. Time(f, at) \in Nat
      BY <3>6, FileFacts
    <3>8. CueTime(f, at) \in Nat
      BY <3>5, CueFacts
    <3> QED  BY <3>5, <3>6, <3>7, <3>8 DEF StartsAt
  <2> QED  BY <2>1, <2>2
<1> HIDE DEF at, before
<1>2. LastIndex(f) >= 1 /\ LastIndex(f) \in Nat
  BY FileFacts
<1> QED  BY <1>1, <1>2 DEF StartDemuxing, Stopped, StartsAt, at

-----------------------------------------------------------------------------
(* Playing forwards.                                                       *)
Place == {p \in FileNumbers \X Nat : p[2] \in 1 .. LastIndex(p[1])}

ReaderTypeOK ==
  /\ entries \in FileNumbers /\ linked \in {entries, entries + 1}
  /\ located \in 0 .. entries /\ filename_ = located
  /\ direction_ \in {"FORWARD", "BACKWARD"} /\ seek_tv_ \in Nat
  /\ opened \in BOOLEAN /\ over \in BOOLEAN
  /\ ~opened /\ ~over => sent = <<>>

\* The place before the one where the demuxer is.
Before(d) == IF d.next = 1 THEN <<d.file - 1, LastIndex(d.file - 1)>> ELSE <<d.file, d.next - 1>>

\* While the reader plays, the demuxer is behind the last frame that was sent.
AtCursor ==
  opened /\ ~over =>
    /\ demuxer = [state |-> "STARTED", file |-> located, next |-> demuxer.next] /\ located # 0
    /\ demuxer.next \in 1 .. LastIndex(located) + 1
    /\ sent = <<>> => demuxer.next <= LastIndex(located) /\ StartsAt(located, seek_tv_, demuxer.next)
    /\ sent # <<>> => sent[1][1] <= sent[Len(sent)][1] /\ sent[Len(sent)] = Before(demuxer)

ForwardInv ==
  /\ ReaderTypeOK
  /\ direction_ = "FORWARD" => sent \in Seq(Place) /\ AtCursor
  /\ ForwardIsContiguous

LEMMA FilesCounted == FileNumbers = 1 .. Len(Files) /\ Len(Files) \in Nat /\ 1 \in FileNumbers
<1> DEFINE FileSet == [clusters : SUBSET Nat, frames : Seq([time : Nat \ {0}, kind : Kinds])]
<1>1. Files \in Seq(FileSet)
  BY DemuxerAssumption
<1>2. Len(Files) # 0
  <2> HIDE DEF FileSet
  <2> QED  BY <1>1, ReaderAssumption
<1>3. DOMAIN Files = 1 .. Len(Files) /\ Len(Files) \in Nat
  <2> HIDE DEF FileSet
  <2> QED  BY <1>1, SeqFacts
<1> QED  BY <1>2, <1>3 DEF FileNumbers

\* A time, cut to seconds.
LEMMA SecondsBelow ==
  ASSUME NEW t \in Nat
  PROVE  (t \div Second) * Second \in Nat /\ (t \div Second) * Second <= t
<1> SUFFICES ASSUME NEW q, q = t \div Second
             PROVE  q * Second \in Nat /\ q * Second <= t
  OBVIOUS
<1>1. Second \in Nat /\ Second > 0
  BY ReaderAssumption
<1>2. q \in Nat
  BY <1>1
<1>3. t % Second \in Nat /\ t = Second * q + (t % Second)
  BY <1>1
<1>4. q * Second = Second * q /\ q * Second \in Nat
  BY <1>1, <1>2
<1> QED  BY <1>3, <1>4

\* A file that is written has a start that is not 0, one that is only linked has 0: the
\* next file is the one after it in the index.
LEMMA NextLocated ==
  ASSUME ReaderTypeOK, located \in FileNumbers
  PROVE  LocateNextMediaFile = IF located < entries THEN located + 1 ELSE 0
<1>1. entries \in Nat /\ located \in Nat /\ linked \in {entries, entries + 1}
  BY FilesCounted DEF ReaderTypeOK
<1>2. CASE located < entries
  <2>1. located + 1 \in FileNumbers /\ located + 1 <= entries
    BY <1>1, <1>2, FilesCounted DEF ReaderTypeOK
  <2>2. StartTime(located + 1) # 0
    <3> SUFFICES ASSUME NEW t \in Nat, t >= Second PROVE t \div Second # 0
      BY <2>1, FileFacts, ReaderAssumption DEF StartTime
    <3>1. Second \in Nat /\ Second > 0
      BY ReaderAssumption
    <3>2. t % Second < Second /\ t = Second * (t \div Second) + (t % Second)
      BY <3>1
    <3>3. Second * 0 = 0 /\ t % Second \in Nat
      BY <3>1
    <3> QED  BY <3>1, <3>2, <3>3
  <2> QED  BY <1>1, <1>2, <2>1, <2>2 DEF LocateNextMediaFile, StartInEntry
<1>3. CASE ~(located < entries)
  BY <1>1, <1>3 DEF LocateNextMediaFile, StartInEntry
<1> QED  BY <1>2, <1>3

\* No cue is before the beginning of a file.
LEMMA StartFromBeginning ==
  ASSUME NEW f \in FileNumbers, NEW t \in Nat, t <= Time(f, 1)
  PROVE  LET d == StartDemuxing(Stopped, f, t) IN
         d = Stopped \/ (d.state = "STARTED" /\ d.file = f /\ d.next = 1)
<1>1. {c \in Cued(f) : CueTime(f, c) < t} = {}
  <2> SUFFICES ASSUME NEW c \in Cued(f), CueTime(f, c) < t PROVE FALSE
    OBVIOUS
  <2>1. c \in 1 .. LastIndex(f) /\ CueTime(f, c) \in Nat /\ Time(f, c) <= CueTime(f, c)
    BY CueFacts
  <2>2. Time(f, 1) <= Time(f, c) /\ Time(f, c) \in Nat /\ Time(f, 1) \in Nat
    BY <2>1, TimesGrow, FileFacts
  <2> QED  BY <2>1, <2>2
<1>2. GetTimecodePosition(f, t) = 0
  BY <1>1 DEF GetTimecodePosition
<1> QED  BY <1>2 DEF StartDemuxing, Stopped

\* One step of a sequence of places.
LEMMA StepOn ==
  ASSUME NEW q \in Place, sent \in Seq(Place),
         \A n \in 1 .. Len(sent) - 1 : Follows(sent[n], sent[n + 1]),
         sent # <<>> => Follows(sent[Len(sent)], q) /\ sent[1][1] <= sent[Len(sent)][1]
  PROVE  LET s == Append(sent, q) IN
         /\ s \in Seq(Place) /\ s # <<>> /\ Len(s) = Len(sent) + 1 /\ s[Len(s)] = q
         /\ \A n \in 1 .. Len(s) - 1 : Follows(s[n], s[n + 1])
         /\ s[1] = IF sent = <<>> THEN q ELSE sent[1]
         /\ s[1][1] <= q[1]
<1> DEFINE s == Append(sent, q)
<1>1. /\ s \in Seq(Place) /\ s # <<>> /\ Len(s) = Len(sent) + 1 /\ s[Len(s)] = q
      /\ \A n \in 1 .. Len(sent) : s[n] = sent[n]
      /\ s[1] = IF sent = <<>> THEN q ELSE sent[1]
  BY AppendFacts
<1>2. \A n \in 1 .. Len(s) - 1 : Follows(s[n], s[n + 1])
  <2>0. Len(sent) \in Nat /\ Len(s) - 1 = Len(sent)
    <3> HIDE DEF s
    <3> QED  BY <1>1
  <2> SUFFICES ASSUME NEW n \in 1 .. Len(sent) PROVE Follows(s[n], s[n + 1])
    BY <2>0
  <2>1. CASE n = Len(sent)
    BY <1>1, <2>0, <2>1
  <2>2. CASE n # Len(sent)
    <3>1. n \in 1 .. Len(sent) - 1 /\ n + 1 \in 1 .. Len(sent)
      BY <2>0, <2>2
    <3> HIDE DEF s
    <3> QED  BY <1>1, <3>1
  <2> QED  BY <2>1, <2>2
<1>3. s[1][1] <= q[1]
  <2>1. CASE sent = <<>>
    BY <1>1, <2>1, FilesCounted DEF Place
  <2>2. CASE sent # <<>>
    <3>1. sent[Len(sent)] \in Place /\ sent[1] \in Place /\ s[1] = sent[1]
      BY <1>1, <2>2
    <3>2. sent[Len(sent)][1] <= q[1]
      BY <2>2, <3>1, FilesCounted DEF Follows, Place
    <3> QED  BY <2>2, <3>1, <3>2, FilesCounted DEF Place
  <2> QED  BY <2>1, <2>2
<1> QED  BY <1>1, <1>2, <1>3

LEMMA InitForward == Init => ForwardInv
<1> SUFFICES ASSUME Init PROVE ForwardInv
  OBVIOUS
<1>1. ReaderTypeOK
  <2>1. entries \in FileNumbers /\ located \in 0 .. entries /\ filename_ = located /\ seek_tv_ \in Nat
    BY FilesCounted DEF Init
  <2> QED  BY <2>1 DEF Init, ReaderTypeOK
<1>3. AtCursor
  BY DEF Init, AtCursor
<1>2. sent = <<>> /\ sent \in Seq(Place)
  BY DEF Init
<1> QED  BY <1>1, <1>2, <1>3 DEF ForwardInv, ForwardIsContiguous

LEMMA OpenForward ==
  ASSUME ForwardInv, OpenFile
  PROVE  ForwardInv'
<1> USE DEF ForwardInv, ReaderTypeOK
<1>1. filename_ \in FileNumbers /\ seek_tv_ \in Nat /\ sent = <<>> /\ ~over /\ ~opened
  BY FilesCounted DEF OpenFile, Asked
<1> DEFINE t == IF direction_ = "BACKWARD" THEN 0 ELSE seek_tv_
           d == StartDemuxing(Stopped, filename_, t)
<1>2. /\ demuxer' = d /\ opened' = (d.state = "STARTED") /\ over' = (d.state # "STARTED")
      /\ UNCHANGED <<entries, linked, seeking, lists, sent>>
  BY DEF OpenFile, Restart, StopDemuxing
<1>3. ReaderTypeOK'
  BY <1>1, <1>2 DEF seeking
<1>4. direction_ = "FORWARD" => AtCursor'
  <2> SUFFICES ASSUME direction_ = "FORWARD", d.state = "STARTED" PROVE AtCursor'
    BY <1>2 DEF AtCursor
  <2>1. t = seek_tv_
    BY ZenonT(20)
  <2>2. d # Stopped
    BY DEF Stopped
  <2>3. d.file = filename_ /\ d.next \in 1 .. LastIndex(filename_) /\ StartsAt(filename_, seek_tv_, d.next)
    <3> HIDE DEF d
    <3>1. d = StartDemuxing(Stopped, filename_, seek_tv_)
      BY <2>1 DEF d
    <3> QED  BY <1>1, <2>2, <3>1, StartFacts
  <2>4. d = [state |-> "STARTED", file |-> filename_, next |-> d.next]
    BY <2>2, <2>3 DEF StartDemuxing, Stopped
  <2> HIDE DEF d, t
  <2>5. LastIndex(filename_) \in Nat
    BY <1>1, FileFacts
  <2> QED  BY <1>1, <1>2, <2>3, <2>4, <2>5, FilesCounted DEF AtCursor, seeking
<1>5. ForwardIsContiguous'
  BY <1>1, <1>2 DEF ForwardIsContiguous, seeking
<1> QED  BY <1>2, <1>3, <1>4, <1>5, <1>1 DEF seeking

LEMMA FrameForward ==
  ASSUME ForwardInv, NextForward, HasFrame(demuxer)
  PROVE  ForwardInv'
<1> USE DEF ForwardInv, ReaderTypeOK
<1> DEFINE q == <<demuxer.file, demuxer.next>>
<1>1. /\ direction_ = "FORWARD" /\ opened /\ ~over /\ sent \in Seq(Place)
      /\ sent' = Append(sent, q) /\ demuxer' = [demuxer EXCEPT !.next = @ + 1]
      /\ UNCHANGED <<entries, linked, seeking, opened, isStopped_, over>>
  BY DEF NextForward, Asked, GetOneFrame
<1>2. /\ demuxer.state = "STARTED" /\ demuxer.file = located /\ located \in FileNumbers
      /\ demuxer.next \in 1 .. LastIndex(located)
  BY <1>1, FilesCounted, FileFacts DEF AtCursor, HasFrame
<1>3. q \in Place
  BY <1>2 DEF Place
<1>4. sent # <<>> => Follows(sent[Len(sent)], q) /\ sent[1][1] <= sent[Len(sent)][1]
  <2> SUFFICES ASSUME sent # <<>> PROVE Follows(sent[Len(sent)], q)
    BY <1>1 DEF AtCursor
  <2>1. sent[Len(sent)] = Before(demuxer)
    BY <1>1 DEF AtCursor
  <2>2. sent[Len(sent)] \in Place
    BY <1>1
  <2>3. LastIndex(located) \in Nat
    BY <1>2, FileFacts
  <2> QED  BY <1>2, <2>1, <2>2, <2>3, FilesCounted DEF Follows, Before, Place
<1>5. /\ sent' \in Seq(Place) /\ sent' # <<>> /\ sent'[Len(sent')] = q
      /\ \A n \in 1 .. Len(sent') - 1 : Follows(sent'[n], sent'[n + 1])
      /\ sent'[1] = IF sent = <<>> THEN q ELSE sent[1]
      /\ sent'[1][1] <= q[1]
  <2>1. \A n \in 1 .. Len(sent) - 1 : Follows(sent[n], sent[n + 1])
    BY <1>1 DEF ForwardIsContiguous
  <2> HIDE DEF q
  <2> QED  BY <1>1, <1>3, <1>4, <2>1, StepOn
<1>6. sent = <<>> => StartsInTime(q)
  BY <1>1, <1>2 DEF AtCursor, StartsAt, StartsInTime, TimeOf
<1>7. /\ demuxer'.state = "STARTED" /\ demuxer'.file = located /\ demuxer'.next = demuxer.next + 1
      /\ demuxer'.next \in 1 .. LastIndex(located) + 1
      /\ Before(demuxer') = q
  <2>1. /\ demuxer'.state = "STARTED" /\ demuxer'.file = located /\ demuxer'.next = demuxer.next + 1
    <3>1. demuxer' = [demuxer EXCEPT !.next = demuxer.next + 1]
      BY <1>1
    <3> QED  BY <1>2, <3>1
  <2> QED  BY <1>2, <2>1, FileFacts DEF Before
<1>8. AtCursor'
  BY <1>1, <1>2, <1>5, <1>7 DEF AtCursor, seeking
<1>9. ForwardIsContiguous'
  BY <1>1, <1>5, <1>6 DEF ForwardIsContiguous, StartsInTime, seeking
<1> QED  BY <1>1, <1>5, <1>8, <1>9 DEF seeking

LEMMA FileForward ==
  ASSUME ForwardInv, NextForward, ~HasFrame(demuxer)
  PROVE  /\ ForwardInv'
         /\ over' /\ ~isStopped_' => sent # <<>> /\ sent[Len(sent)] = <<entries, LastIndex(entries)>>
<1> USE DEF ForwardInv, ReaderTypeOK
<1> DEFINE f == LocateNextMediaFile
           t == StartTime(f) * Second
           d == StartDemuxing(Stopped, f, t)
<1>1. /\ direction_ = "FORWARD" /\ direction_' = "FORWARD" /\ opened /\ ~over /\ sent \in Seq(Place)
      /\ located' = f /\ filename_' = f
      /\ UNCHANGED <<entries, linked, lists, sent>>
  BY DEF NextForward, NextFile, Asked
<1>2. /\ demuxer.state = "STARTED" /\ demuxer.file = located /\ located \in FileNumbers
      /\ LastIndex(located) \in Nat /\ LastIndex(located) >= 1
      /\ demuxer.next = LastIndex(located) + 1
  BY <1>1, FilesCounted, FileFacts DEF AtCursor, HasFrame
<1>3. /\ sent # <<>> /\ sent[Len(sent)] = <<located, LastIndex(located)>>
      /\ sent[1] \in Place /\ sent[1][1] \in FileNumbers /\ sent[1][1] <= located
  <2>1. sent # <<>>
    BY <1>1, <1>2 DEF AtCursor
  <2>2. sent[Len(sent)] = Before(demuxer) /\ sent[1][1] <= sent[Len(sent)][1]
    BY <1>1, <2>1 DEF AtCursor
  <2>3. Before(demuxer) = <<located, LastIndex(located)>>
    BY <1>2 DEF Before
  <2>4. sent[1] \in Place
    BY <1>1, <2>1
  <2> QED  BY <2>1, <2>2, <2>3, <2>4 DEF Place
<1>4. located' # sent[1][1] /\ ForwardIsContiguous'
  <2>1. located' # sent[1][1]
    BY <1>1, <1>2, <1>3, FilesCounted, NextLocated
  <2> QED  BY <1>1, <1>3, <2>1 DEF ForwardIsContiguous
<1>5. CASE f = 0
  <2>1. over' /\ UNCHANGED <<seek_tv_, opened, isStopped_>>
    BY <1>5 DEF NextForward, NextFile
  <2>2. located = entries
    BY <1>5, <1>2, FilesCounted, NextLocated
  <2>3. ReaderTypeOK'
    BY <1>1, <1>5, <2>1, FilesCounted
  <2>4. AtCursor'
    BY <2>1 DEF AtCursor
  <2> QED  BY <1>1, <1>3, <1>4, <2>2, <2>3, <2>4
<1>6. CASE f # 0
  <2>1. f = located + 1 /\ f \in FileNumbers /\ f <= entries
    BY <1>6, <1>2, FilesCounted, NextLocated
  <2>2. /\ seek_tv_' = t /\ demuxer' = StartDemuxing(Stopped, f, t)
        /\ opened' = (demuxer'.state = "STARTED") /\ over' = (demuxer'.state # "STARTED")
        /\ isStopped_' = over'
    <3>1. direction_ # "BACKWARD"
      BY <1>1
    <3>2. NextFile
      BY DEF NextForward
    <3>3. seek_tv_' = t /\ Restart(f, t)
      BY <1>6, <3>2 DEF NextFile
    <3> HIDE DEF f, t
    <3> QED  BY <3>1, <3>3 DEF Restart, StopDemuxing
  <2>3. Time(f, 1) \in Nat
    BY <2>1, FileFacts
  <2>4. t \in Nat /\ t <= Time(f, 1)
    BY <2>3, SecondsBelow DEF StartTime
  <2> HIDE DEF f, t
  <2>5. d = Stopped \/ (d.state = "STARTED" /\ d.file = f /\ d.next = 1)
    BY <2>1, <2>4, StartFromBeginning
  <2>6. d # Stopped => d = [state |-> "STARTED", file |-> f, next |-> 1]
    BY <2>5 DEF StartDemuxing, Stopped
  <2>7. ReaderTypeOK'
    <3>1. opened' \in BOOLEAN /\ over' = ~opened'
      BY <2>2
    <3>2. f \in 0 .. entries
      BY <2>1, FilesCounted
    <3>3. seek_tv_' \in Nat
      BY <2>2, <2>4
    <3> QED  BY <1>1, <3>1, <3>2, <3>3
  <2>8. AtCursor'
    <3> SUFFICES ASSUME d # Stopped PROVE AtCursor'
      BY <2>2 DEF AtCursor, Stopped
    <3>1. demuxer' = [state |-> "STARTED", file |-> f, next |-> 1] /\ LastIndex(f) \in Nat
      BY <2>1, <2>2, <2>6, FileFacts
    <3>2. Before(demuxer') = <<located, LastIndex(located)>>
      <4>1. f - 1 = located
        BY <2>1, <1>2, FilesCounted
      <4> QED  BY <3>1, <4>1 DEF Before
    <3> QED  BY <1>1, <1>2, <1>3, <2>1, <3>1, <3>2, FilesCounted DEF AtCursor
  <2> QED  BY <1>1, <1>4, <2>2, <2>7, <2>8
<1> QED  BY <1>5, <1>6

\* An action that plays backwards keeps what concerns both directions.
LEMMA BackwardKeeps ==
  ASSUME ForwardInv, NextBackward
  PROVE  ForwardInv' /\ (over' /\ ~isStopped_' => located = 1)
<1> USE DEF ForwardInv, ReaderTypeOK
<1>1. direction_ = "BACKWARD" /\ opened /\ ~over /\ located # 0 /\ entries' = entries /\ linked' = linked
  BY DEF NextBackward, Asked
<1> DEFINE Kept == /\ UNCHANGED <<located, filename_, seek_tv_, opened, over>>
           Left == /\ located' = located - 1 /\ filename_' = located - 1 /\ seek_tv_' \in Nat
                   /\ opened' \in BOOLEAN /\ over' \in BOOLEAN /\ (~over' => opened')
                   /\ over' /\ ~isStopped_' => located = 1
<1>2. ASSUME NEW d, PreviousFile(d) PROVE Left
  <2> DEFINE f == LocatePreviousMediaFile
  <2>1. located' = located - 1 /\ filename_' = located - 1 /\ f = located - 1
    BY <1>2 DEF PreviousFile, LocatePreviousMediaFile
  <2>2. CASE f = 0
    <3>1. over' = TRUE /\ UNCHANGED <<seek_tv_, opened, isStopped_>>
      BY <1>2, <2>2 DEF PreviousFile
    <3>2. located = 1
      BY <2>1, <2>2, FilesCounted
    <3> QED  BY <1>1, <2>1, <3>1, <3>2
  <2>3. CASE f # 0
    <3>1. seek_tv_' = EndTime(f) * Second /\ Restart(f, 0)
      BY <1>2, <2>3 DEF PreviousFile
    <3>2. f \in FileNumbers
      BY <1>1, <2>1, <2>3, FilesCounted
    <3>3. EndTime(f) * Second \in Nat
      <4>1. Time(f, LastIndex(f)) \in Nat
        BY <3>2, FileFacts
      <4> QED  BY <4>1, SecondsBelow DEF EndTime
    <3>4. opened' = ~over' /\ over' \in BOOLEAN /\ isStopped_' = over'
      BY <3>1 DEF Restart
    <3> QED  BY <2>1, <3>1, <3>3, <3>4
  <2> QED  BY <2>2, <2>3
<1>3. direction_' = direction_ /\ (Kept \/ Left)
  <2>1. ASSUME NEW d, NEW count, NEW osds, Drain(d, count, osds) PROVE direction_' = direction_ /\ (Kept \/ Left)
    <3> HIDE DEF Left
    <3> QED  BY <2>1, <1>2 DEF Drain, seeking
  <2> HIDE DEF Left
  <2> QED  BY <2>1 DEF NextBackward, Collect, seeking
<1>4. ReaderTypeOK'
  <2>1. CASE Kept
    BY <1>1, <1>3, <2>1
  <2>2. CASE Left
    BY <1>1, <1>3, <2>2, FilesCounted
  <2> QED  BY <1>3, <2>1, <2>2
<1> QED  BY <1>1, <1>3, <1>4 DEF ForwardIsContiguous

LEMMA SameForward ==
  ASSUME ForwardInv, ReaderTypeOK',
         UNCHANGED <<filename_, located, direction_, seek_tv_, demuxer, opened, over, sent>>
  PROVE  ForwardInv'
<1>1. AtCursor => AtCursor'
  BY DEF AtCursor, Before
<1>2. ForwardIsContiguous'
  BY DEF ForwardInv, ForwardIsContiguous, StartsInTime, TimeOf
<1>3. direction_ = "FORWARD" => sent' \in Seq(Place) /\ AtCursor
  BY DEF ForwardInv
<1> QED  BY <1>1, <1>2, <1>3 DEF ForwardInv

LEMMA OtherForward ==
  ASSUME ForwardInv,
         LinkFile \/ AddFile \/ (\E t \in Requests, dir \in {"FORWARD", "BACKWARD"} : Seek(t, dir)) \/ UNCHANGED vars
  PROVE  ForwardInv'
<1> USE DEF ForwardInv, ReaderTypeOK
<1>1. CASE LinkFile \/ AddFile
  <2>1. entries' \in {entries, entries + 1} /\ entries' \in FileNumbers /\ linked' \in {entries', entries' + 1}
    BY <1>1, FilesCounted DEF LinkFile, AddFile
  <2>2. UNCHANGED <<filename_, located, direction_, seek_tv_, demuxer, opened, over, sent>>
    BY <1>1 DEF LinkFile, AddFile, seeking
  <2>3. located' \in 0 .. entries'
    BY <2>1, <2>2, FilesCounted
  <2>4. ReaderTypeOK'
    BY <2>1, <2>2, <2>3
  <2> QED  BY <2>2, <2>4, SameForward
<1>2. ASSUME NEW t \in Requests, NEW dir \in {"FORWARD", "BACKWARD"}, Seek(t, dir)
      PROVE  ForwardInv'
  <2>1. /\ ~over /\ ~opened /\ direction_' = dir /\ seek_tv_' = t /\ over' \in BOOLEAN
        /\ located' \in 0 .. entries /\ filename_' = located'
        /\ UNCHANGED <<entries, linked, demuxer, opened, isStopped_, lists, sent>>
    <3>1. PICK g \in IF dir = "FORWARD" THEN LocateForwardly(t) ELSE LocateBackwardly(t) :
                 located' = g /\ filename_' = g /\ over' = (g = 0)
      BY <1>2 DEF Seek
    <3>2. g \in 0 .. entries
      BY <3>1, FilesCounted DEF LocateForwardly, LocateBackwardly
    <3> QED  BY <1>2, <3>1, <3>2 DEF Seek
  <2>2. t \in Nat /\ sent = <<>> /\ sent \in Seq(Place)
    BY <2>1, ReaderAssumption
  <2> QED  BY <2>1, <2>2 DEF AtCursor, ForwardIsContiguous
<1>3. CASE UNCHANGED vars
  <2>1. UNCHANGED <<entries, linked, filename_, located, direction_, seek_tv_, demuxer, opened, over, sent>>
    BY <1>3 DEF vars, seeking
  <2>2. ReaderTypeOK'
    BY <2>1
  <2> QED  BY <2>1, <2>2, SameForward
<1> QED  BY <1>1, <1>2, <1>3

LEMMA ForwardStep == ForwardInv /\ [Next]_vars => ForwardInv'
BY OpenForward, FrameForward, FileForward, BackwardKeeps, OtherForward DEF Next

(* Playing forwards, the client gets every frame from where it starts on,  *)
(* once and in order, across clusters and files, however many files there  *)
(* are and whatever is in them.                                            *)
THEOREM ForwardPlaysAll == Spec => []ForwardIsContiguous
<1>1. ForwardInv => ForwardIsContiguous
  BY DEF ForwardInv
<1> QED  BY InitForward, ForwardStep, <1>1, PTL DEF Spec

(* The playback of a file that can be opened ends after the last frame of  *)
(* the last file, or backwards in the first file.                          *)
THEOREM PlaysToTheEnd == Spec => EndsOnlyAtEnd
<1> DEFINE Ends == opened /\ ~over /\ over' /\ ~isStopped_' =>
                     IF direction_ = "FORWARD"
                     THEN sent # <<>> /\ sent[Len(sent)] = <<entries, LastIndex(entries)>>
                     ELSE located = 1
<1>1. ASSUME ForwardInv, [Next]_vars PROVE Ends \/ UNCHANGED vars
  <2>1. CASE LinkFile \/ AddFile \/ UNCHANGED vars
    BY <2>1 DEF LinkFile, AddFile, vars
  <2>2. CASE (\E t \in Requests, dir \in {"FORWARD", "BACKWARD"} : Seek(t, dir)) \/ OpenFile
    BY <2>2 DEF Seek, OpenFile
  <2>3. CASE NextForward
    <3>1. CASE HasFrame(demuxer)
      BY <2>3, <3>1 DEF NextForward
    <3>2. CASE ~HasFrame(demuxer)
      <4>1. over' /\ ~isStopped_' => sent # <<>> /\ sent[Len(sent)] = <<entries, LastIndex(entries)>>
        BY <1>1, <2>3, <3>2, FileForward
      <4> QED  BY <2>3, <4>1 DEF NextForward
    <3> QED  BY <3>1, <3>2
  <2>4. CASE NextBackward
    BY <1>1, <2>4, BackwardKeeps DEF NextBackward
  <2> QED  BY <1>1, <2>1, <2>2, <2>3, <2>4 DEF Next
<1> QED  BY <1>1, InitForward, ForwardStep, PTL DEF Spec, EndsOnlyAtEnd

-----------------------------------------------------------------------------
(* Playing backwards.  What is left of a file is a set of its frames: the  *)
(* first ones, up to the index that the lists have reached, or those       *)
(* before the time while they are not collected (Rest).  Its greatest      *)
(* element is always the frame that the property asks for next (Awaits),   *)
(* and the last OSD that was sent is the last one in front of the lists    *)
(* (Lists), although the lists hold one OSD less than the file.            *)

\* The frames and the OSDs among the first c of a file.
FramesIn(f, c) == {n \in 1 .. c : ~IsOsd(f, n)}
OsdsIn(f, c) == {n \in 1 .. c : IsOsd(f, n)}
WithoutLast(S) == IF S = {} THEN {} ELSE S \ {Max(S)}

\* The last frame and the last OSD that were sent.
LastFrame(s, n) == n \in 1 .. Len(s) /\ IsFrame(s[n]) /\ \A k \in n + 1 .. Len(s) : ~IsFrame(s[k])
LastOsd(s, p) == \E k \in 1 .. Len(s) : s[k] = p /\ \A j \in k + 1 .. Len(s) : IsFrame(s[j])
NoFrame(s) == \A n \in 1 .. Len(s) : ~IsFrame(s[n])

\* The three parts of the property, of a sequence s.
FirstIsLatest(s, f, t) ==
  \A n \in DOMAIN s : FirstFrame(s, n) /\ f = s[1][1] => s[n] = <<f, Max(FramesBefore(f, t))>>
NextIsBefore(s) == \A m, n \in DOMAIN s : NextFrame(s, m, n) => Reversed(s[m], s[n])
AllShown(s) == \A n \in DOMAIN s : IsFrame(s[n]) => ShownWithItsOsd(s, n)

LEMMA ListFacts ==
  ASSUME NEW f \in FileNumbers, NEW c \in 0 .. LastIndex(f)
  PROVE  /\ FramesIn(f, c) \in SUBSET Nat /\ OsdsIn(f, c) \in SUBSET Nat /\ c \in Nat
         /\ FramesIn(f, c) # {} => Max(FramesIn(f, c)) \in FramesIn(f, c)
                                   /\ \A k \in FramesIn(f, c) : Max(FramesIn(f, c)) >= k
         /\ OsdsIn(f, c) # {} => Max(OsdsIn(f, c)) \in OsdsIn(f, c)
                                 /\ \A k \in OsdsIn(f, c) : Max(OsdsIn(f, c)) >= k
<1>1. LastIndex(f) \in Nat /\ c \in Nat
  BY FileFacts
<1>2. /\ FramesIn(f, c) \in SUBSET Nat /\ OsdsIn(f, c) \in SUBSET Nat
      /\ \A k \in FramesIn(f, c) : k <= c
      /\ \A k \in OsdsIn(f, c) : k <= c
  BY <1>1 DEF FramesIn, OsdsIn
<1>3. FramesIn(f, c) # {} => Max(FramesIn(f, c)) \in FramesIn(f, c)
                             /\ \A k \in FramesIn(f, c) : Max(FramesIn(f, c)) >= k
  BY <1>1, <1>2, MaxIs
<1>4. OsdsIn(f, c) # {} => Max(OsdsIn(f, c)) \in OsdsIn(f, c)
                           /\ \A k \in OsdsIn(f, c) : Max(OsdsIn(f, c)) >= k
  BY <1>1, <1>2, MaxIs
<1> QED  BY <1>1, <1>2, <1>3, <1>4

\* The frames before a time are the first ones of the file: times do not go back.
LEMMA CountFacts ==
  ASSUME NEW f \in FileNumbers, NEW t \in Nat
  PROVE  /\ CountBefore(f, t) \in 0 .. LastIndex(f)
         /\ FramesBefore(f, t) = FramesIn(f, CountBefore(f, t))
<1> DEFINE S == {n \in 1 .. LastIndex(f) : Time(f, n) < t}
<1>1. LastIndex(f) \in Nat /\ DOMAIN Frames(f) = 1 .. LastIndex(f)
      /\ \A n \in 1 .. LastIndex(f) : Time(f, n) \in Nat
  BY FileFacts
<1>2. \E c \in 0 .. LastIndex(f) : S = 1 .. c
  <2>1. CASE S = {}
    <3>1. S = 1 .. 0 /\ 0 \in 0 .. LastIndex(f)
      BY <2>1, <1>1
    <3> QED  BY <3>1
  <2>2. CASE S # {}
    <3>1. S \in SUBSET Nat /\ \A k \in S : k <= LastIndex(f)
      BY <1>1
    <3>2. PICK c \in S : \A k \in S : c >= k
      <4> HIDE DEF S
      <4> QED  BY <1>1, <2>2, <3>1, GreatestNumber
    <3>3. c \in 1 .. LastIndex(f) /\ Time(f, c) < t /\ c \in 0 .. LastIndex(f)
      BY <1>1
    <3>4. \A k \in 1 .. c : k \in S
      <4> TAKE k \in 1 .. c
      <4>1. k \in 1 .. LastIndex(f) /\ c \in k .. LastIndex(f)
        BY <1>1, <3>3
      <4>2. Time(f, k) <= Time(f, c) /\ Time(f, k) \in Nat /\ Time(f, c) \in Nat
        BY <1>1, <3>3, <4>1, TimesGrow
      <4> QED  BY <3>3, <4>1, <4>2
    <3>5. \A k \in S : k \in 1 .. c
      BY <3>1, <3>2, <3>3
    <3> HIDE DEF S
    <3> QED  BY <3>3, <3>4, <3>5
  <2> QED  BY <2>1, <2>2
<1>3. PICK c \in 0 .. LastIndex(f) : S = 1 .. c
  BY <1>2
<1>4. CountBefore(f, t) = Cardinality(1 .. c)
  BY <1>1, <1>3 DEF CountBefore
<1>5. Cardinality(1 .. c) = c
  BY <1>1, FS_Interval
<1>6. FramesBefore(f, t) = {n \in S : ~IsOsd(f, n)}
  BY <1>1 DEF FramesBefore
<1> QED  BY <1>3, <1>4, <1>5, <1>6 DEF FramesIn

LEMMA PlaceFacts ==
  ASSUME NEW s \in Seq(Place), NEW q \in Place
  PROVE  LET r == Append(s, q) IN
         /\ r \in Seq(Place) /\ Len(r) = Len(s) + 1 /\ Len(s) \in Nat /\ r[Len(s) + 1] = q
         /\ DOMAIN r = 1 .. Len(s) + 1 /\ DOMAIN s = 1 .. Len(s) /\ r # <<>>
         /\ \A n \in 1 .. Len(s) : r[n] = s[n]
         /\ s = <<>> => r[1] = q
         /\ s # <<>> => r[1] = s[1]
<1> DEFINE r == Append(s, q)
<1>1. /\ r \in Seq(Place) /\ Len(r) = Len(s) + 1 /\ Len(s) \in Nat /\ r[Len(r)] = q /\ r # <<>>
      /\ \A n \in 1 .. Len(s) : r[n] = s[n]
      /\ s = <<>> => r[1] = q
      /\ s # <<>> => r[1] = s[1]
  BY AppendFacts
<1>2. DOMAIN r = 1 .. Len(r) /\ DOMAIN s = 1 .. Len(s)
  <2> HIDE DEF r
  <2> QED  BY <1>1, SeqFacts
<1> HIDE DEF r
<1>3. r[Len(s) + 1] = q /\ DOMAIN r = 1 .. Len(s) + 1
  BY <1>1, <1>2
<1> QED  BY <1>1, <1>2, <1>3 DEF r

\* What is sent next is a frame.
LEMMA FrameSent ==
  ASSUME NEW s \in Seq(Place), NEW q \in Place, IsFrame(q)
  PROVE  LET r == Append(s, q) IN
         /\ \A n : LastFrame(r, n) => r[n] = q
         /\ ~NoFrame(r)
         /\ \A p : LastOsd(s, p) => LastOsd(r, p)
<1> DEFINE r == Append(s, q)
<1>1. /\ Len(r) = Len(s) + 1 /\ Len(s) \in Nat /\ r[Len(s) + 1] = q
      /\ \A n \in 1 .. Len(s) : r[n] = s[n]
  BY PlaceFacts
<1> HIDE DEF r
<1>2. ASSUME NEW n, LastFrame(r, n) PROVE r[n] = q
  <2>1. n \in 1 .. Len(s) + 1 /\ \A k \in n + 1 .. Len(s) + 1 : ~IsFrame(r[k])
    BY <1>1, <1>2 DEF LastFrame
  <2>2. CASE n # Len(s) + 1
    <3>1. Len(s) + 1 \in n + 1 .. Len(s) + 1
      BY <1>1, <2>1, <2>2
    <3> QED  BY <1>1, <2>1, <3>1
  <2> QED  BY <1>1, <2>2
<1>3. ~NoFrame(r)
  <2>1. Len(s) + 1 \in 1 .. Len(r)
    BY <1>1
  <2> QED  BY <1>1, <2>1 DEF NoFrame
<1>4. ASSUME NEW p, LastOsd(s, p) PROVE LastOsd(r, p)
  <2>1. PICK k \in 1 .. Len(s) : s[k] = p /\ \A j \in k + 1 .. Len(s) : IsFrame(s[j])
    BY <1>4 DEF LastOsd
  <2>2. k \in 1 .. Len(r) /\ r[k] = p
    BY <1>1, <2>1
  <2>3. ASSUME NEW j \in k + 1 .. Len(r) PROVE IsFrame(r[j])
    <3>1. CASE j = Len(s) + 1
      BY <1>1, <3>1
    <3>2. CASE j # Len(s) + 1
      <4>1. j \in k + 1 .. Len(s) /\ j \in 1 .. Len(s)
        BY <1>1, <2>1, <2>3, <3>2
      <4> QED  BY <1>1, <2>1, <4>1
    <3> QED  BY <3>1, <3>2
  <2> QED  BY <2>2, <2>3 DEF LastOsd
<1> QED  BY <1>2, <1>3, <1>4 DEF r

\* What is sent next is an OSD.
LEMMA OsdSent ==
  ASSUME NEW s \in Seq(Place), NEW q \in Place, ~IsFrame(q)
  PROVE  LET r == Append(s, q) IN
         /\ \A n : LastFrame(r, n) => LastFrame(s, n) /\ r[n] = s[n]
         /\ NoFrame(r) => NoFrame(s)
         /\ LastOsd(r, q)
<1> DEFINE r == Append(s, q)
<1>1. /\ Len(r) = Len(s) + 1 /\ Len(s) \in Nat /\ r[Len(s) + 1] = q
      /\ \A n \in 1 .. Len(s) : r[n] = s[n]
  BY PlaceFacts
<1> HIDE DEF r
<1>2. ASSUME NEW n, LastFrame(r, n) PROVE LastFrame(s, n) /\ r[n] = s[n]
  <2>1. /\ n \in 1 .. Len(s) + 1 /\ IsFrame(r[n])
        /\ \A k \in n + 1 .. Len(s) + 1 : ~IsFrame(r[k])
    BY <1>1, <1>2 DEF LastFrame
  <2>2. n # Len(s) + 1
    BY <1>1, <2>1
  <2>3. n \in 1 .. Len(s)
    BY <1>1, <2>1, <2>2
  <2>4. ASSUME NEW k \in n + 1 .. Len(s) PROVE ~IsFrame(s[k])
    <3>1. k \in n + 1 .. Len(s) + 1 /\ k \in 1 .. Len(s)
      BY <1>1, <2>3
    <3> QED  BY <1>1, <2>1, <3>1
  <2> QED  BY <1>1, <2>1, <2>3, <2>4 DEF LastFrame
<1>3. NoFrame(r) => NoFrame(s)
  <2> SUFFICES ASSUME NoFrame(r), NEW n \in 1 .. Len(s) PROVE ~IsFrame(s[n])
    BY DEF NoFrame
  <2>1. n \in 1 .. Len(r)
    BY <1>1
  <2> QED  BY <1>1, <2>1 DEF NoFrame
<1>4. LastOsd(r, q)
  <2>1. Len(s) + 1 \in 1 .. Len(r) /\ \A j \in (Len(s) + 1) + 1 .. Len(r) : FALSE
    BY <1>1
  <2> QED  BY <1>1, <2>1 DEF LastOsd
<1> QED  BY <1>2, <1>3, <1>4 DEF r

\* The properties of a sequence, when something is appended.
LEMMA FirstAppended ==
  ASSUME NEW s \in Seq(Place), NEW q \in Place, NEW f, NEW t, FirstIsLatest(s, f, t),
         IsFrame(q) /\ NoFrame(s) => q = <<f, Max(FramesBefore(f, t))>>
  PROVE  FirstIsLatest(Append(s, q), f, t)
<1> DEFINE r == Append(s, q)
<1>1. /\ DOMAIN r = 1 .. Len(s) + 1 /\ Len(s) \in Nat /\ r[Len(s) + 1] = q /\ DOMAIN s = 1 .. Len(s)
      /\ \A n \in 1 .. Len(s) : r[n] = s[n]
      /\ s # <<>> => r[1] = s[1]
  BY PlaceFacts
<1> HIDE DEF r
<1> SUFFICES ASSUME NEW n \in 1 .. Len(s) + 1, FirstFrame(r, n), f = r[1][1]
             PROVE  r[n] = <<f, Max(FramesBefore(f, t))>>
  BY <1>1 DEF FirstIsLatest, r
<1>2. IsFrame(r[n]) /\ \A k \in 1 .. n - 1 : ~IsFrame(r[k])
  BY DEF FirstFrame
<1>3. CASE n = Len(s) + 1
  <2>1. \A k \in 1 .. Len(s) : k \in 1 .. n - 1
    BY <1>1, <1>3
  <2>2. NoFrame(s)
    BY <1>1, <1>2, <2>1 DEF NoFrame
  <2> QED  BY <1>1, <1>2, <1>3, <2>2
<1>4. CASE n # Len(s) + 1
  <2>1. n \in 1 .. Len(s) /\ 1 \in 1 .. Len(s) /\ \A k \in 1 .. n - 1 : k \in 1 .. Len(s)
    BY <1>1, <1>4
  <2>2. r[n] = s[n] /\ r[1] = s[1] /\ \A k \in 1 .. n - 1 : r[k] = s[k]
    BY <1>1, <2>1
  <2>3. FirstFrame(s, n)
    BY <1>2, <2>2 DEF FirstFrame
  <2> QED  BY <1>1, <2>1, <2>2, <2>3 DEF FirstIsLatest
<1> QED  BY <1>3, <1>4

LEMMA NextAppended ==
  ASSUME NEW s \in Seq(Place), NEW q \in Place, NextIsBefore(s),
         IsFrame(q) => \A n : LastFrame(s, n) => Reversed(s[n], q)
  PROVE  NextIsBefore(Append(s, q))
<1> DEFINE r == Append(s, q)
<1>1. /\ DOMAIN r = 1 .. Len(s) + 1 /\ Len(s) \in Nat /\ r[Len(s) + 1] = q /\ DOMAIN s = 1 .. Len(s)
      /\ \A n \in 1 .. Len(s) : r[n] = s[n]
  BY PlaceFacts
<1> HIDE DEF r
<1> SUFFICES ASSUME NEW m \in 1 .. Len(s) + 1, NEW n \in 1 .. Len(s) + 1, NextFrame(r, m, n)
             PROVE  Reversed(r[m], r[n])
  BY <1>1 DEF NextIsBefore, r
<1>2. m < n /\ IsFrame(r[m]) /\ IsFrame(r[n]) /\ \A k \in m + 1 .. n - 1 : ~IsFrame(r[k])
  BY DEF NextFrame
<1>3. m \in 1 .. Len(s) /\ r[m] = s[m]
  BY <1>1, <1>2
<1>4. CASE n = Len(s) + 1
  <2>1. ASSUME NEW k \in m + 1 .. Len(s) PROVE ~IsFrame(s[k])
    <3>1. k \in m + 1 .. n - 1 /\ k \in 1 .. Len(s)
      BY <1>1, <1>3, <1>4
    <3> QED  BY <1>1, <1>2, <3>1
  <2>2. LastFrame(s, m)
    BY <1>2, <1>3, <2>1 DEF LastFrame
  <2> QED  BY <1>1, <1>2, <1>3, <1>4, <2>2
<1>5. CASE n # Len(s) + 1
  <2>1. n \in 1 .. Len(s) /\ \A k \in m + 1 .. n - 1 : k \in 1 .. Len(s)
    BY <1>1, <1>3, <1>5
  <2>2. NextFrame(s, m, n)
    BY <1>1, <1>2, <1>3, <2>1 DEF NextFrame
  <2> QED  BY <1>1, <1>3, <2>1, <2>2 DEF NextIsBefore
<1> QED  BY <1>4, <1>5

LEMMA ShownAppended ==
  ASSUME NEW s \in Seq(Place), NEW q \in Place, AllShown(s),
         IsFrame(q) /\ OsdAt(q) # {} => LastOsd(s, <<q[1], Max(OsdAt(q))>>)
  PROVE  AllShown(Append(s, q))
<1> DEFINE r == Append(s, q)
<1>1. /\ DOMAIN r = 1 .. Len(s) + 1 /\ Len(s) \in Nat /\ r[Len(s) + 1] = q /\ DOMAIN s = 1 .. Len(s)
      /\ \A n \in 1 .. Len(s) : r[n] = s[n]
      /\ Len(r) = Len(s) + 1
  BY PlaceFacts
<1> HIDE DEF r
<1> SUFFICES ASSUME NEW n \in 1 .. Len(s) + 1, IsFrame(r[n]), OsdAt(r[n]) # {}
             PROVE  \E k \in 1 .. n : r[k] = <<r[n][1], Max(OsdAt(r[n]))>>
                                      /\ \A j \in k + 1 .. n : IsFrame(r[j])
  BY <1>1 DEF AllShown, ShownWithItsOsd, r
<1>2. CASE n = Len(s) + 1
  <2>1. LastOsd(s, <<q[1], Max(OsdAt(q))>>) /\ IsFrame(q)
    BY <1>1, <1>2
  <2>2. LastOsd(r, <<q[1], Max(OsdAt(q))>>)
    BY <2>1, FrameSent DEF r
  <2> QED  BY <1>1, <1>2, <2>2 DEF LastOsd
<1>3. CASE n # Len(s) + 1
  <2>1. n \in 1 .. Len(s) /\ \A k \in 1 .. n : k \in 1 .. Len(s)
    BY <1>1, <1>3
  <2>2. PICK k \in 1 .. n : s[k] = <<s[n][1], Max(OsdAt(s[n]))>> /\ \A j \in k + 1 .. n : IsFrame(s[j])
    BY <1>1, <2>1 DEF AllShown, ShownWithItsOsd
  <2>3. \A j \in k + 1 .. n : j \in 1 .. n
    BY <1>1, <2>1
  <2> QED  BY <1>1, <2>1, <2>2, <2>3
<1> QED  BY <1>2, <1>3

\* Dropping what lies behind the last frame or OSD changes nothing.
LEMMA CutAtFrame ==
  ASSUME NEW f \in FileNumbers, NEW c \in 0 .. LastIndex(f), NEW n \in 1 .. c,
         \A k \in n + 1 .. c : IsOsd(f, k)
  PROVE  /\ n - 1 \in 0 .. LastIndex(f) /\ LastIndex(f) \in Nat
         /\ ~IsOsd(f, n) => FramesIn(f, c) # {} /\ Max(FramesIn(f, c)) = n
         /\ IsOsd(f, n) => FramesIn(f, n - 1) = FramesIn(f, c)
<1>1. LastIndex(f) \in Nat /\ c \in Nat /\ n \in Nat /\ n - 1 \in 0 .. LastIndex(f)
  BY FileFacts
<1>2. ASSUME ~IsOsd(f, n) PROVE FramesIn(f, c) # {} /\ Max(FramesIn(f, c)) = n
  <2>1. n \in FramesIn(f, c) /\ \A k \in FramesIn(f, c) : k <= n
    BY <1>1, <1>2 DEF FramesIn
  <2>2. Max(FramesIn(f, c)) \in FramesIn(f, c) /\ Max(FramesIn(f, c)) >= n
        /\ FramesIn(f, c) \in SUBSET Nat
    BY <2>1, ListFacts
  <2>3. Max(FramesIn(f, c)) <= n /\ Max(FramesIn(f, c)) \in Nat
    BY <2>1, <2>2
  <2> QED  BY <1>1, <2>1, <2>2, <2>3
<1>3. ASSUME IsOsd(f, n) PROVE FramesIn(f, n - 1) = FramesIn(f, c)
  BY <1>1, <1>3 DEF FramesIn
<1> QED  BY <1>1, <1>2, <1>3

\* The OSDs that come with the lists, before and after one element is taken.
LEMMA OsdTaken ==
  ASSUME NEW f \in FileNumbers, NEW c \in 1 .. LastIndex(f), c \in 0 .. LastIndex(f),
         c - 1 \in 0 .. LastIndex(f)
  PROVE  /\ IsOsd(f, c) => OsdsIn(f, c) # {} /\ Max(OsdsIn(f, c)) = c
                           /\ WithoutLast(OsdsIn(f, c)) = OsdsIn(f, c - 1)
         /\ ~IsOsd(f, c) => OsdsIn(f, c) = OsdsIn(f, c - 1)
<1>1. LastIndex(f) \in Nat /\ c \in Nat
  BY FileFacts
<1>2. ASSUME IsOsd(f, c) PROVE OsdsIn(f, c) # {} /\ Max(OsdsIn(f, c)) = c
                               /\ WithoutLast(OsdsIn(f, c)) = OsdsIn(f, c - 1)
  <2>1. c \in OsdsIn(f, c) /\ \A k \in OsdsIn(f, c) : k <= c
    BY <1>1, <1>2 DEF OsdsIn
  <2>2. Max(OsdsIn(f, c)) \in OsdsIn(f, c) /\ Max(OsdsIn(f, c)) >= c
        /\ OsdsIn(f, c) \in SUBSET Nat
    BY <2>1, ListFacts
  <2>3. Max(OsdsIn(f, c)) <= c /\ Max(OsdsIn(f, c)) \in Nat
    BY <2>1, <2>2
  <2>4. Max(OsdsIn(f, c)) = c
    BY <1>1, <2>2, <2>3
  <2>5. OsdsIn(f, c) \ {c} = OsdsIn(f, c - 1)
    BY <1>1 DEF OsdsIn
  <2> QED  BY <2>1, <2>4, <2>5 DEF WithoutLast
<1>3. ASSUME ~IsOsd(f, c) PROVE OsdsIn(f, c) = OsdsIn(f, c - 1)
  BY <1>1, <1>3 DEF OsdsIn
<1> QED  BY <1>2, <1>3

-----------------------------------------------------------------------------
(* What is left to send while the reader plays backwards.                  *)

\* The lists go up to index c of file f; the last OSD of that part was sent.
Lists(f, c, osds, s) ==
  /\ c \in 0 .. LastIndex(f)
  /\ osds = WithoutLast(OsdsIn(f, c))
  /\ OsdsIn(f, c) # {} => LastOsd(s, <<f, Max(OsdsIn(f, c))>>)

\* R, the rest of file f, is what comes before the frame p, which was sent.
Awaits(p, f, R) ==
  \/ p[1] = f /\ R = FramesIn(f, p[2] - 1)
  \/ /\ p[1] > f /\ FramesIn(p[1], p[2] - 1) = {} /\ R = PartOf(f)
     /\ \A e \in f + 1 .. p[1] - 1 : PartOf(e) = {}

Rest(f, ready, c, t) == IF ready THEN FramesIn(f, c) ELSE FramesBefore(f, t)

LeftToPlay(s, f, R, t) ==
  /\ \A n : LastFrame(s, n) => Awaits(s[n], f, R)
  /\ NoFrame(s) => R = FramesBefore(f, t)
  /\ s # <<>> => f <= s[1][1]

\* The greatest of the rest is what the property asks for.
LEMMA RestIsNext ==
  ASSUME NEW p \in Place, NEW f \in FileNumbers, NEW R, R # {}, Awaits(p, f, R)
  PROVE  Reversed(p, <<f, Max(R)>>)
<1>1. p[1] \in Nat /\ p[2] \in Nat /\ f \in Nat /\ f >= 1 /\ p[1] \in FileNumbers
  BY FilesCounted, FileFacts DEF Place
<1>2. FramesIn(p[1], p[2] - 1) = {n \in 1 .. p[2] - 1 : ~IsOsd(p[1], n)}
  BY DEF FramesIn
<1>3. CASE p[1] = f /\ R = FramesIn(f, p[2] - 1)
  BY <1>2, <1>3 DEF Reversed
<1>4. CASE /\ p[1] > f /\ FramesIn(p[1], p[2] - 1) = {} /\ R = PartOf(f)
           /\ \A e \in f + 1 .. p[1] - 1 : PartOf(e) = {}
  <2> DEFINE E == {e \in 1 .. p[1] - 1 : PartOf(e) # {}}
  <2>1. f \in E /\ E \in SUBSET Nat /\ \A e \in E : e <= p[1] /\ e <= f
    BY <1>1, <1>4
  <2>2. Max(E) = f
    <3> HIDE DEF E
    <3>1. Max(E) \in E /\ Max(E) >= f
      BY <1>1, <2>1, MaxIs
    <3>2. Max(E) <= f /\ Max(E) \in Nat
      BY <2>1, <3>1
    <3> QED  BY <1>1, <3>1, <3>2
  <2>3. ~\E n \in 1 .. p[2] - 1 : ~IsOsd(p[1], n)
    BY <1>2, <1>4
  <2> QED  BY <1>4, <2>2, <2>3 DEF Reversed
<1> QED  BY <1>3, <1>4 DEF Awaits

\* When nothing is left of a file, all of the file before it is left.
LEMMA RestOfPrevious ==
  ASSUME NEW p \in Place, NEW f \in FileNumbers, Awaits(p, f, {})
  PROVE  Awaits(p, f - 1, PartOf(f - 1))
<1>1. p[1] \in Nat /\ f \in Nat /\ f >= 1
  BY FilesCounted DEF Place
<1>2. CASE p[1] = f /\ {} = FramesIn(f, p[2] - 1)
  <2>1. p[1] > f - 1 /\ \A e \in (f - 1) + 1 .. p[1] - 1 : FALSE
    BY <1>1, <1>2
  <2> QED  BY <1>2, <2>1 DEF Awaits
<1>3. CASE /\ p[1] > f /\ FramesIn(p[1], p[2] - 1) = {} /\ {} = PartOf(f)
           /\ \A e \in f + 1 .. p[1] - 1 : PartOf(e) = {}
  <2>1. p[1] > f - 1
    BY <1>1, <1>3
  <2>2. \A e \in (f - 1) + 1 .. p[1] - 1 : e = f \/ e \in f + 1 .. p[1] - 1
    BY <1>1
  <2>3. \A e \in (f - 1) + 1 .. p[1] - 1 : PartOf(e) = {}
    BY <1>3, <2>2
  <2> QED  BY <1>3, <2>1, <2>3 DEF Awaits
<1> QED  BY <1>2, <1>3 DEF Awaits

Played(s, f, t) == FirstIsLatest(s, f, t) /\ NextIsBefore(s) /\ AllShown(s)

\* The next frame of the rest is sent.
LEMMA RestSent ==
  ASSUME NEW s \in Seq(Place), NEW f \in FileNumbers, NEW t, NEW R, NEW n \in 1 .. LastIndex(f),
         Played(s, f, t), LeftToPlay(s, f, R, t), R # {}, n = Max(R), ~IsOsd(f, n),
         OsdsIn(f, n) # {} => LastOsd(s, <<f, Max(OsdsIn(f, n))>>)
  PROVE  LET r == Append(s, <<f, n>>) IN
         r \in Seq(Place) /\ Played(r, f, t) /\ LeftToPlay(r, f, FramesIn(f, n - 1), t)
<1> DEFINE q == <<f, n>>
           r == Append(s, q)
<1>1. q \in Place /\ IsFrame(q) /\ q[1] = f /\ q[2] = n /\ f \in Nat
  BY FilesCounted, FileFacts DEF Place, IsFrame
<1>2. OsdAt(q) = OsdsIn(f, n)
  BY <1>1 DEF OsdAt, OsdsIn
<1> HIDE DEF q
<1>3. FirstIsLatest(r, f, t)
  <2>1. NoFrame(s) => q = <<f, Max(FramesBefore(f, t))>>
    BY DEF LeftToPlay, q
  <2> QED  BY <1>1, <2>1, FirstAppended DEF Played
<1>4. NextIsBefore(r)
  <2>1. ASSUME NEW k, LastFrame(s, k) PROVE Reversed(s[k], q)
    <3>1. s[k] \in Place /\ Awaits(s[k], f, R)
      BY <2>1 DEF LeftToPlay, LastFrame
    <3> QED  BY <3>1, RestIsNext DEF q
  <2> QED  BY <1>1, <2>1, NextAppended DEF Played
<1>5. AllShown(r)
  BY <1>1, <1>2, ShownAppended DEF Played
<1>6. LeftToPlay(r, f, FramesIn(f, n - 1), t)
  <2>1. \A k : LastFrame(r, k) => r[k] = q
    BY <1>1, FrameSent
  <2>2. ~NoFrame(r)
    BY <1>1, FrameSent
  <2>3. Awaits(q, f, FramesIn(f, n - 1))
    BY <1>1 DEF Awaits
  <2>4. (s = <<>> => r[1] = q) /\ (s # <<>> => r[1] = s[1])
    BY <1>1, PlaceFacts
  <2>5. f <= r[1][1]
    BY <1>1, <2>4 DEF LeftToPlay
  <2> HIDE DEF r
  <2> QED  BY <2>1, <2>2, <2>3, <2>5 DEF LeftToPlay
<1>7. r \in Seq(Place)
  BY <1>1, PlaceFacts
<1> QED  BY <1>3, <1>4, <1>5, <1>6, <1>7 DEF Played, q

\* An OSD is sent.
LEMMA OsdKeepsRest ==
  ASSUME NEW s \in Seq(Place), NEW f \in FileNumbers, NEW t, NEW R, NEW n \in 1 .. LastIndex(f),
         Played(s, f, t), LeftToPlay(s, f, R, t), IsOsd(f, n)
  PROVE  LET r == Append(s, <<f, n>>) IN
         r \in Seq(Place) /\ Played(r, f, t) /\ LeftToPlay(r, f, R, t) /\ LastOsd(r, <<f, n>>)
<1> DEFINE q == <<f, n>>
           r == Append(s, q)
<1>1. q \in Place /\ ~IsFrame(q) /\ q[1] = f /\ f \in Nat
  BY FilesCounted, FileFacts DEF Place, IsFrame
<1> HIDE DEF q
<1>2. FirstIsLatest(r, f, t) /\ NextIsBefore(r) /\ AllShown(r)
  BY <1>1, FirstAppended, NextAppended, ShownAppended DEF Played
<1>3. /\ \A k : LastFrame(r, k) => LastFrame(s, k) /\ r[k] = s[k]
      /\ NoFrame(r) => NoFrame(s)
      /\ LastOsd(r, q)
  BY <1>1, OsdSent
<1>4. r \in Seq(Place) /\ (s = <<>> => r[1] = q) /\ (s # <<>> => r[1] = s[1])
  BY <1>1, PlaceFacts
<1> HIDE DEF r
<1>5. LeftToPlay(r, f, R, t)
  BY <1>1, <1>3, <1>4 DEF LeftToPlay
<1> QED  BY <1>2, <1>3, <1>4, <1>5 DEF Played, r, q

-----------------------------------------------------------------------------
(* The steps.                                                              *)

\* The state of the reader between two frames.
BackwardState ==
  /\ located \in FileNumbers
  /\ isBackwardFrameListReady_ => Lists(located, backwardFrameList_, backwardOsdList_, sent)
  /\ LeftToPlay(sent, located,
                Rest(located, isBackwardFrameListReady_, backwardFrameList_, seek_tv_), seek_tv_)

BackwardPlay ==
  sent \in Seq(Place) /\ Played(sent, located, seek_tv_) /\ (opened /\ ~over => BackwardState)

BackwardInv ==
  /\ ForwardInv
  /\ ~opened /\ ~over => ~isBackwardFrameListReady_
  /\ direction_ = "BACKWARD" => BackwardPlay

\* Drain leaves the file when nothing of it is left.
LEMMA LeaveFile ==
  ASSUME located \in FileNumbers, sent \in Seq(Place), Played(sent, located, seek_tv_),
         LeftToPlay(sent, located, {}, seek_tv_), NEW d, PreviousFile(d), sent' = sent
  PROVE  BackwardPlay' /\ (~opened' /\ ~over' => opened)
<1> DEFINE f == located - 1
<1>1. located' = f /\ located \in Nat /\ located >= 1 /\ f \in Nat /\ (f # 0 => f \in FileNumbers)
  BY FilesCounted DEF PreviousFile, LocatePreviousMediaFile
<1>2. sent # <<>> => sent[1][1] \in Nat /\ located <= sent[1][1]
  <2>1. sent # <<>> => sent[1] \in Place
    OBVIOUS
  <2> QED  BY <2>1, FilesCounted DEF LeftToPlay, Place
<1>3. \A n \in DOMAIN sent : sent # <<>>
  OBVIOUS
<1>4. Played(sent, f, seek_tv_')
  BY <1>1, <1>2, <1>3 DEF Played, FirstIsLatest
<1>5. CASE f = 0
  BY <1>1, <1>4, <1>5 DEF PreviousFile, LocatePreviousMediaFile, BackwardPlay
<1>6. CASE f # 0
  <2>1. seek_tv_' = EndTime(f) * Second /\ Restart(f, 0) /\ isBackwardFrameListReady_' = FALSE
    BY <1>6 DEF PreviousFile, LocatePreviousMediaFile
  <2>2. FramesBefore(f, seek_tv_') = PartOf(f)
    BY <2>1 DEF PartOf
  <2>3. ASSUME NEW n, LastFrame(sent, n) PROVE Awaits(sent[n], f, PartOf(f))
    <3>1. sent[n] \in Place /\ Awaits(sent[n], located, {})
      BY <2>3 DEF LeftToPlay, LastFrame
    <3> QED  BY <3>1, RestOfPrevious
  <2>4. sent # <<>> => f <= sent[1][1]
    BY <1>1, <1>2
  <2>5. LeftToPlay(sent, f, PartOf(f), seek_tv_')
    BY <2>2, <2>3, <2>4 DEF LeftToPlay
  <2>6. ~opened' /\ ~over' => opened
    BY <2>1 DEF Restart
  <2>7. BackwardState'
    <3>1. Rest(f, isBackwardFrameListReady_', backwardFrameList_', seek_tv_') = PartOf(f)
      BY <2>1, <2>2 DEF Rest
    <3> HIDE DEF f
    <3> QED  BY <1>1, <1>6, <2>1, <2>5, <3>1 DEF BackwardState
  <2> QED  BY <1>1, <1>4, <2>6, <2>7 DEF BackwardPlay
<1> QED  BY <1>5, <1>6

LEMMA DrainBackward ==
  ASSUME located \in FileNumbers, sent \in Seq(Place), Played(sent, located, seek_tv_), opened, ~over,
         NEW c, NEW osds, NEW d, Lists(located, c, osds, sent),
         LeftToPlay(sent, located, FramesIn(located, c), seek_tv_), Drain(d, c, osds)
  PROVE  BackwardPlay' /\ (~opened' /\ ~over' => ~isBackwardFrameListReady_')
<1> DEFINE f == located
           wanted == {n \in 1 .. c : ~IsOsd(located, n) \/ osds # {}}
           n == Max(wanted)
<1>1. /\ c \in 0 .. LastIndex(f) /\ LastIndex(f) \in Nat /\ c \in Nat
      /\ osds = WithoutLast(OsdsIn(f, c))
      /\ OsdsIn(f, c) # {} => LastOsd(sent, <<f, Max(OsdsIn(f, c))>>)
  BY FileFacts DEF Lists
<1>2. CASE wanted = {}
  <2>1. FramesIn(f, c) = {}
    BY <1>2 DEF FramesIn
  <2>2. PreviousFile(d) /\ sent' = sent
    BY <1>2 DEF Drain
  <2>3. BackwardPlay'
    BY <2>1, <2>2, LeaveFile
  <2>4. opened' \/ over'
    BY <2>2 DEF PreviousFile, Restart
  <2> QED  BY <2>3, <2>4
<1>3. CASE wanted # {}
  <2>1. /\ backwardFrameList_' = n - 1
        /\ backwardOsdList_' = IF IsOsd(f, n) THEN osds \ {Max(osds)} ELSE osds
        /\ sent' = Append(sent, <<f, IF IsOsd(f, n) THEN Max(osds) ELSE n>>)
        /\ isBackwardFrameListReady_' /\ opened' /\ ~over'
        /\ located' = located /\ seek_tv_' = seek_tv_
    BY <1>3 DEF Drain, Given, seeking
  <2>2. wanted \in SUBSET Nat /\ \A k \in wanted : k <= c
    BY <1>1
  <2>3. n \in wanted /\ \A k \in wanted : k <= n
    <3> HIDE DEF wanted
    <3>1. n \in wanted /\ \A k \in wanted : n >= k
      BY <1>1, <1>3, <2>2, MaxIs
    <3> QED  BY <2>2, <3>1
  <2>4. /\ n \in 1 .. c /\ n \in 1 .. LastIndex(f) /\ n - 1 \in 0 .. LastIndex(f)
        /\ \A k \in n + 1 .. c : IsOsd(f, k) /\ osds = {}
        /\ ~IsOsd(f, n) \/ osds # {}
    <3>1. n \in 1 .. c /\ (~IsOsd(f, n) \/ osds # {})
      BY <2>3
    <3>2. \A k \in n + 1 .. c : k \in 1 .. c /\ ~(k <= n)
      BY <1>1, <3>1
    <3>3. \A k \in n + 1 .. c : k \notin wanted
      BY <2>3, <3>2
    <3> QED  BY <1>1, <3>1, <3>2, <3>3
  <2> HIDE DEF n, wanted
  <2>5. CASE ~IsOsd(f, n)
    <3> DEFINE q == <<f, n>>
    <3>1. FramesIn(f, c) # {} /\ Max(FramesIn(f, c)) = n
      BY <1>1, <2>4, <2>5, CutAtFrame
    <3>2. osds = WithoutLast(OsdsIn(f, n - 1))
          /\ OsdsIn(f, n) = OsdsIn(f, n - 1)
          /\ (OsdsIn(f, n) # {} => LastOsd(sent, <<f, Max(OsdsIn(f, n))>>))
      <4>1. OsdsIn(f, n) = OsdsIn(f, n - 1)
        <5>1. n \in 0 .. LastIndex(f)
          BY <2>4
        <5> QED  BY <2>4, <2>5, <5>1, OsdTaken
      <4>2. CASE n = c
        BY <1>1, <4>1, <4>2
      <4>3. CASE n # c
        <5>1. c \in n + 1 .. c
          BY <1>1, <2>4, <4>3
        <5>2. osds = {} /\ IsOsd(f, c)
          BY <2>4, <5>1
        <5>3. c \in OsdsIn(f, c) /\ OsdsIn(f, c) # {}
          BY <1>1, <5>1, <5>2, <2>4 DEF OsdsIn
        <5>4. OsdsIn(f, c) \subseteq {Max(OsdsIn(f, c))}
          BY <1>1, <5>2, <5>3 DEF WithoutLast
        <5>5. OsdsIn(f, n) = {}
          BY <1>1, <2>4, <4>3, <5>3, <5>4 DEF OsdsIn
        <5> QED  BY <4>1, <5>2, <5>5 DEF WithoutLast
      <4> QED  BY <4>2, <4>3
    <3>3. /\ sent' \in Seq(Place) /\ Played(sent', f, seek_tv_)
          /\ LeftToPlay(sent', f, FramesIn(f, n - 1), seek_tv_)
      BY <2>1, <2>4, <2>5, <3>1, <3>2, RestSent
    <3>4. sent' = Append(sent, <<f, n>>) /\ <<f, n>> \in Place /\ IsFrame(<<f, n>>)
      BY <2>1, <2>4, <2>5, FilesCounted DEF Place, IsFrame
    <3>5. \A p : LastOsd(sent, p) => LastOsd(sent', p)
      BY <3>4, FrameSent
    <3>6. Lists(f, n - 1, osds, sent')
      BY <2>4, <3>2, <3>5 DEF Lists
    <3>7. backwardOsdList_' = osds /\ backwardFrameList_' = n - 1
      BY <2>1, <2>5
    <3> QED  BY <2>1, <3>3, <3>6, <3>7 DEF BackwardPlay, BackwardState, Rest
  <2>6. CASE IsOsd(f, n)
    <3> DEFINE o == Max(osds)
    <3>1. n = c /\ osds # {}
      <4>1. c \in n + 1 .. c => osds = {}
        BY <2>4
      <4> QED  BY <1>1, <2>4, <2>6, <4>1
    <3>2. osds = OsdsIn(f, n - 1) /\ FramesIn(f, n - 1) = FramesIn(f, c)
      <4>1. FramesIn(f, n - 1) = FramesIn(f, c)
        BY <1>1, <2>4, <2>6, CutAtFrame
      <4>2. WithoutLast(OsdsIn(f, n)) = OsdsIn(f, n - 1)
        BY <1>1, <2>4, <2>6, <3>1, OsdTaken
      <4> QED  BY <1>1, <3>1, <4>1, <4>2
    <3>3. o \in OsdsIn(f, n - 1)
      BY <2>4, <3>1, <3>2, ListFacts
    <3>4. o \in 1 .. LastIndex(f) /\ IsOsd(f, o)
      BY <1>1, <2>4, <3>3 DEF OsdsIn
    <3>5. sent' = Append(sent, <<f, o>>)
      BY <2>1, <2>6
    <3> HIDE DEF o
    <3>6. /\ sent' \in Seq(Place) /\ Played(sent', f, seek_tv_)
          /\ LeftToPlay(sent', f, FramesIn(f, c), seek_tv_) /\ LastOsd(sent', <<f, o>>)
      BY <3>4, <3>5, OsdKeepsRest
    <3>7. Lists(f, n - 1, osds \ {o}, sent')
      BY <2>4, <3>1, <3>2, <3>6 DEF Lists, WithoutLast, o
    <3>8. backwardOsdList_' = osds \ {o} /\ backwardFrameList_' = n - 1
      BY <2>1, <2>6 DEF o
    <3>9. LeftToPlay(sent', f, FramesIn(f, n - 1), seek_tv_)
      BY <3>2, <3>6
    <3> QED  BY <2>1, <3>6, <3>7, <3>8, <3>9 DEF BackwardPlay, BackwardState, Rest
  <2> QED  BY <2>5, <2>6
<1> QED  BY <1>2, <1>3

LEMMA CollectBackward ==
  ASSUME located \in FileNumbers, sent \in Seq(Place), Played(sent, located, seek_tv_), opened, ~over,
         seek_tv_ \in Nat, LeftToPlay(sent, located, FramesBefore(located, seek_tv_), seek_tv_), Collect
  PROVE  BackwardPlay' /\ (~opened' /\ ~over' => ~isBackwardFrameListReady_')
<1> DEFINE f == located
           c == CountBefore(f, seek_tv_)
           osds == {n \in 1 .. c : IsOsd(f, n)}
           d == IF c = LastIndex(f) THEN Stopped ELSE [demuxer EXCEPT !.next = c + 2]
<1>1. /\ c \in 0 .. LastIndex(f) /\ FramesBefore(f, seek_tv_) = FramesIn(f, c)
      /\ LastIndex(f) \in Nat
  BY CountFacts, FileFacts
<1>2. osds = OsdsIn(f, c)
  BY DEF OsdsIn
<1>3. CASE osds = {}
  <2>1. Drain(d, c, osds)
    BY <1>3 DEF Collect
  <2>2. Lists(f, c, osds, sent)
    BY <1>1, <1>2, <1>3 DEF Lists, WithoutLast
  <2>3. LeftToPlay(sent, f, FramesIn(f, c), seek_tv_)
    BY <1>1
  <2> HIDE DEF c, d, osds
  <2> QED  BY <2>1, <2>2, <2>3, DrainBackward
<1>4. CASE osds # {}
  <2> DEFINE o == Max(osds)
  <2>1. /\ isBackwardFrameListReady_' = TRUE
        /\ backwardFrameList_' = c /\ backwardOsdList_' = osds \ {o}
        /\ sent' = Append(sent, <<f, o>>)
        /\ UNCHANGED <<located, seek_tv_, opened, over>>
    BY <1>4 DEF Collect, seeking
  <2>2. o \in OsdsIn(f, c)
    BY <1>1, <1>2, <1>4, ListFacts
  <2>3. o \in 1 .. LastIndex(f) /\ IsOsd(f, o)
    BY <1>1, <2>2 DEF OsdsIn
  <2>4. Lists(f, c, osds \ {o}, sent') <=> LastOsd(sent', <<f, o>>)
    BY <1>1, <1>2, <1>4 DEF Lists, WithoutLast
  <2>5. LeftToPlay(sent, f, FramesIn(f, c), seek_tv_)
    BY <1>1
  <2> HIDE DEF c, osds, o
  <2>6. /\ sent' \in Seq(Place) /\ Played(sent', f, seek_tv_)
        /\ LeftToPlay(sent', f, FramesIn(f, c), seek_tv_) /\ LastOsd(sent', <<f, o>>)
    BY <2>1, <2>3, <2>5, OsdKeepsRest
  <2> QED  BY <2>1, <2>4, <2>6 DEF BackwardPlay, BackwardState, Rest
<1> QED  BY <1>3, <1>4

LEMMA BackwardNext ==
  ASSUME BackwardInv, NextBackward
  PROVE  BackwardInv'
<1>1. ForwardInv /\ direction_ = "BACKWARD" /\ opened /\ ~over /\ BackwardPlay /\ BackwardState
  BY DEF BackwardInv, BackwardPlay, NextBackward, Asked
<1>2. /\ located \in FileNumbers /\ sent \in Seq(Place) /\ Played(sent, located, seek_tv_)
      /\ seek_tv_ \in Nat
  BY <1>1 DEF BackwardPlay, BackwardState, ForwardInv, ReaderTypeOK
<1>3. BackwardPlay' /\ (~opened' /\ ~over' => ~isBackwardFrameListReady_')
  <2>1. CASE isBackwardFrameListReady_
    <3>1. Drain(demuxer, backwardFrameList_, backwardOsdList_)
      BY <2>1 DEF NextBackward
    <3>2. Lists(located, backwardFrameList_, backwardOsdList_, sent)
          /\ LeftToPlay(sent, located, FramesIn(located, backwardFrameList_), seek_tv_)
      BY <1>1, <2>1 DEF BackwardState, Rest
    <3> QED  BY <1>1, <1>2, <3>1, <3>2, DrainBackward
  <2>2. CASE ~isBackwardFrameListReady_
    <3>1. Collect
      BY <2>2 DEF NextBackward
    <3>2. LeftToPlay(sent, located, FramesBefore(located, seek_tv_), seek_tv_)
      BY <1>1, <2>2 DEF BackwardState, Rest
    <3> QED  BY <1>1, <1>2, <3>1, <3>2, CollectBackward
  <2> QED  BY <2>1, <2>2
<1>4. ForwardInv'
  BY <1>1, BackwardKeeps
<1> QED  BY <1>3, <1>4 DEF BackwardInv

\* Before anything is sent, the property holds and all before the time is left.
LEMMA NothingPlayed ==
  ASSUME NEW f, NEW t
  PROVE  /\ <<>> \in Seq(Place) /\ Played(<<>>, f, t)
         /\ LeftToPlay(<<>>, f, FramesBefore(f, t), t)
BY DEF Played, FirstIsLatest, NextIsBefore, AllShown, LeftToPlay, LastFrame

LEMMA BackwardStep == BackwardInv /\ [Next]_vars => BackwardInv'
<1> SUFFICES ASSUME BackwardInv, [Next]_vars PROVE BackwardInv'
  OBVIOUS
<1>1. ForwardInv /\ ForwardInv'
  BY ForwardStep DEF BackwardInv
<1>2. CASE UNCHANGED vars
  BY <1>1, <1>2 DEF BackwardInv, BackwardPlay, BackwardState, vars, seeking, lists
<1>3. CASE LinkFile \/ AddFile
  BY <1>1, <1>3 DEF BackwardInv, BackwardPlay, BackwardState, LinkFile, AddFile, seeking, lists
<1>4. CASE \E t \in Requests, dir \in {"FORWARD", "BACKWARD"} : Seek(t, dir)
  <2>1. ~opened /\ ~over /\ UNCHANGED <<opened, sent, lists>>
    BY <1>4 DEF Seek
  <2>2. sent' = <<>> /\ ~opened' /\ ~isBackwardFrameListReady_'
    BY <1>1, <2>1 DEF ForwardInv, ReaderTypeOK, BackwardInv, lists
  <2>3. BackwardPlay'
    BY <2>2, NothingPlayed DEF BackwardPlay
  <2> QED  BY <1>1, <2>2, <2>3 DEF BackwardInv
<1>5. CASE OpenFile
  <2>1. /\ ~opened /\ ~over /\ filename_ # 0 /\ (opened' \/ over')
        /\ UNCHANGED <<located, seek_tv_, direction_, sent, isBackwardFrameListReady_>>
    BY <1>5 DEF OpenFile, Restart, Asked, seeking, lists
  <2>2. sent' = <<>> /\ ~isBackwardFrameListReady_'
    BY <1>1, <2>1 DEF ForwardInv, ReaderTypeOK, BackwardInv
  <2>3. located' \in FileNumbers
    BY <1>1, <2>1, FilesCounted DEF ForwardInv, ReaderTypeOK
  <2>4. BackwardState'
    <3>1. LeftToPlay(<<>>, located', FramesBefore(located', seek_tv_'), seek_tv_')
      BY NothingPlayed
    <3> QED  BY <2>2, <2>3, <3>1 DEF BackwardState, Rest
  <2>5. BackwardPlay'
    BY <2>2, <2>4, NothingPlayed DEF BackwardPlay
  <2> QED  BY <1>1, <2>1, <2>5 DEF BackwardInv
<1>6. CASE NextForward
  <2>1. direction_ = "FORWARD" /\ direction_' = "FORWARD" /\ opened /\ (opened' \/ over')
    BY <1>6 DEF NextForward, NextFile, Restart, Asked, seeking
  <2> QED  BY <1>1, <2>1 DEF BackwardInv
<1>7. CASE NextBackward
  BY <1>7, BackwardNext
<1> QED  BY <1>2, <1>3, <1>4, <1>5, <1>6, <1>7 DEF Next

(* Playing backwards, the client gets what was recorded before the time it *)
(* asked for, in reverse, and each frame with the OSD that was shown with  *)
(* it when it was recorded, however the files, their clusters and their    *)
(* OSDs lie.                                                               *)
THEOREM BackwardPlaysMirror == Spec => []BackwardMirrorsForward
<1>1. Init => BackwardInv
  BY InitForward DEF Init, BackwardInv
<1>2. BackwardInv => BackwardMirrorsForward
  BY DEF BackwardInv, BackwardPlay, Played, FirstIsLatest, NextIsBefore, AllShown, BackwardMirrorsForward
<1> QED  BY <1>1, BackwardStep, <1>2, PTL DEF Spec
=============================================================================
