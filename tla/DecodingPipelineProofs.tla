----------------------- MODULE DecodingPipelineProofs -----------------------
(***************************************************************************)
(* The frames of the decoder live exactly as long as they are used, for    *)
(* every stream, every size and every number of frames; and every picture  *)
(* of the stream is written in order or lost for a known reason, for every *)
(* delay of the decoder and any number of lost devices and timeouts.       *)
(***************************************************************************)
EXTENDS DecodingPipeline, SequenceTheorems, TLAPS

Response == [id : Nat \ {0}, size : Size, num : Nat, ref : Nat]

\* What the frames are when nobody, the pipeline alone, or both use them.
Unused ==
    /\ ext = {}
    /\ holds = [c \in Client |-> None]
    /\ live = leaked

UsedBy(users) ==
    \E r \in Response :
       /\ ext = {r}
       /\ r.size = fmt
       /\ r.ref = (IF "decoder" \in users THEN 2 ELSE 1)
       /\ holds = [c \in Client |-> IF c \in users THEN r.id ELSE None]
       /\ \A c \in users : resp[c] = r.id
       /\ live = leaked \union {r.id} /\ r.id \notin leaked

AllocTypeOK ==
    /\ memory \in {"system", "video"}
    /\ ids \in Nat
    /\ live \subseteq 1 .. ids
    /\ resp \in [Client -> Nat]
    /\ holds \in [Client -> Nat]

\* The inductive invariant: who uses the frames, at each place of the program.
IndInv ==
    /\ AllocTypeOK
    /\ fmt \in Size /\ pos \in Nat \ {0}
    /\ pc \in {"header", "alloc", "init", "decode", "drain",
               "reset", "crashed", "close", "free", "delete", "closed"}
    /\ pc \in {"header", "alloc", "delete", "closed"} => Unused
    /\ pc = "init" => UsedBy({"app"})
    /\ pc \in {"decode", "drain", "reset", "crashed"} =>
          UsedBy(IF memory = "video" THEN Client ELSE {"app"})
    /\ pc = "close" => Unused \/ UsedBy({"app"}) \/ UsedBy(Client)
    /\ pc = "free" => Unused \/ UsedBy({"app"})

-----------------------------------------------------------------------------
(* What the operations of the allocator do to the users of frames.         *)

\* The frames of a new response are given to the pipeline.
LEMMA AppAllocates ==
    ASSUME AllocTypeOK, fmt \in Size, fmt' = fmt, Unused, AllocFrames("app", fmt, Need[fmt])
    PROVE  AllocTypeOK' /\ UsedBy({"app"})'
<1> DEFINE r == [id |-> ids + 1, size |-> fmt, num |-> Need[fmt], ref |-> 1]
<1>1. r \in Response
  BY NeedAssumption DEF Response, AllocTypeOK
<1>2. /\ ext' = {r} /\ ids' = ids + 1 /\ live' = live \union {ids + 1}
      /\ resp' = [resp EXCEPT !["app"] = ids + 1]
      /\ holds' = [holds EXCEPT !["app"] = ids + 1]
      /\ UNCHANGED <<memory, leaked>>
  BY DEF AllocFrames, Unused
<1>3. AllocTypeOK'
  BY <1>2 DEF AllocTypeOK, Client
<1>4. UsedBy({"app"})'
  <2>1. holds' = [c \in Client |-> IF c \in {"app"} THEN r.id ELSE None]
    BY <1>2 DEF Unused, Client, None
  <2>2. resp'["app"] = r.id
    BY <1>2 DEF AllocTypeOK, Client
  <2>3. r.id \notin leaked' /\ live' = leaked' \union {r.id}
    BY <1>2 DEF Unused, AllocTypeOK
  <2> QED  BY <1>1, <1>2, <2>1, <2>2, <2>3 DEF UsedBy
<1> QED  BY <1>3, <1>4

\* The decoder, that asks for the same size, gets the frames of the pipeline.
LEMMA DecoderAllocates ==
    ASSUME AllocTypeOK, fmt' = fmt, UsedBy({"app"}),
           NEW min, AllocFrames("decoder", fmt, min)
    PROVE  AllocTypeOK' /\ UsedBy(Client)'
<1>1. PICK r \in Response :
         /\ ext = {r} /\ r.size = fmt /\ r.ref = 1
         /\ holds = [c \in Client |-> IF c \in {"app"} THEN r.id ELSE None]
         /\ resp["app"] = r.id
         /\ live = leaked \union {r.id} /\ r.id \notin leaked
  BY DEF UsedBy
<1> DEFINE s == [r EXCEPT !.ref = @ + 1]
<1>2. /\ ext' = {s} /\ UNCHANGED <<live, ids, memory, leaked>>
      /\ resp' = [resp EXCEPT !["decoder"] = r.id]
      /\ holds' = [holds EXCEPT !["decoder"] = r.id]
  BY <1>1 DEF AllocFrames
<1>3. s \in Response /\ s.id = r.id /\ s.size = r.size /\ s.ref = 2
  BY <1>1 DEF Response
<1>4. AllocTypeOK'
  BY <1>1, <1>2 DEF AllocTypeOK, Client, Response
<1>5. UsedBy(Client)'
  <2>1. holds' = [c \in Client |-> IF c \in Client THEN s.id ELSE None]
    BY <1>1, <1>2, <1>3 DEF Client
  <2>2. \A c \in Client : resp'[c] = s.id
    BY <1>1, <1>2, <1>3 DEF AllocTypeOK, Client
  <2>3. ext' = {s} /\ s.size = fmt' /\ live' = leaked' \union {s.id} /\ s.id \notin leaked'
    BY <1>1, <1>2, <1>3
  <2> HIDE DEF s
  <2> QED  BY <1>3, <2>1, <2>2, <2>3 DEF UsedBy, Client
<1> QED  BY <1>4, <1>5

\* A failed allocation changes nothing for the users of frames.
LEMMA FailureKeepsUsers ==
    ASSUME AllocTypeOK, fmt' = fmt, NEW size, NEW min, AllocFails(size, min)
    PROVE  /\ AllocTypeOK'
           /\ Unused => Unused'
           /\ UsedBy({"app"}) => UsedBy({"app"})'
<1>1. /\ UNCHANGED <<memory, ext, resp, holds>>
      /\ \/ UNCHANGED <<live, leaked, ids>>
         \/ /\ ids' = ids + 1
            /\ live' = live \union {ids + 1} /\ leaked' = leaked \union {ids + 1}
  BY DEF AllocFails
<1>2. AllocTypeOK'
  <2>1. ids' \in Nat /\ live' \subseteq 1 .. ids'
    <3>1. CASE UNCHANGED <<live, leaked, ids>>
      BY <3>1 DEF AllocTypeOK
    <3>2. CASE ids' = ids + 1 /\ live' = live \union {ids + 1}
      BY <3>2 DEF AllocTypeOK
    <3> QED  BY <1>1, <3>1, <3>2
  <2> QED  BY <1>1, <2>1 DEF AllocTypeOK
<1>3. Unused => Unused'
  BY <1>1 DEF Unused
<1>4. UsedBy({"app"}) => UsedBy({"app"})'
  BY <1>1 DEF UsedBy, AllocTypeOK
<1> QED  BY <1>2, <1>3, <1>4

\* The decoder frees first, the frames stay with the pipeline.
LEMMA DecoderFrees ==
    ASSUME AllocTypeOK, fmt' = fmt, UsedBy(Client), FreeFrames("decoder")
    PROVE  AllocTypeOK' /\ UsedBy({"app"})'
<1>1. PICK r \in Response :
         /\ ext = {r} /\ r.size = fmt /\ r.ref = 2
         /\ holds = [c \in Client |-> IF c \in Client THEN r.id ELSE None]
         /\ \A c \in Client : resp[c] = r.id
         /\ live = leaked \union {r.id} /\ r.id \notin leaked
  BY DEF UsedBy, Client
<1> DEFINE s == [r EXCEPT !.ref = @ - 1]
<1>2. resp["decoder"] = r.id
  BY <1>1 DEF Client
<1>3. /\ holds' = [holds EXCEPT !["decoder"] = None]
      /\ ext' = {s} /\ UNCHANGED <<resp, live, memory, leaked, ids>>
  BY <1>1, <1>2 DEF FreeFrames
<1>4. s \in Response /\ s.id = r.id /\ s.size = r.size /\ s.ref = 1
  BY <1>1 DEF Response
<1>5. AllocTypeOK'
  BY <1>3 DEF AllocTypeOK, Client, None
<1>6. UsedBy({"app"})'
  <2>1. holds' = [c \in Client |-> IF c \in {"app"} THEN s.id ELSE None]
    BY <1>1, <1>3, <1>4 DEF Client
  <2>2. \A c \in {"app"} : resp'[c] = s.id
    BY <1>1, <1>3, <1>4 DEF Client
  <2>3. ext' = {s} /\ s.size = fmt' /\ live' = leaked' \union {s.id} /\ s.id \notin leaked'
    BY <1>1, <1>3, <1>4
  <2> HIDE DEF s
  <2> QED  BY <1>4, <2>1, <2>2, <2>3 DEF UsedBy
<1> QED  BY <1>5, <1>6

\* The pipeline frees last, and the frames are released.
LEMMA AppFrees ==
    ASSUME AllocTypeOK, Unused \/ UsedBy({"app"}), FreeFrames("app")
    PROVE  AllocTypeOK' /\ Unused'
<1>1. CASE Unused
  <2>1. /\ holds' = [holds EXCEPT !["app"] = None]
        /\ UNCHANGED <<ext, resp, live, memory, leaked, ids>>
    BY <1>1 DEF FreeFrames, Unused
  <2> QED  BY <1>1, <2>1 DEF Unused, AllocTypeOK, Client, None
<1>2. CASE UsedBy({"app"})
  <2>1. PICK r \in Response :
           /\ ext = {r} /\ r.ref = 1
           /\ holds = [c \in Client |-> IF c \in {"app"} THEN r.id ELSE None]
           /\ resp["app"] = r.id
           /\ live = leaked \union {r.id} /\ r.id \notin leaked
    BY <1>2 DEF UsedBy
  <2>2. /\ holds' = [holds EXCEPT !["app"] = None]
        /\ ext' = {} /\ live' = live \ {r.id}
        /\ resp' = [resp EXCEPT !["app"] = None]
        /\ UNCHANGED <<memory, leaked, ids>>
    BY <2>1 DEF FreeFrames
  <2>3. AllocTypeOK'
    BY <2>2 DEF AllocTypeOK, Client, None
  <2>4. Unused'
    BY <2>1, <2>2 DEF Unused, Client, None
  <2> QED  BY <2>3, <2>4
<1> QED  BY <1>1, <1>2

\* An action that leaves the allocator alone leaves its users alone.
LEMMA AllocStable ==
    ASSUME UNCHANGED allocVars
    PROVE  /\ AllocTypeOK => AllocTypeOK'
           /\ Unused => Unused'
           /\ fmt' = fmt => \A users \in SUBSET Client : UsedBy(users) => UsedBy(users)'
<1>1. AllocTypeOK => AllocTypeOK'
  BY DEF allocVars, AllocTypeOK
<1>2. Unused => Unused'
  BY DEF allocVars, Unused
<1>3. ASSUME fmt' = fmt, NEW users \in SUBSET Client, UsedBy(users)
      PROVE  UsedBy(users)'
  BY <1>3 DEF allocVars, UsedBy
<1> QED  BY <1>1, <1>2, <1>3

-----------------------------------------------------------------------------
(* The invariant.                                                          *)

LEMMA InitHolds == Init => IndInv
<1> SUFFICES ASSUME Init PROVE IndInv
  OBVIOUS
<1>1. AllocTypeOK /\ Unused
  BY DEF Init, AllocInit, AllocTypeOK, Unused, Client, None
<1> QED  BY <1>1 DEF Init, IndInv, AllocInit

LEMMA NextHolds == IndInv /\ [Next]_vars => IndInv'
<1> SUFFICES ASSUME IndInv, [Next]_vars PROVE IndInv'
  OBVIOUS
<1> USE DEF IndInv
<1>a. /\ {"app"} \in SUBSET Client /\ Client \in SUBSET Client
  BY DEF Client
<1>1. CASE FindHeader
  <2>1. fmt' \in Size /\ pos' \in Nat \ {0}
    <3>1. ASSUME NEW p \in pos .. Len(Stream), pos' = p, fmt' = Stream[p].size
          PROVE  fmt' \in Size /\ pos' \in Nat \ {0}
      <4>1. p \in 1 .. Len(Stream)
        BY LenProperties, StreamAssumption
      <4>2. Stream[p] \in [size : Size, header : BOOLEAN]
        BY <4>1, ElementOfSeq, StreamAssumption
      <4> QED  BY <3>1, <4>1, <4>2
    <3>2. CASE UNCHANGED <<pos, fmt>>
      BY <3>2
    <3> QED  BY <1>1, <3>1, <3>2 DEF FindHeader
  <2>2. /\ UNCHANGED allocVars /\ pc = "header"
        /\ pc' = "alloc" \/ pc' = "close"
    BY <1>1 DEF FindHeader, End
  <2> QED  BY <2>1, <2>2, AllocStable
<1>2. CASE AllocSurfaces
  <2>1. pc = "alloc" /\ fmt' = fmt /\ pos' = pos
    BY <1>2 DEF AllocSurfaces
  <2>2. CASE AllocFrames("app", fmt, Need[fmt]) /\ pc' = "init"
    BY <2>1, <2>2, AppAllocates
  <2>3. CASE AllocFails(fmt, Need[fmt]) /\ End
    <3>1. AllocTypeOK' /\ Unused'
      BY <2>1, <2>3, FailureKeepsUsers
    <3> QED  BY <2>1, <2>3, <3>1 DEF End
  <2> QED  BY <1>2, <2>2, <2>3 DEF AllocSurfaces
<1>3. CASE InitDecoder
  <2>1. pc = "init" /\ fmt' = fmt /\ pos' = pos
    BY <1>3 DEF InitDecoder
  <2>2. CASE memory = "system" /\ pc' = "decode" /\ UNCHANGED allocVars
    BY <1>a, <2>1, <2>2, AllocStable DEF allocVars
  <2>3. ASSUME memory = "video", NEW min, AllocFrames("decoder", fmt, min), pc' = "decode"
        PROVE  IndInv'
    <3>1. AllocTypeOK' /\ UsedBy(Client)' /\ memory' = memory
      BY <2>1, <2>3, DecoderAllocates DEF AllocFrames
    <3> QED  BY <2>1, <2>3, <3>1
  <2>4. ASSUME NEW min, AllocFails(fmt, min), End
        PROVE  IndInv'
    <3>1. AllocTypeOK' /\ UsedBy({"app"})'
      BY <2>1, <2>4, FailureKeepsUsers
    <3> QED  BY <2>1, <2>4, <3>1 DEF End
  <2> QED  BY <1>3, <2>2, <2>3, <2>4 DEF InitDecoder
<1>4. CASE CloseDecoder
  <2>1. pc = "close" /\ pc' = "free" /\ fmt' = fmt /\ pos' = pos
    BY <1>4 DEF CloseDecoder, streamVars
  <2>2. CASE holds["decoder"] # None
    <3>1. UsedBy(Client)
      BY <2>1, <2>2 DEF Unused, UsedBy, Client
    <3>2. FreeFrames("decoder")
      BY <1>4, <2>2 DEF CloseDecoder
    <3> QED  BY <2>1, <3>1, <3>2, DecoderFrees
  <2>3. CASE holds["decoder"] = None
    <3>1. ~UsedBy(Client)
      BY <2>3 DEF UsedBy, Client, Response, None
    <3>2. UNCHANGED allocVars
      BY <1>4, <2>3 DEF CloseDecoder
    <3> QED  BY <1>a, <2>1, <3>1, <3>2, AllocStable
  <2> QED  BY <2>2, <2>3
<1>5. CASE DeleteFrames
  <2>1. pc = "free" /\ pc' \in {"delete", "header"} /\ fmt' = fmt /\ pos' = pos /\ FreeFrames("app")
    BY <1>5 DEF DeleteFrames, streamVars
  <2> QED  BY <2>1, AppFrees
<1>6. CASE DeleteAllocator
  <2>1. /\ pc = "delete" /\ pc' = "closed" /\ fmt' = fmt /\ pos' = pos
        /\ ext' = {} /\ live' = live /\ UNCHANGED <<memory, resp, holds, leaked, ids>>
    BY <1>6 DEF DeleteAllocator, streamVars, CloseAllocator, Unused
  <2> QED  BY <2>1 DEF AllocTypeOK, Unused
<1>7. CASE \/ DecodeFrame \/ LeaveMainLoop \/ DrainDecoder
          \/ DeviceLost \/ ResetDevice \/ Fail
  <2>1. /\ UNCHANGED allocVars /\ fmt' = fmt /\ memory' = memory /\ pos' \in Nat \ {0}
        /\ pc \in {"decode", "drain", "reset"}
        /\ pc' \in {"decode", "drain", "reset", "crashed", "close"}
    BY <1>7 DEF DecodeFrame, LeaveMainLoop, DrainDecoder, DeviceLost, ResetDevice, Fail, End,
                allocVars
  <2>2. CASE memory = "video"
    BY <1>a, <2>1, <2>2, AllocStable
  <2>3. CASE memory # "video"
    BY <1>a, <2>1, <2>3, AllocStable
  <2> QED  BY <2>2, <2>3
<1>8. CASE UNCHANGED vars
  <2>1. UNCHANGED allocVars /\ fmt' = fmt /\ pos' = pos /\ pc' = pc /\ memory' = memory
    BY <1>8 DEF vars, streamVars, allocVars
  <2> QED  BY <1>a, <2>1, AllocStable
<1> QED  BY <1>1, <1>2, <1>3, <1>4, <1>5, <1>6, <1>7, <1>8 DEF Next

LEMMA InvImplies == IndInv => FramesOutliveUsers
<1> SUFFICES ASSUME IndInv PROVE FramesOutliveUsers
  OBVIOUS
<1>1. CASE Unused
  BY <1>1 DEF IndInv, FramesOutliveUsers, RefsAgree, Unused, UsedBy, Client
<1>2. CASE UsedBy({"app"})
  BY <1>2 DEF IndInv, FramesOutliveUsers, RefsAgree, Unused, UsedBy, Client, Uses, None, Response
<1>3. CASE UsedBy(Client)
  BY <1>3 DEF IndInv, FramesOutliveUsers, RefsAgree, Unused, UsedBy, Client, Uses, None, Response
<1> QED  BY <1>1, <1>2, <1>3 DEF IndInv

\* The frames of the decoder are in memory as long as the pipeline or the decoder
\* may use them, both work on the same ones while pictures are decoded, and nothing
\* is left when all is closed (CDecodingPipeline, BaseFrameAllocator).
THEOREM FramesLiveAsLongAsUsed == Spec => []FramesOutliveUsers
<1>1. Spec => []IndInv
  BY InitHolds, NextHolds, PTL DEF Spec
<1> QED  BY <1>1, InvImplies, PTL

-----------------------------------------------------------------------------
(* Where the pictures are.                                                 *)

Increasing(s) == \A i, j \in DOMAIN s : i < j => s[i] < s[j]

\* The pictures before n are written (o), held (h), timed out (t) or gone (g), each
\* in one of these ways.
Placed(o, h, t, g, n) ==
    /\ o \in Seq(Nat) /\ h \in Seq(Nat)
    /\ n \in Nat \ {0}
    /\ Increasing(o) /\ Increasing(h)
    /\ \A i \in DOMAIN o, j \in DOMAIN h : o[i] < h[j]
    /\ UnitsOf(o) \union UnitsOf(h) \union t \union g = 1 .. n - 1
    /\ UnitsOf(o) \intersect (t \union g) = {}
    /\ UnitsOf(h) \intersect (t \union g) = {}
    /\ t \intersect g = {}

\* All of them are written or held.
Whole(o, h, n) ==
    /\ Len(o) + Len(h) = n - 1
    /\ \A i \in DOMAIN o : o[i] = i
    /\ \A j \in DOMAIN h : h[j] = Len(o) + j

-----------------------------------------------------------------------------
(* The ways a picture can go.                                              *)

LEMMA UnitsOfAppend ==
    ASSUME NEW s \in Seq(Nat), NEW x \in Nat
    PROVE  UnitsOf(Append(s, x)) = UnitsOf(s) \union {x}
<1>1. /\ DOMAIN s = 1 .. Len(s) /\ DOMAIN Append(s, x) = 1 .. Len(s) + 1
      /\ Len(s) \in Nat
      /\ \A i \in 1 .. Len(s) : Append(s, x)[i] = s[i]
      /\ Append(s, x)[Len(s) + 1] = x
  OBVIOUS
<1> QED  BY <1>1 DEF UnitsOf

LEMMA UnitsOfTail ==
    ASSUME NEW s \in Seq(Nat), s # <<>>
    PROVE  /\ UnitsOf(s) = UnitsOf(Tail(s)) \union {Head(s)}
           /\ Increasing(s) => Head(s) \notin UnitsOf(Tail(s))
<1>1. /\ DOMAIN s = 1 .. Len(s) /\ DOMAIN Tail(s) = 1 .. Len(s) - 1
      /\ Len(s) \in Nat \ {0} /\ Head(s) = s[1]
      /\ \A i \in 1 .. Len(s) - 1 : Tail(s)[i] = s[i + 1]
      /\ \A i \in 1 .. Len(s) : s[i] \in Nat
  OBVIOUS
<1>2. UnitsOf(s) \subseteq UnitsOf(Tail(s)) \union {Head(s)}
  <2> SUFFICES ASSUME NEW i \in 1 .. Len(s), i # 1
               PROVE  s[i] \in UnitsOf(Tail(s))
    BY <1>1 DEF UnitsOf
  <2>1. i - 1 \in 1 .. Len(s) - 1 /\ Tail(s)[i - 1] = s[i]
    BY <1>1
  <2> QED  BY <1>1, <2>1 DEF UnitsOf
<1>3. UnitsOf(Tail(s)) \union {Head(s)} \subseteq UnitsOf(s)
  BY <1>1 DEF UnitsOf
<1>4. ASSUME Increasing(s)
      PROVE  Head(s) \notin UnitsOf(Tail(s))
  <2> SUFFICES ASSUME NEW i \in 1 .. Len(s) - 1
               PROVE  Tail(s)[i] # Head(s)
    BY <1>1 DEF UnitsOf
  <2>1. 1 \in DOMAIN s /\ i + 1 \in DOMAIN s /\ 1 < i + 1
    BY <1>1
  <2>2. s[1] < s[i + 1] /\ s[1] \in Nat /\ s[i + 1] \in Nat
    BY <1>1, <1>4, <2>1 DEF Increasing
  <2> QED  BY <1>1, <2>2
<1> QED  BY <1>2, <1>3, <1>4

\* A picture is decoded and held.
LEMMA Take ==
    ASSUME NEW o, NEW h, NEW t, NEW g, NEW n, Placed(o, h, t, g, n)
    PROVE  Placed(o, Append(h, n), t, g, n + 1)
<1> DEFINE hh == Append(h, n)
<1>0. o \in Seq(Nat) /\ h \in Seq(Nat) /\ n \in Nat \ {0}
  BY DEF Placed
<1>1. /\ hh \in Seq(Nat)
      /\ DOMAIN h = 1 .. Len(h) /\ DOMAIN hh = 1 .. Len(h) + 1 /\ Len(h) \in Nat
      /\ \A j \in DOMAIN h : hh[j] = h[j]
      /\ hh[Len(h) + 1] = n
  BY <1>0
<1>2. UnitsOf(hh) = UnitsOf(h) \union {n}
  BY <1>0, UnitsOfAppend
<1>3. UnitsOf(o) \union UnitsOf(h) \union t \union g = 1 .. n - 1
  BY DEF Placed
<1>4. /\ \A i \in DOMAIN o : o[i] \in 1 .. n - 1
      /\ \A j \in DOMAIN h : h[j] \in 1 .. n - 1
  BY <1>3 DEF UnitsOf
<1> HIDE DEF hh
<1>5. Increasing(hh)
  <2>1. Increasing(h)
    BY DEF Placed
  <2> SUFFICES ASSUME NEW i \in DOMAIN hh, NEW j \in DOMAIN hh, i < j
               PROVE  hh[i] < hh[j]
    BY DEF Increasing
  <2>2. i \in DOMAIN h
    BY <1>1
  <2>3. CASE j \in DOMAIN h
    BY <1>1, <2>1, <2>2, <2>3 DEF Increasing
  <2>4. CASE j = Len(h) + 1
    BY <1>0, <1>1, <1>4, <2>2, <2>4
  <2> QED  BY <1>1, <2>3, <2>4
<1>6. \A i \in DOMAIN o, j \in DOMAIN hh : o[i] < hh[j]
  <2>1. \A i \in DOMAIN o, j \in DOMAIN h : o[i] < h[j]
    BY DEF Placed
  <2> SUFFICES ASSUME NEW i \in DOMAIN o, NEW j \in DOMAIN hh
               PROVE  o[i] < hh[j]
    OBVIOUS
  <2>2. CASE j \in DOMAIN h
    BY <1>1, <2>1, <2>2
  <2>3. CASE j = Len(h) + 1
    BY <1>0, <1>1, <1>4, <2>3
  <2> QED  BY <1>1, <2>2, <2>3
<1>7. UnitsOf(o) \union UnitsOf(hh) \union t \union g = 1 .. (n + 1) - 1
  <2>1. 1 .. (n + 1) - 1 = (1 .. n - 1) \union {n}
    BY <1>0
  <2> QED  BY <1>2, <1>3, <2>1
<1>8. UnitsOf(hh) \intersect (t \union g) = {}
  <2>1. n \notin t \union g
    BY <1>0, <1>3
  <2> QED  BY <1>2, <2>1 DEF Placed
<1> QED  BY <1>0, <1>1, <1>5, <1>6, <1>7, <1>8 DEF Placed, hh

LEMMA TailOfHeld ==
    ASSUME NEW o, NEW h, NEW t, NEW g, NEW n, Placed(o, h, t, g, n), h # <<>>
    PROVE  /\ Tail(h) \in Seq(Nat) /\ Head(h) \in Nat
           /\ Increasing(Tail(h))
           /\ \A j \in DOMAIN Tail(h) : Head(h) < Tail(h)[j]
           /\ \A i \in DOMAIN o : o[i] < Head(h)
           /\ \A i \in DOMAIN o, j \in DOMAIN Tail(h) : o[i] < Tail(h)[j]
<1>1. h \in Seq(Nat) /\ Increasing(h) /\ \A i \in DOMAIN o, j \in DOMAIN h : o[i] < h[j]
  BY DEF Placed
<1>2. /\ DOMAIN h = 1 .. Len(h) /\ DOMAIN Tail(h) = 1 .. Len(h) - 1
      /\ Len(h) \in Nat \ {0} /\ Head(h) = h[1]
      /\ Tail(h) \in Seq(Nat)
      /\ \A j \in 1 .. Len(h) - 1 : Tail(h)[j] = h[j + 1]
      /\ \A j \in 1 .. Len(h) : h[j] \in Nat
  BY <1>1
<1>3. \A i, j \in 1 .. Len(h) : i < j => h[i] < h[j]
  BY <1>1, <1>2 DEF Increasing
<1>4. \A j \in 1 .. Len(h) - 1 : j + 1 \in 1 .. Len(h)
  BY <1>2
<1>5. Increasing(Tail(h))
  BY <1>2, <1>3, <1>4 DEF Increasing
<1>6. \A j \in DOMAIN Tail(h) : Head(h) < Tail(h)[j]
  <2> SUFFICES ASSUME NEW j \in 1 .. Len(h) - 1
               PROVE  h[1] < h[j + 1]
    BY <1>2
  <2>1. 1 \in 1 .. Len(h) /\ j + 1 \in 1 .. Len(h) /\ 1 < j + 1
    BY <1>2
  <2> QED  BY <1>3, <2>1
<1>7. /\ \A i \in DOMAIN o : o[i] < Head(h)
      /\ \A i \in DOMAIN o, j \in DOMAIN Tail(h) : o[i] < Tail(h)[j]
  BY <1>1, <1>2, <1>4
<1> QED  BY <1>2, <1>5, <1>6, <1>7

\* The oldest of the pictures held is written ...
LEMMA Write ==
    ASSUME NEW o, NEW h, NEW t, NEW g, NEW n, Placed(o, h, t, g, n), h # <<>>
    PROVE  Placed(Append(o, Head(h)), Tail(h), t, g, n)
<1> DEFINE x == Head(h)  oo == Append(o, x)  hh == Tail(h)
<1>0. o \in Seq(Nat) /\ h \in Seq(Nat) /\ n \in Nat \ {0}
  BY DEF Placed
<1>1. /\ hh \in Seq(Nat) /\ x \in Nat
      /\ Increasing(hh)
      /\ \A j \in DOMAIN hh : x < hh[j]
      /\ \A i \in DOMAIN o : o[i] < x
      /\ \A i \in DOMAIN o, j \in DOMAIN hh : o[i] < hh[j]
  BY TailOfHeld
<1>2. /\ UnitsOf(h) = UnitsOf(hh) \union {x} /\ x \notin UnitsOf(hh)
  BY <1>0, UnitsOfTail DEF Placed
<1>3. UnitsOf(oo) = UnitsOf(o) \union {x}
  BY <1>0, <1>1, UnitsOfAppend
<1>4. /\ oo \in Seq(Nat)
      /\ DOMAIN o = 1 .. Len(o) /\ DOMAIN oo = 1 .. Len(o) + 1 /\ Len(o) \in Nat
      /\ \A i \in DOMAIN o : oo[i] = o[i]
      /\ oo[Len(o) + 1] = x
  BY <1>0, <1>1
<1> HIDE DEF oo, hh, x
<1>5. Increasing(oo)
  <2>1. Increasing(o)
    BY DEF Placed
  <2> SUFFICES ASSUME NEW i \in DOMAIN oo, NEW j \in DOMAIN oo, i < j
               PROVE  oo[i] < oo[j]
    BY DEF Increasing
  <2>2. i \in DOMAIN o
    BY <1>4
  <2>3. CASE j \in DOMAIN o
    BY <1>4, <2>1, <2>2, <2>3 DEF Increasing
  <2>4. CASE j = Len(o) + 1
    BY <1>1, <1>4, <2>2, <2>4
  <2> QED  BY <1>4, <2>3, <2>4
<1>6. \A i \in DOMAIN oo, j \in DOMAIN hh : oo[i] < hh[j]
  <2> SUFFICES ASSUME NEW i \in DOMAIN oo, NEW j \in DOMAIN hh
               PROVE  oo[i] < hh[j]
    OBVIOUS
  <2>1. CASE i \in DOMAIN o
    BY <1>1, <1>4, <2>1
  <2>2. CASE i = Len(o) + 1
    BY <1>1, <1>4, <2>2
  <2> QED  BY <1>4, <2>1, <2>2
<1>7. /\ UnitsOf(oo) \union UnitsOf(hh) \union t \union g = 1 .. n - 1
      /\ UnitsOf(oo) \intersect (t \union g) = {}
      /\ UnitsOf(hh) \intersect (t \union g) = {}
      /\ t \intersect g = {}
  BY <1>2, <1>3 DEF Placed
<1>8. Placed(oo, hh, t, g, n)
  BY <1>0, <1>1, <1>4, <1>5, <1>6, <1>7 DEF Placed
<1> QED  BY <1>8 DEF oo, hh, x

\* ... or the wait for it times out.
LEMMA TimeOut ==
    ASSUME NEW o, NEW h, NEW t, NEW g, NEW n, Placed(o, h, t, g, n), h # <<>>
    PROVE  Placed(o, Tail(h), t \union {Head(h)}, g, n)
<1> DEFINE x == Head(h)  hh == Tail(h)
<1>0. o \in Seq(Nat) /\ h \in Seq(Nat) /\ n \in Nat \ {0}
  BY DEF Placed
<1>1. /\ hh \in Seq(Nat) /\ x \in Nat
      /\ Increasing(hh)
      /\ \A i \in DOMAIN o : o[i] < x
      /\ \A i \in DOMAIN o, j \in DOMAIN hh : o[i] < hh[j]
  BY TailOfHeld
<1>2. /\ UnitsOf(h) = UnitsOf(hh) \union {x} /\ x \notin UnitsOf(hh)
  BY <1>0, UnitsOfTail DEF Placed
<1>3. x \notin UnitsOf(o)
  <2>1. \A i \in DOMAIN o : o[i] \in Nat
    BY <1>0
  <2> QED  BY <1>1, <2>1 DEF UnitsOf
<1> HIDE DEF hh, x
<1>4. /\ UnitsOf(o) \union UnitsOf(hh) \union (t \union {x}) \union g = 1 .. n - 1
      /\ UnitsOf(o) \intersect ((t \union {x}) \union g) = {}
      /\ UnitsOf(hh) \intersect ((t \union {x}) \union g) = {}
      /\ (t \union {x}) \intersect g = {}
  BY <1>2, <1>3 DEF Placed
<1>5. Placed(o, hh, t \union {x}, g, n)
  BY <1>0, <1>1, <1>4 DEF Placed
<1> QED  BY <1>5 DEF hh, x

\* What is held is lost with the device, with the pictures up to m.
LEMMA Lose ==
    ASSUME NEW o, NEW h, NEW t, NEW g, NEW n, Placed(o, h, t, g, n),
           NEW m \in Nat, m >= n
    PROVE  Placed(o, <<>>, t, g \union UnitsOf(h) \union n .. m - 1, m)
<1> DEFINE gg == g \union UnitsOf(h) \union n .. m - 1
<1>0. o \in Seq(Nat) /\ h \in Seq(Nat) /\ n \in Nat \ {0}
  BY DEF Placed
<1>1. UnitsOf(<<>>) = {} /\ <<>> \in Seq(Nat) /\ Increasing(<<>>) /\ DOMAIN <<>> = {}
  BY DEF UnitsOf, Increasing
<1>2. 1 .. m - 1 = (1 .. n - 1) \union n .. m - 1 /\ (1 .. n - 1) \intersect n .. m - 1 = {}
  BY <1>0
<1>3. UnitsOf(o) \intersect UnitsOf(h) = {}
  <2>1. /\ \A i \in DOMAIN o, j \in DOMAIN h : o[i] < h[j]
        /\ \A i \in DOMAIN o : o[i] \in Nat
    BY <1>0 DEF Placed
  <2> QED  BY <2>1 DEF UnitsOf
<1>4. /\ UnitsOf(o) \union {} \union t \union gg = 1 .. m - 1
      /\ UnitsOf(o) \intersect (t \union gg) = {}
      /\ t \intersect gg = {}
  BY <1>2, <1>3 DEF Placed
<1> HIDE DEF gg
<1>5. Placed(o, <<>>, t, gg, m)
  BY <1>0, <1>1, <1>4 DEF Placed
<1> QED  BY <1>5 DEF gg

\* Pictures before the next header are skipped.
LEMMA Skip ==
    ASSUME NEW o, NEW h, NEW t, NEW g, NEW n, Placed(o, h, t, g, n),
           NEW m \in Nat, m >= n
    PROVE  Placed(o, h, t, g \union n .. m - 1, m)
<1>0. n \in Nat \ {0}
  BY DEF Placed
<1>1. 1 .. m - 1 = (1 .. n - 1) \union n .. m - 1 /\ (1 .. n - 1) \intersect n .. m - 1 = {}
  BY <1>0
<1>2. m \in Nat \ {0}
  BY <1>0
<1> QED  BY <1>1, <1>2 DEF Placed

LEMMA TakeWhole ==
    ASSUME NEW o \in Seq(Nat), NEW h \in Seq(Nat), NEW n \in Nat \ {0}, Whole(o, h, n)
    PROVE  Whole(o, Append(h, n), n + 1)
<1>1. /\ DOMAIN h = 1 .. Len(h) /\ DOMAIN Append(h, n) = 1 .. Len(h) + 1
      /\ Len(h) \in Nat /\ Len(o) \in Nat /\ Len(Append(h, n)) = Len(h) + 1
      /\ \A j \in DOMAIN h : Append(h, n)[j] = h[j]
      /\ Append(h, n)[Len(h) + 1] = n
  OBVIOUS
<1>2. Len(o) + Len(h) = n - 1 /\ (\A i \in DOMAIN o : o[i] = i)
  BY DEF Whole
<1>3. ASSUME NEW j \in 1 .. Len(h) + 1
      PROVE  Append(h, n)[j] = Len(o) + j
  <2>1. CASE j \in 1 .. Len(h)
    BY <1>1, <2>1 DEF Whole
  <2>2. CASE j = Len(h) + 1
    BY <1>1, <1>2, <2>2
  <2> QED  BY <1>1, <2>1, <2>2
<1>4. Len(o) + Len(Append(h, n)) = (n + 1) - 1
  BY <1>1, <1>2
<1> QED  BY <1>1, <1>2, <1>3, <1>4 DEF Whole

LEMMA WriteWhole ==
    ASSUME NEW o \in Seq(Nat), NEW h \in Seq(Nat), NEW n \in Nat \ {0}, Whole(o, h, n), h # <<>>
    PROVE  Whole(Append(o, Head(h)), Tail(h), n)
<1> DEFINE x == Head(h)  oo == Append(o, x)  hh == Tail(h)
<1>1. /\ DOMAIN h = 1 .. Len(h) /\ DOMAIN hh = 1 .. Len(h) - 1
      /\ Len(h) \in Nat \ {0} /\ x = h[1] /\ Len(hh) = Len(h) - 1 /\ x \in Nat
      /\ \A j \in 1 .. Len(h) - 1 : hh[j] = h[j + 1]
  OBVIOUS
<1>2. /\ DOMAIN o = 1 .. Len(o) /\ DOMAIN oo = 1 .. Len(o) + 1
      /\ Len(o) \in Nat /\ Len(oo) = Len(o) + 1
      /\ \A i \in DOMAIN o : oo[i] = o[i]
      /\ oo[Len(o) + 1] = x
  BY <1>1
<1> HIDE DEF x, oo, hh
<1>3. /\ Len(o) + Len(h) = n - 1
      /\ \A i \in 1 .. Len(o) : o[i] = i
      /\ \A j \in 1 .. Len(h) : h[j] = Len(o) + j
  BY <1>1, <1>2 DEF Whole
<1>4. x = Len(o) + 1
  BY <1>1, <1>3
<1>5. ASSUME NEW i \in DOMAIN oo
      PROVE  oo[i] = i
  <2>1. CASE i \in 1 .. Len(o)
    BY <1>2, <1>3, <2>1
  <2>2. CASE i = Len(o) + 1
    BY <1>2, <1>4, <2>2
  <2>3. i \in 1 .. Len(o) + 1 /\ Len(o) \in Nat
    BY <1>2
  <2>4. i \in 1 .. Len(o) \/ i = Len(o) + 1
    BY <2>3
  <2> QED  BY <2>1, <2>2, <2>4
<1>6. ASSUME NEW j \in DOMAIN hh
      PROVE  hh[j] = Len(oo) + j
  <2>1. j \in 1 .. Len(h) - 1 /\ j + 1 \in 1 .. Len(h)
    BY <1>1
  <2>2. hh[j] = Len(o) + (j + 1)
    BY <1>1, <1>3, <2>1
  <2> QED  BY <1>2, <2>1, <2>2
<1>7. Len(oo) + Len(hh) = n - 1
  BY <1>1, <1>2, <1>3
<1>8. Whole(oo, hh, n)
  BY <1>5, <1>6, <1>7 DEF Whole
<1> QED  BY <1>8 DEF oo, hh, x

-----------------------------------------------------------------------------
(* The invariant.                                                          *)

\* A header comes next, if anything.
HeaderNext == pos \in DOMAIN Stream => Stream[pos].header

\* Nothing has been lost, and the stream begins with a header.
Undisturbed == losses = 0 /\ timedOut = {} /\ Stream[1].header

\* Then all pictures are written or held, and the places where the decoder is set
\* up anew are at a header.
NothingLost ==
    /\ gone = {}
    /\ Whole(out, held, pos)
    /\ pc = "header" => HeaderNext
    /\ pc \in {"close", "free"} /\ ~ending => HeaderNext
    /\ pc # "reset"
    /\ pc = "drain" => IF changing THEN HeaderNext ELSE pos > Len(Stream)

OrderInv ==
    /\ Placed(out, held, timedOut, gone, pos)
    /\ pos <= Len(Stream) + 1
    /\ losses \in Nat
    /\ Undisturbed => NothingLost

LEMMA OrderAtInit == Init => OrderInv
<1> SUFFICES ASSUME Init PROVE OrderInv
  OBVIOUS
<1>1. /\ pc = "header" /\ pos = 1 /\ held = <<>> /\ out = <<>>
      /\ timedOut = {} /\ gone = {} /\ losses = 0
  BY DEF Init
<1>2. /\ <<>> \in Seq(Nat) /\ UnitsOf(<<>>) = {} /\ Increasing(<<>>)
      /\ DOMAIN <<>> = {} /\ Len(<<>>) = 0
  BY DEF UnitsOf, Increasing
<1>3. Placed(<<>>, <<>>, {}, {}, 1)
  BY <1>2 DEF Placed
<1>4. Whole(<<>>, <<>>, 1)
  BY <1>2 DEF Whole
<1>5. Len(Stream) \in Nat
  BY StreamAssumption
<1> QED  BY <1>1, <1>3, <1>4, <1>5 DEF OrderInv, Undisturbed, NothingLost, HeaderNext

\* One output, whichever way it goes.
LEMMA OutputKeeps ==
    ASSUME NEW h, NEW n, h # <<>>, Output(h), gone' = gone,
           Placed(out, h, timedOut, gone, n)
    PROVE  /\ Placed(out', held', timedOut', gone', n)
           /\ timedOut' = {} => timedOut = {}
           /\ timedOut' = {} /\ Whole(out, h, n) => Whole(out', held', n)
<1>0. out \in Seq(Nat) /\ h \in Seq(Nat) /\ n \in Nat \ {0}
  BY DEF Placed
<1>1. CASE out' = Append(out, Head(h)) /\ held' = Tail(h) /\ timedOut' = timedOut
  <2>1. Placed(Append(out, Head(h)), Tail(h), timedOut, gone, n)
    BY Write
  <2>2. Whole(out, h, n) => Whole(Append(out, Head(h)), Tail(h), n)
    BY <1>0, WriteWhole
  <2> QED  BY <1>1, <2>1, <2>2
<1>2. CASE out' = out /\ held' = Tail(h) /\ timedOut' = timedOut \union {Head(h)}
  <2>1. Placed(out, Tail(h), timedOut \union {Head(h)}, gone, n)
    BY TimeOut
  <2>2. timedOut' # {}
    BY <1>2
  <2> QED  BY <1>2, <2>1, <2>2
<1> QED  BY <1>1, <1>2 DEF Output

LEMMA OrderKept == OrderInv /\ [Next]_vars => OrderInv'
<1> SUFFICES ASSUME OrderInv, [Next]_vars PROVE OrderInv'
  OBVIOUS
<1>0. /\ Placed(out, held, timedOut, gone, pos)
      /\ pos <= Len(Stream) + 1 /\ losses \in Nat
      /\ pos \in Nat \ {0} /\ Len(Stream) \in Nat /\ DOMAIN Stream = 1 .. Len(Stream)
      /\ out \in Seq(Nat) /\ held \in Seq(Nat)
      /\ Undisturbed => NothingLost
  BY StreamAssumption DEF OrderInv, Placed
<1>1. CASE FindHeader
  <2>1. CASE End /\ UNCHANGED <<pos, fmt, gone>>
    <3>1. UNCHANGED <<pos, held, out, timedOut, gone, losses>> /\ pc' = "close" /\ ending'
      BY <1>1, <2>1 DEF FindHeader, End
    <3> QED  BY <1>0, <3>1 DEF OrderInv, Undisturbed, NothingLost
  <2>2. ASSUME NEW p \in pos .. Len(Stream),
               Stream[p].header,
               \A q \in pos .. p - 1 : ~Stream[q].header,
               pos' = p, gone' = gone \union pos .. p - 1, pc' = "alloc"
        PROVE  OrderInv'
    <3>1. UNCHANGED <<held, out, timedOut, losses>> /\ pc = "header"
      BY <1>1 DEF FindHeader
    <3>2. p \in Nat /\ p >= pos /\ p <= Len(Stream) + 1
      BY <1>0
    <3>3. Placed(out, held, timedOut, gone \union pos .. p - 1, p)
      BY <1>0, <3>2, Skip
    <3>4. ASSUME Undisturbed
          PROVE  p = pos
      <4>1. pos \in DOMAIN Stream /\ HeaderNext
        BY <1>0, <3>1, <3>4 DEF NothingLost
      <4>2. Stream[pos].header
        BY <4>1 DEF HeaderNext
      <4>3. pos \notin pos .. p - 1
        BY <2>2, <4>2
      <4> QED  BY <1>0, <4>3
    <3>5. ASSUME Undisturbed'
          PROVE  NothingLost'
      <4>1. Undisturbed
        BY <3>1, <3>5 DEF Undisturbed
      <4>2. pos' = pos /\ pos .. p - 1 = {}
        BY <1>0, <2>2, <3>4, <4>1
      <4> QED  BY <1>0, <2>2, <3>1, <4>1, <4>2 DEF NothingLost
    <3> QED  BY <1>0, <2>2, <3>1, <3>2, <3>3, <3>5 DEF OrderInv
  <2> QED  BY <1>1, <2>1, <2>2 DEF FindHeader
<1>2. CASE AllocSurfaces
  <2>1. /\ UNCHANGED <<pos, held, out, timedOut, gone, losses>>
        /\ pc' = "init" \/ (pc' = "close" /\ ending')
    BY <1>2 DEF AllocSurfaces, End
  <2> QED  BY <1>0, <2>1 DEF OrderInv, Undisturbed, NothingLost
<1>3. CASE InitDecoder
  <2>1. /\ UNCHANGED <<pos, held, out, timedOut, gone, losses>>
        /\ pc' = "decode" \/ (pc' = "close" /\ ending')
    BY <1>3 DEF InitDecoder, End
  <2> QED  BY <1>0, <2>1 DEF OrderInv, Undisturbed, NothingLost
<1>4. CASE CloseDecoder \/ DeleteFrames \/ DeleteAllocator
  <2>1. /\ UNCHANGED streamVars
        /\ \/ pc = "close" /\ pc' = "free"
           \/ pc = "free" /\ pc' = (IF ending THEN "delete" ELSE "header")
           \/ pc' = "closed"
    BY <1>4 DEF CloseDecoder, DeleteFrames, DeleteAllocator
  <2> QED  BY <1>0, <2>1 DEF OrderInv, Undisturbed, NothingLost, HeaderNext, streamVars
<1>5. CASE DecodeFrame
  <2>1. /\ pos <= Len(Stream) /\ pos' = pos + 1 /\ pc = "decode"
        /\ UNCHANGED <<pc, gone, losses>>
    BY <1>5 DEF DecodeFrame
  <2> DEFINE pictures == Append(held, pos)
  <2>2. /\ Placed(out, pictures, timedOut, gone, pos + 1)
        /\ Whole(out, held, pos) => Whole(out, pictures, pos + 1)
        /\ pictures # <<>>
    <3>1. Placed(out, pictures, timedOut, gone, pos + 1)
      BY <1>0, Take, Zenon
    <3>2. Whole(out, held, pos) => Whole(out, pictures, pos + 1)
      BY <1>0, TakeWhole
    <3>3. pictures # <<>>
      BY <1>0
    <3> QED  BY <3>1, <3>2, <3>3
  <2>3. /\ Placed(out', held', timedOut', gone', pos')
        /\ timedOut' = {} => timedOut = {}
        /\ timedOut' = {} /\ Whole(out, held, pos) => Whole(out', held', pos')
    <3>1. CASE held' = pictures /\ UNCHANGED <<out, timedOut>>
      BY <2>1, <2>2, <3>1
    <3>2. CASE Output(pictures)
      BY <2>1, <2>2, <3>2, OutputKeeps
    <3> QED  BY <1>5, <3>1, <3>2 DEF DecodeFrame
  <2>4. Undisturbed' => NothingLost'
    BY <1>0, <2>1, <2>3 DEF Undisturbed, NothingLost
  <2> QED  BY <1>0, <2>1, <2>3, <2>4 DEF OrderInv
<1>6. CASE LeaveMainLoop
  <2>1. /\ UNCHANGED <<pos, held, out, timedOut, gone, losses>> /\ pc' = "drain"
        /\ \/ pos > Len(Stream)
           \/ Stream[pos].header /\ changing'
    BY <1>6 DEF LeaveMainLoop
  <2>2. IF changing' THEN HeaderNext' ELSE pos' > Len(Stream)
    BY <1>0, <2>1 DEF HeaderNext
  <2> QED  BY <1>0, <2>1, <2>2 DEF OrderInv, Undisturbed, NothingLost
<1>7. CASE DrainDecoder
  <2>1. UNCHANGED <<pos, gone, losses, changing>> /\ pc = "drain"
    BY <1>7 DEF DrainDecoder
  <2>2. CASE held # <<>>
    <3>1. Output(held) /\ pc' = pc
      BY <1>7, <2>2 DEF DrainDecoder
    <3>2. /\ Placed(out', held', timedOut', gone', pos)
          /\ timedOut' = {} => timedOut = {}
          /\ timedOut' = {} /\ Whole(out, held, pos) => Whole(out', held', pos)
      BY <1>0, <2>1, <2>2, <3>1, OutputKeeps
    <3> QED  BY <1>0, <2>1, <3>1, <3>2 DEF OrderInv, Undisturbed, NothingLost, HeaderNext
  <2>3. CASE held = <<>>
    <3>1. /\ UNCHANGED <<held, out, timedOut>> /\ pc' = "close"
          /\ ~ending' => changing
      BY <1>7, <2>3 DEF DrainDecoder, End
    <3> QED  BY <1>0, <2>1, <3>1 DEF OrderInv, Undisturbed, NothingLost, HeaderNext
  <2> QED  BY <2>2, <2>3
<1>8. CASE DeviceLost
  <2>1. /\ losses' = losses + 1 /\ held' = <<>>
        /\ out' = out /\ timedOut' = timedOut
    BY <1>8 DEF DeviceLost
  <2>2. PICK n \in 0 .. IF pc = "decode" /\ pos <= Len(Stream) THEN 1 ELSE 0 :
           /\ pos' = pos + n
           /\ gone' = gone \union UnitsOf(held) \union pos .. pos + n - 1
    BY <1>8 DEF DeviceLost
  <2>3. pos + n \in Nat /\ pos + n >= pos /\ pos + n <= Len(Stream) + 1
    BY <1>0
  <2>4. Placed(out, <<>>, timedOut, gone \union UnitsOf(held) \union pos .. (pos + n) - 1, pos + n)
    BY <1>0, <2>3, Lose
  <2>5. losses' \in Nat /\ ~Undisturbed'
    BY <1>0, <2>1 DEF Undisturbed
  <2>6. Placed(out', held', timedOut', gone', pos')
    <3>1. /\ out' = out /\ held' = <<>> /\ timedOut' = timedOut /\ pos' = pos + n
      BY <2>1, <2>2
    <3>2. gone' = gone \union UnitsOf(held) \union pos .. (pos + n) - 1
      <4>1. pos + n - 1 = (pos + n) - 1
        BY <1>0
      <4> QED  BY <2>2, <4>1
    <3> HIDE DEF Placed
    <3> QED  BY <2>4, <3>1, <3>2, Zenon
  <2>7. pos' <= Len(Stream) + 1
    BY <2>2, <2>3
  <2> QED  BY <2>5, <2>6, <2>7 DEF OrderInv
<1>11. CASE ResetDevice
  <2>1. /\ UNCHANGED <<pos, held, out, timedOut, gone, losses>> /\ pc = "reset"
        /\ pc' \in {"crashed", "close"}
    BY <1>11 DEF ResetDevice, End
  <2> QED  BY <1>0, <2>1 DEF OrderInv, Undisturbed, NothingLost
<1>9. CASE Fail
  <2>1. UNCHANGED <<pos, held, out, timedOut, gone, losses>> /\ pc' = "close" /\ ending'
    BY <1>9 DEF Fail, End
  <2> QED  BY <1>0, <2>1 DEF OrderInv, Undisturbed, NothingLost
<1>10. CASE UNCHANGED vars
  BY <1>0, <1>10 DEF vars, streamVars, OrderInv, Undisturbed, NothingLost, HeaderNext
<1> QED
  BY <1>1, <1>2, <1>3, <1>4, <1>5, <1>6, <1>7, <1>8, <1>9, <1>10, <1>11 DEF Next

LEMMA OrderImplies == OrderInv => PicturesAccountedFor
<1> SUFFICES ASSUME OrderInv PROVE PicturesAccountedFor
  OBVIOUS
<1>0. /\ out \in Seq(Nat) /\ held \in Seq(Nat)
      /\ Len(Stream) \in Nat /\ DOMAIN Stream = 1 .. Len(Stream)
      /\ pos \in Nat /\ pos <= Len(Stream) + 1
      /\ Placed(out, held, timedOut, gone, pos)
  BY StreamAssumption DEF OrderInv, Placed
<1>1. \A i, j \in DOMAIN out : i < j => out[i] < out[j]
  BY <1>0 DEF Placed, Increasing
<1> DEFINE places == <<UnitsOf(out), UnitsOf(held), timedOut, gone>>
<1>2. UNION UnitsOf(places) = 1 .. pos - 1
  <2>1. UnitsOf(places) = {UnitsOf(out), UnitsOf(held), timedOut, gone}
    BY DEF UnitsOf
  <2>2. UNION {UnitsOf(out), UnitsOf(held), timedOut, gone}
          = UnitsOf(out) \union UnitsOf(held) \union timedOut \union gone
    OBVIOUS
  <2> QED  BY <1>0, <2>1, <2>2, Zenon DEF Placed
<1>3. \A i, j \in DOMAIN places : i # j => places[i] \intersect places[j] = {}
  <2>1. UnitsOf(out) \intersect UnitsOf(held) = {}
    <3>1. /\ \A i \in DOMAIN out, j \in DOMAIN held : out[i] < held[j]
          /\ \A i \in DOMAIN out : out[i] \in Nat
      BY <1>0 DEF Placed
    <3> QED  BY <3>1 DEF UnitsOf
  <2>2. /\ UnitsOf(out) \intersect (timedOut \union gone) = {}
        /\ UnitsOf(held) \intersect (timedOut \union gone) = {}
        /\ timedOut \intersect gone = {}
    BY <1>0 DEF Placed
  <2>3. /\ DOMAIN places = 1 .. 4
        /\ places[1] = UnitsOf(out) /\ places[2] = UnitsOf(held)
        /\ places[3] = timedOut /\ places[4] = gone
    OBVIOUS
  <2> HIDE DEF places
  <2> QED  BY <2>1, <2>2, <2>3
<1>4. ASSUME pc = "drain", held = <<>>, ~changing, Undisturbed
      PROVE  out = [p \in DOMAIN Stream |-> p]
  <2>1. Whole(out, held, pos) /\ pos > Len(Stream)
    BY <1>4 DEF OrderInv, NothingLost
  <2>2. Len(out) = Len(Stream) /\ DOMAIN out = 1 .. Len(out)
    BY <1>0, <1>4, <2>1 DEF Whole
  <2>3. \A i \in DOMAIN out : out[i] = i
    BY <2>1 DEF Whole
  <2> QED  BY <1>0, <2>2, <2>3
<1> QED  BY <1>1, <1>2, <1>3, <1>4 DEF PicturesAccountedFor, Undisturbed

\* Pictures are written in the order of the stream, each once, and one that is not
\* written was lost with the device, waited for in vain or had no header before it;
\* without these the whole stream is written (CDecodingPipeline::RunDecoding).
THEOREM PicturesAreAccountedFor == Spec => []PicturesAccountedFor
<1>1. Spec => []OrderInv
  BY OrderAtInit, OrderKept, PTL DEF Spec
<1> QED  BY <1>1, OrderImplies, PTL
=============================================================================
