------------------------------ MODULE MediaChain ------------------------------
(***************************************************************************)
(* What the index of a channel promises to one that plays it from its      *)
(* first file on: a chain of files in the order of their time, which only  *)
(* changes at its end.  A file that is followed by another one stays.  The *)
(* last one may be lost (the recorder crashed before its place was safe),  *)
(* and then the next file takes its place.                                 *)
(***************************************************************************)
EXTENDS Naturals, Sequences

CONSTANT Times  \* the times at which a file may start

VARIABLE files  \* the starts of the files, in order

Front(s) == SubSeq(s, 1, Len(s) - 1)
IsLater(s, t) == s = <<>> \/ s[Len(s)] < t

Init == files = <<>>

Add(t) == IsLater(files, t) /\ files' = Append(files, t)

LoseLast == files # <<>> /\ files' = Front(files)

ReplaceLast(t) ==
  /\ files # <<>> /\ IsLater(Front(files), t)
  /\ files' = Append(Front(files), t)

Next == LoseLast \/ \E t \in Times : Add(t) \/ ReplaceLast(t)

Spec == Init /\ [][Next]_files
===============================================================================
